------------------------------ MODULE CostLedger ------------------------------
(***************************************************************************)
(* The money of one install: the at-wake cap decision, the accumulator     *)
(* that halts a run beyond its reservation, and the queries the cap is fed *)
(* from.                                                                   *)
(*                                                                         *)
(* The daemon does not read the ledger when it decides: month_spent_usd    *)
(* and recent_run_cost_usd come in the body of POST /runs.  A caller is    *)
(* modelled as an honest one, that reads them from the ledger first, in a  *)
(* step of its own.  Amounts are exact, so a reservation is a fraction.    *)
(***************************************************************************)
EXTENDS Naturals, FiniteSets, FiniteSetsExt

CONSTANTS
  Cap,            \* monthly_cost_cap_usd
  MulNum, MulDen, \* cost_cap_estimate_multiplier, 1.4
  RecentRuns,     \* how many runs the estimate averages, 10
  Callers,        \* vault requests that may wake the agent
  Serial,         \* a caller asks only when no wake is asked for or running
  MaxRuns,        \* bound: runs of the install
  Samples,        \* what a cost sample may be
  MaxSamples,     \* bound: samples of one run before it is beyond its reservation
  MaxLate,        \* bound: samples that still land while it is being terminated
  MaxDay, WeekLength, MonthStarts   \* the calendar: days, Mondays, firsts

Runs == 1 .. MaxRuns
Days == 1 .. MaxDay

ASSUME MoneyAssumption ==
  /\ Cap \in Nat /\ MulNum \in Nat /\ MulDen \in Nat \ {0} /\ RecentRuns \in Nat \ {0}
  /\ Samples \subseteq Nat \ {0} /\ Samples # {} /\ IsFiniteSet(Samples)
  /\ MaxSamples \in Nat /\ MaxLate \in Nat /\ MaxRuns \in Nat
ASSUME CalendarAssumption ==
  /\ MaxDay \in Nat \ {0} /\ WeekLength \in Nat \ {0}
  /\ 1 \in MonthStarts /\ MonthStarts \subseteq Days

VARIABLES run,    \* agent_run rows in the order of their started_at
          quote,  \* the figures each caller holds
          today

vars == <<run, quote, today>>

NoRun   == [outcome |-> "none", day |-> 1, cost |-> 0, num |-> 0, den |-> 1,
            samples |-> 0, late |-> 0]
NoQuote == [held |-> FALSE, spent |-> 0, sum |-> 0, n |-> 0]

-----------------------------------------------------------------------------
(* Windows and queries.                                                    *)

window_start(window, day) ==
  CASE window = "day"   -> day
    [] window = "week"  -> day - (day % WeekLength)
    [] window = "month" -> Max({d \in MonthStarts : d <= day})

Started(r) == run[r].outcome # "none"
Ended(r)   == run[r].outcome = "ended"
Since(day) == {r \in Runs : Started(r) /\ run[r].day >= day}
Cost(R)    == SumFunctionOnSet([r \in Runs |-> run[r].cost], R)

\* Variant: the spend of the week.
week_spent == Cost({r \in Since(window_start("week", today)) : Ended(r)})

month_spent == Cost({r \in Since(window_start("month", today)) : Ended(r)})

recent_costs_for_cap ==
  {r \in Runs : Ended(r) /\ Cardinality({s \in Runs : Ended(s) /\ s > r}) < RecentRuns}

-----------------------------------------------------------------------------
(* evaluate_cap: refuse at the cap, or when the estimate, a multiple of    *)
(* the recent average, is more than what remains of it.                    *)

\* Variant: the average of no runs is taken too.
EstimateOfNone(q) == [num |-> q.sum * MulNum, den |-> q.n * MulDen]

Estimate(q) == IF q.n = 0 THEN [num |-> 0, den |-> 1]
               ELSE [num |-> q.sum * MulNum, den |-> q.n * MulDen]

\* Variant: the estimate is held against the whole cap.
FitsCap(q) == Estimate(q).num <= Cap * Estimate(q).den

AtCap(q)         == q.spent >= Cap
FitsRemaining(q) == Estimate(q).num <= (Cap - q.spent) * Estimate(q).den

-----------------------------------------------------------------------------
AskedOrRunning == (\E c \in Callers : quote[c].held)
                  \/ \E r \in Runs : run[r].outcome = "running"

ReadFigures(c) ==
  /\ ~quote[c].held
  /\ Serial => ~AskedOrRunning
  /\ quote' = [quote EXCEPT ![c] =
       [held |-> TRUE, spent |-> month_spent, sum |-> Cost(recent_costs_for_cap),
        n |-> Cardinality(recent_costs_for_cap)]]
  /\ UNCHANGED <<run, today>>

Refused(c) ==
  /\ quote[c].held
  /\ AtCap(quote[c]) \/ ~FitsRemaining(quote[c])
  /\ quote' = [quote EXCEPT ![c] = NoQuote]
  /\ UNCHANGED <<run, today>>

Wake(c, r) ==
  /\ quote[c].held
  /\ ~AtCap(quote[c]) /\ FitsRemaining(quote[c])
  /\ ~Started(r) /\ \A s \in Runs : s < r => Started(s)
  /\ run' = [run EXCEPT ![r] = [NoRun EXCEPT !.outcome = "running", !.day = today,
                                  !.num = Estimate(quote[c]).num,
                                  !.den = Estimate(quote[c]).den]]
  /\ quote' = [quote EXCEPT ![c] = NoQuote]
  /\ UNCHANGED today

\* CostAccumulator.record adds first and complains after.
BeyondReservation(r) == run[r].cost * run[r].den > run[r].num

Report(r, amount) ==
  /\ run[r].outcome = "running" /\ ~BeyondReservation(r)
  /\ run[r].samples < MaxSamples
  /\ run' = [run EXCEPT ![r].cost = @ + amount, ![r].samples = @ + 1]
  /\ UNCHANGED <<quote, today>>

\* The run is being terminated: what the agent spends meanwhile still lands.
LateReport(r, amount) ==
  /\ run[r].outcome = "running" /\ BeyondReservation(r) /\ run[r].late < MaxLate
  /\ run' = [run EXCEPT ![r].cost = @ + amount, ![r].late = @ + 1]
  /\ UNCHANGED <<quote, today>>

\* Whatever the outcome, the actual spend is what the ledger keeps.
End(r) ==
  /\ run[r].outcome = "running"
  /\ run' = [run EXCEPT ![r].outcome = "ended"]
  /\ UNCHANGED <<quote, today>>

NextDay == /\ today < MaxDay
           /\ today' = today + 1
           /\ UNCHANGED <<run, quote>>

Init == /\ run = [r \in Runs |-> NoRun]
        /\ quote = [c \in Callers |-> NoQuote]
        /\ today = 1

Next == \/ \E c \in Callers : ReadFigures(c) \/ Refused(c) \/ \E r \in Runs : Wake(c, r)
        \/ \E r \in Runs : End(r) \/ \E a \in Samples : Report(r, a) \/ LateReport(r, a)
        \/ NextDay

Spec == Init /\ [][Next]_vars

-----------------------------------------------------------------------------
TypeOK ==
  /\ run \in [Runs -> [outcome : {"none", "running", "ended"}, day : Days, cost : Nat,
                       num : Nat, den : Nat \ {0}, samples : Nat, late : Nat]]
  /\ quote \in [Callers -> [held : BOOLEAN, spent : Nat, sum : Nat, n : Nat]]
  /\ today \in Days

RunsOf(m)   == {r \in Runs : Started(r) /\ window_start("month", run[r].day) = m}
LiveOf(m)   == {r \in RunsOf(m) : ~Ended(r)}
Overshoot   == Max(Samples) * (1 + MaxLate)

\* The cap is hard up to one run's overshoot: what a month's runs cost passes
\* it by no more than the sample that crossed a reservation and those that land
\* while that run is being terminated.
MonthlySpendBounded ==
  \A m \in MonthStarts : Cost(RunsOf(m)) <= Cap + Overshoot

\* A wake holds its reservation back against the budget: while runs of a month
\* are live, what was spent and what they reserved fit the cap together.
ReservationsHeldBack ==
  \A m \in MonthStarts : \A r \in LiveOf(m) :
    run[r].num + run[r].den * Cost({s \in RunsOf(m) : Ended(s)})
      + run[r].den * SumFunctionOnSet([s \in Runs |-> run[s].num \div run[s].den], LiveOf(m) \ {r})
    <= Cap * run[r].den
=============================================================================
