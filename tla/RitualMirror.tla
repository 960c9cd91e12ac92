------------------------------ MODULE RitualMirror ------------------------------
(***************************************************************************)
(* A group ritual on the instance that organizes it, and its mirror on an  *)
(* instance whose people were invited.  The origin's requests commit and   *)
(* then queue an envelope per remote participant; envelopes arrive in any  *)
(* order, more than once or not at all, as activities of the other         *)
(* instance's inbox, which a sweep works off every minute, one transaction *)
(* per activity.  Nothing keeps two sweeps apart.                          *)
(***************************************************************************)
EXTENDS Naturals, Sequences, FiniteSets

CONSTANTS
  MaxFragments,  \* bound: fragments posted at the origin
  Copies,        \* remote participants on the mirror's instance
  Sweeps,        \* executions of run_process_federation_inbox
  BatchSize,
  MaxMishaps,    \* bound: deliveries sent again, activities or sweeps that fail
  MaxOverlaps    \* bound: sweeps that begin beside another

ASSUME BoundsAssumption ==
  /\ MaxFragments \in Nat /\ Copies \in Nat /\ MaxMishaps \in Nat /\ MaxOverlaps \in Nat
  /\ BatchSize \in Nat \ {0}

VARIABLES
  status,     \* of the origin's ritual
  phase,      \* per request at the origin: how far it is
  wire,       \* per envelope: copies still to be delivered
  inbox,      \* federation_activity, in the order of received_at
  mirror,     \* the mirror's status, "none" before there is one
  fragments,  \* rows of each fragment at the mirror
  sweep,      \* per sweep: activities left, how far it is, the status it read
  mishaps, overlaps  \* of their bounds

vars == <<status, phase, wire, inbox, mirror, fragments, sweep, mishaps, overlaps>>

originVars == <<status, phase>>
mirrorVars == <<mirror, fragments>>
bounds     == <<mishaps, overlaps>>

\* No sweep has begun beside another.
Apart == overlaps = 0

Op(kind, n) == [kind |-> kind, n |-> n]
Posts       == {Op("fragment", n) : n \in 1 .. MaxFragments}
Ops         == {Op("schedule", 0), Op("start", 0), Op("completion", 0)} \cup Posts

Rank(s) == CASE s = "none"        -> 0
             [] s = "draft"       -> 0
             [] s = "invited"     -> 1
             [] s = "in_progress" -> 2
             [] s = "completed"   -> 3

Statuses == {"draft", "invited", "in_progress", "completed"}

-----------------------------------------------------------------------------
(* The origin: invite, start, post_fragment and close of group_rituals.py. *)

Allowed(op) ==
  CASE op.kind = "schedule"   -> status \in {"draft", "invited"}
    [] op.kind = "start"      -> status = "invited"
    [] op.kind = "fragment"   -> status = "in_progress"
    [] op.kind = "completion" -> status \in {"invited", "in_progress"}

Check(op) ==
  /\ phase[op] = "new" /\ Allowed(op)
  /\ phase' = [phase EXCEPT ![op] = "checked"]
  /\ UNCHANGED <<status, wire, inbox, mirrorVars, sweep, bounds>>

\* What the request read before is not read again.
CommitOp(op) ==
  /\ phase[op] = "checked"
  /\ phase' = [phase EXCEPT ![op] = "committed"]
  /\ status' = CASE op.kind = "schedule"   -> IF status = "draft" THEN "invited" ELSE status
                 [] op.kind = "start"      -> "in_progress"
                 [] op.kind = "fragment"   -> status
                 [] op.kind = "completion" -> "completed"
  /\ UNCHANGED <<wire, inbox, mirrorVars, sweep, bounds>>

\* broadcast_ritual_schedule and broadcast_ritual_update: one delivery per remote
\* participant, in a commit of its own.  Where that fails nothing is sent: this step,
\* like an arrival, may be missing.
Broadcast(op) ==
  /\ phase[op] = "committed"
  /\ phase' = [phase EXCEPT ![op] = "done"]
  /\ wire' = [wire EXCEPT ![op] = Copies]
  /\ UNCHANGED <<status, inbox, mirrorVars, sweep, bounds>>

-----------------------------------------------------------------------------
(* The way there.                                                          *)

Received(op) == Append(inbox, [op |-> op, status |-> "pending"])

Arrive(op) ==
  /\ wire[op] > 0
  /\ wire' = [wire EXCEPT ![op] = @ - 1]
  /\ inbox' = Received(op)
  /\ UNCHANGED <<originVars, mirrorVars, sweep, bounds>>

\* The sender did not learn that it arrived.
ArriveUnheard(op) ==
  /\ wire[op] > 0 /\ mishaps < MaxMishaps
  /\ mishaps' = mishaps + 1
  /\ inbox' = Received(op)
  /\ UNCHANGED <<originVars, wire, mirrorVars, sweep, overlaps>>

-----------------------------------------------------------------------------
(* process_pending                                                         *)

Asleep     == [rows |-> <<>>, at |-> "idle", seen |-> "none"]
Running(w) == sweep[w].at # "idle"
Row(w)     == Head(sweep[w].rows)
Operation(w) == inbox[Row(w)].op

Pending == {i \in DOMAIN inbox : inbox[i].status = "pending"}

\* Variant: the newest first.
AreNewest(s) ==
  /\ \A k, l \in DOMAIN s : k < l => s[k] > s[l]
  /\ \A i \in Pending : (\E k \in DOMAIN s : s[k] = i) \/ \A k \in DOMAIN s : i < s[k]

\* ORDER BY received_at LIMIT batch_size
AreOldest(s) ==
  /\ \A k, l \in DOMAIN s : k < l => s[k] < s[l]
  /\ \A i \in Pending : (\E k \in DOMAIN s : s[k] = i) \/ \A k \in DOMAIN s : s[k] < i

BatchLength == IF Cardinality(Pending) < BatchSize THEN Cardinality(Pending) ELSE BatchSize

Tick(w) == \E s \in [1 .. BatchLength -> Pending] :
  /\ ~ Running(w) /\ Pending # {} /\ AreOldest(s)
  /\ sweep' = [sweep EXCEPT ![w] = [Asleep EXCEPT !.rows = s, !.at = "next"]]
  /\ IF \A v \in Sweeps : ~ Running(v) THEN overlaps' = overlaps
     ELSE overlaps < MaxOverlaps /\ overlaps' = overlaps + 1
  /\ UNCHANGED <<originVars, wire, inbox, mirrorVars, mishaps>>

\* The handler's SELECT of the mirror.
Handle(w) ==
  /\ sweep[w].at = "next"
  /\ sweep' = [sweep EXCEPT ![w].at = "handled", ![w].seen = mirror]
  /\ UNCHANGED <<originVars, wire, inbox, mirrorVars, bounds>>

\* Variant: a refused update waits.
VerdictLater(op, seen) ==
  IF \/ op.kind # "schedule" /\ seen = "none"
     \/ op.kind = "fragment" /\ seen = "completed"
  THEN "pending" ELSE "processed"

\* No ritual to update; the ritual is frozen.
Verdict(op, seen) ==
  IF \/ op.kind # "schedule" /\ seen = "none"
     \/ op.kind = "fragment" /\ seen = "completed"
  THEN "skipped" ELSE "processed"

\* Variant: start does not ask what the status is.
StatusStarted(op, seen) ==
  CASE op.kind = "schedule" /\ seen = "none"    -> "invited"
    [] op.kind = "start" /\ seen # "none"       -> "in_progress"
    [] op.kind = "completion" /\ seen # "none"  -> "completed"
    [] op.kind = "fragment" /\ seen = "invited" -> "in_progress"
    [] OTHER                                    -> seen

\* _handle_ritual_schedule and _handle_ritual_update: a fragment opens a mirror that
\* was not told of the start.
StatusAfter(op, seen) ==
  CASE op.kind = "schedule" /\ seen = "none"    -> "invited"
    [] op.kind = "start" /\ seen = "invited"    -> "in_progress"
    [] op.kind = "completion" /\ seen # "none"  -> "completed"
    [] op.kind = "fragment" /\ seen = "invited" -> "in_progress"
    [] OTHER                                    -> seen

\* A second mirror of a ritual: ux_group_ritual_origin_ritual.
Collides(w) == Operation(w).kind = "schedule" /\ sweep[w].seen = "none" /\ mirror # "none"

Gone(w) == [sweep EXCEPT ![w] = Asleep]
\* Variant: the last activity of a batch is not told from the others.
PassedOn(w) == [sweep EXCEPT ![w] = [Asleep EXCEPT !.rows = Tail(sweep[w].rows), !.at = "next"]]

Passed(w) == [sweep EXCEPT ![w] = IF Len(@.rows) = 1 THEN Asleep
                                  ELSE [Asleep EXCEPT !.rows = Tail(sweep[w].rows), !.at = "next"]]

\* The effect and the activity's status, in one transaction; an attribute that comes
\* out as it was read is not in the UPDATE.
CommitRow(w) ==
  LET op   == Operation(w)
      seen == sweep[w].seen
  IN  /\ sweep[w].at = "handled" /\ ~ Collides(w)
      /\ inbox' = [inbox EXCEPT ![Row(w)].status = Verdict(op, seen)]
      /\ mirror' = IF StatusAfter(op, seen) = seen THEN mirror ELSE StatusAfter(op, seen)
      /\ fragments' = IF op.kind = "fragment" /\ Verdict(op, seen) = "processed"
                      THEN [fragments EXCEPT ![op] = @ + 1] ELSE fragments
      /\ sweep' = Passed(w)
      /\ UNCHANGED <<originVars, wire, bounds>>

\* The commit is outside the try: its failure ends the sweep.
Collide(w) ==
  /\ sweep[w].at = "handled" /\ Collides(w)
  /\ sweep' = Gone(w)
  /\ UNCHANGED <<originVars, wire, inbox, mirrorVars, bounds>>

\* Variant: of an activity that failed, the effects stay.
RaiseKept(w) ==
  /\ sweep[w].at = "handled" /\ mishaps < MaxMishaps
  /\ mishaps' = mishaps + 1
  /\ inbox' = [inbox EXCEPT ![Row(w)].status = "errored"]
  /\ fragments' = IF Operation(w).kind = "fragment" /\ sweep[w].seen # "none"
                  THEN [fragments EXCEPT ![Operation(w)] = @ + 1] ELSE fragments
  /\ sweep' = Passed(w)
  /\ UNCHANGED <<originVars, wire, mirror, overlaps>>

\* The handler raises: its effects are rolled back, the activity is marked.
Raise(w) ==
  /\ sweep[w].at = "handled" /\ mishaps < MaxMishaps
  /\ mishaps' = mishaps + 1
  /\ inbox' = [inbox EXCEPT ![Row(w)].status = "errored"]
  /\ sweep' = Passed(w)
  /\ UNCHANGED <<originVars, wire, mirrorVars, overlaps>>

\* The worker dies, or fails at a commit or in handling a failure.
Die(w) ==
  /\ Running(w) /\ mishaps < MaxMishaps
  /\ mishaps' = mishaps + 1
  /\ sweep' = Gone(w)
  /\ UNCHANGED <<originVars, wire, inbox, mirrorVars, overlaps>>

-----------------------------------------------------------------------------
Init ==
  /\ status = "draft" /\ phase = [op \in Ops |-> "new"]
  /\ wire = [op \in Ops |-> 0] /\ inbox = <<>>
  /\ mirror = "none" /\ fragments = [op \in Posts |-> 0]
  /\ sweep = [w \in Sweeps |-> Asleep]
  /\ mishaps = 0 /\ overlaps = 0

Work(w) == Handle(w) \/ CommitRow(w) \/ Collide(w) \/ Raise(w) \/ Die(w)

Next ==
  \/ \E op \in Ops : \/ Check(op) \/ CommitOp(op) \/ Broadcast(op)
                     \/ Arrive(op) \/ ArriveUnheard(op)
  \/ \E w \in Sweeps : Tick(w) \/ Work(w)

Spec == Init /\ [][Next]_vars

\* The beat ticks every minute, and a sweep that runs goes on.
FairSpec == Spec /\ \A w \in Sweeps : WF_vars(Tick(w)) /\ WF_vars(Work(w))

-----------------------------------------------------------------------------
MirrorStatuses == {"none", "invited", "in_progress", "completed"}
Activity  == [op : Ops, status : {"pending", "processed", "skipped", "errored"}]
SweepType == [rows : Seq(Nat), at : {"idle", "next", "handled"}, seen : MirrorStatuses]

\* The types; a sweep that runs has activities of the inbox.
TypeOK ==
  /\ status \in Statuses
  /\ phase \in [Ops -> {"new", "checked", "committed", "done"}]
  /\ wire \in [Ops -> Nat]
  /\ inbox \in Seq(Activity)
  /\ mirror \in MirrorStatuses /\ fragments \in [Posts -> Nat]
  /\ sweep \in [Sweeps -> SweepType]
  /\ \A w \in Sweeps : /\ Running(w) <=> sweep[w].rows # <<>>
                       /\ \A k \in DOMAIN sweep[w].rows : sweep[w].rows[k] \in DOMAIN inbox
  /\ mishaps \in Nat /\ overlaps \in Nat

Processed(op) == {i \in DOMAIN inbox : inbox[i].op = op /\ inbox[i].status = "processed"}

Told(op) == CASE op.kind = "schedule"   -> "invited"
              [] op.kind = "start"      -> "in_progress"
              [] op.kind = "fragment"   -> "in_progress"
              [] op.kind = "completion" -> "completed"

\* close_ritual: the updates are "idempotent receiver-side and order-independent".
\* Whatever was lost, repeated, swapped or failed, the mirror's status is the furthest
\* of those it has processed: it never goes back and never runs ahead.  (Sweeps that
\* overlap break it: one writes what it decided before the other's commit.)
StatusIsTheFurthest ==
  Apart =>
    /\ \A op \in Ops : Processed(op) # {} => Rank(Told(op)) <= Rank(mirror)
    /\ mirror # "none" => \E op \in Ops : Processed(op) # {} /\ Told(op) = mirror

\* A fragment is at the mirror once for each of its activities that is processed, and
\* not at all for one that failed or was refused; with sweeps apart none runs twice.
FragmentsAreProcessed ==
  Apart => \A op \in Posts : fragments[op] = Cardinality(Processed(op))

\* An update is refused for good only if it came before every schedule that was
\* handled, or if it is a fragment that came after a completion: what arrives in
\* order is never skipped, however it is cut into sweeps and whatever fails.
SkipsAreReorderings ==
  Apart => \A i \in DOMAIN inbox : inbox[i].status = "skipped" =>
    \/ \A j \in 1 .. i : inbox[j].op.kind = "schedule" => inbox[j].status # "processed"
    \/ /\ inbox[i].op.kind = "fragment"
       /\ \E j \in 1 .. i : inbox[j].op.kind = "completion" /\ inbox[j].status = "processed"

\* Every activity leaves PENDING, if not every sweep fails: once no more arrive, the
\* inbox is worked off.
ActivitiesSettle == []<>(Pending = {})
=============================================================================
