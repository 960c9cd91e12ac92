------------------------------ MODULE RunLedger ------------------------------
(***************************************************************************)
(* What the accounting of agent runs promises, whatever happens to the     *)
(* daemon: a run is recorded before its process exists, has one process in *)
(* its life, is settled only when that process is gone, and once settled   *)
(* stays so.  Deleting an install erases its runs, at any time.            *)
(***************************************************************************)
CONSTANT Runs

VARIABLES outcome,  \* none, running, completed, halted, errored or erased
          life      \* unborn, alive or dead

vars == <<outcome, life>>

Init == /\ outcome = [r \in Runs |-> "none"]
        /\ life = [r \in Runs |-> "unborn"]

Record(r) ==
  /\ outcome[r] = "none"
  /\ outcome' = [outcome EXCEPT ![r] = "running"]
  /\ UNCHANGED life

Awaken(r) ==
  /\ outcome[r] \in {"running", "erased"} /\ life[r] = "unborn"
  /\ life' = [life EXCEPT ![r] = "alive"]
  /\ UNCHANGED outcome

\* One process exits, or the daemon goes down with all of them.
Die(R) ==
  /\ life' = [r \in Runs |-> IF r \in R /\ life[r] = "alive" THEN "dead" ELSE life[r]]
  /\ UNCHANGED outcome

Settle(r, o) ==
  /\ outcome[r] = "running" /\ life[r] # "alive"
  /\ outcome' = [outcome EXCEPT ![r] = o]
  /\ UNCHANGED life

Erase(R) ==
  /\ outcome' = [r \in Runs |-> IF r \in R THEN "erased" ELSE outcome[r]]
  /\ UNCHANGED life

Next == \/ \E r \in Runs : Record(r) \/ Awaken(r)
        \/ \E r \in Runs, o \in {"completed", "halted", "errored"} : Settle(r, o)
        \/ \E R \in SUBSET Runs : Die(R) \/ Erase(R)

Spec == Init /\ [][Next]_vars
=============================================================================
