-------------------------------- MODULE Outbox --------------------------------
(***************************************************************************)
(* What an outbox of federated messages promises its producers: a message  *)
(* has one fate for good, and none counts as delivered that the peer does  *)
(* not hold.  A copy may arrive late, even of a message given up.          *)
(***************************************************************************)
CONSTANT Rows

VARIABLES fate,     \* none, pending, delivered or dead
          arrived   \* messages the peer holds

vars == <<fate, arrived>>

Init == /\ fate = [d \in Rows |-> "none"]
        /\ arrived = {}

Enqueue(d) ==
  /\ fate[d] = "none"
  /\ fate' = [fate EXCEPT ![d] = "pending"]
  /\ UNCHANGED arrived

Arrive(d) ==
  /\ fate[d] # "none"
  /\ arrived' = arrived \cup {d}
  /\ UNCHANGED fate

\* One pass of the sender settles several messages at once.
Settle(D, E) ==
  /\ \A d \in D \cup E : fate[d] = "pending"
  /\ D \subseteq arrived
  /\ fate' = [d \in Rows |-> IF d \in D THEN "delivered"
                             ELSE IF d \in E THEN "dead" ELSE fate[d]]
  /\ UNCHANGED arrived

Next == \/ \E d \in Rows : Enqueue(d) \/ Arrive(d)
        \/ \E D, E \in SUBSET Rows : Settle(D, E)

Spec == Init /\ [][Next]_vars
=============================================================================
