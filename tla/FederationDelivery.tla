-------------------------- MODULE FederationDelivery --------------------------
(***************************************************************************)
(* The outbound delivery queue of one instance and the federation inbox of *)
(* one peer: rows of federation_delivery, the passes of the drain worker   *)
(* over them (several may overlap: beat fires every minute and a pass may  *)
(* take longer), the signed requests on the wire, and the peer's replay    *)
(* guard.                                                                  *)
(*                                                                         *)
(* A pass locks its batch, delivers row after row, and commits once at the *)
(* end; all of it is lost if the worker or its database session goes down  *)
(* before.  The times of next_attempt_at are left open: BackoffElapses may *)
(* come at any moment, and so a pass may take any due rows.                *)
(***************************************************************************)
EXTENDS Naturals, FiniteSets

CONSTANTS
  Rows,         \* federation_delivery rows addressed to the peer
  NoRow,
  Workers,      \* passes of drain_pending that may overlap
  NoWorker,
  BatchSize,    \* drain_pending's batch_size
  MaxAttempts,  \* max_attempts of a row
  MaxClock,     \* bound: seconds that pass
  MaxLapses     \* bound: answers lost, to a timeout or with a worker

ASSUME NamesAssumption == NoRow \notin Rows /\ NoWorker \notin Workers
ASSUME BoundsAssumption ==
  /\ BatchSize \in Nat \ {0} /\ MaxAttempts \in Nat \ {0}
  /\ MaxClock \in Nat /\ MaxLapses \in Nat

VARIABLES
  row,       \* federation_delivery: status and attempt_count
  due,       \* pending rows whose next_attempt_at has come
  worker,    \* a pass: its locked batch, rows still to try, rows delivered, the request out
  net,       \* signed requests under way, with the pass that awaits the answer
  nonces,    \* the peer's federation_nonce: seconds of `created' it has seen
  received,  \* the peer's federation_activity: how many rows each message has there
  clock,     \* int(time()) of the sender
  lapsed     \* history: times the sender lost the answer to a row's request

vars == <<row, due, worker, net, nonces, received, clock, lapsed>>

NoMessage == [status |-> "none", attempts |-> 0]
Idle      == [batch |-> {}, todo |-> {}, ok |-> {}, calling |-> NoRow, answer |-> "none"]
Seconds   == 0 .. MaxClock
Request   == [row : Rows, created : Seconds, by : Workers \cup {NoWorker}]

HeldBy(w) == worker[w].batch
Held      == UNION {HeldBy(w) : w \in Workers}

\* The pass no longer awaits its request, which may arrive nevertheless.
Orphans(w) == {IF m.by = w THEN [m EXCEPT !.by = NoWorker] ELSE m : m \in net}

-----------------------------------------------------------------------------
\* A producer's transaction commits the row it enqueued.
Enqueue(d) ==
  /\ row[d].status = "none"
  /\ row' = [row EXCEPT ![d].status = "pending"]
  /\ due' = due \cup {d}
  /\ UNCHANGED <<worker, net, nonces, received, clock, lapsed>>

BackoffElapses(d) ==
  /\ row[d].status = "pending" /\ d \notin due
  /\ due' = due \cup {d}
  /\ UNCHANGED <<row, worker, net, nonces, received, clock, lapsed>>

Tick ==
  /\ clock < MaxClock
  /\ clock' = clock + 1
  /\ UNCHANGED <<row, due, worker, net, nonces, received, lapsed>>

-----------------------------------------------------------------------------
(* drain_pending.                                                          *)

LockBatch(w, B) ==
  /\ worker[w] = Idle
  /\ B # {} /\ Cardinality(B) <= BatchSize
  /\ worker' = [worker EXCEPT ![w].batch = B, ![w].todo = B]
  /\ UNCHANGED <<row, due, net, nonces, received, clock, lapsed>>

\* Variant: FOR UPDATE was left out.
LockUnlocked(w) == \E B \in SUBSET due : LockBatch(w, B)

\* SELECT ... LIMIT batch_size FOR UPDATE SKIP LOCKED: a full batch if there is one.
Lock(w) == \E B \in SUBSET (due \ Held) :
  /\ B = due \ Held \/ Cardinality(B) = BatchSize
  /\ LockBatch(w, B)

\* deliver signs with the second of the call and posts.
Post(w) == \E d \in worker[w].todo :
  /\ worker[w].calling = NoRow
  /\ worker' = [worker EXCEPT ![w].todo = @ \ {d}, ![w].calling = d]
  /\ net' = net \cup {[row |-> d, created |-> clock, by |-> w]}
  /\ UNCHANGED <<row, due, nonces, received, clock, lapsed>>

\* Transport error before the peer took the request, or an answer that is an
\* error whatever the peer's replay guard says (4xx, 5xx, a key not resolved).
Fail(w) ==
  /\ worker[w].calling # NoRow /\ worker[w].answer = "none"
  /\ worker' = [worker EXCEPT ![w].calling = NoRow]
  /\ net' = {m \in net : m.by # w}
  /\ UNCHANGED <<row, due, nonces, received, clock, lapsed>>

\* Variant: a 409 means the peer has it.
HearAnyhow(w) ==
  /\ worker[w].answer # "none"
  /\ worker' = [worker EXCEPT ![w].calling = NoRow, ![w].answer = "none",
                              ![w].ok = @ \cup {worker[w].calling}]
  /\ UNCHANGED <<row, due, net, nonces, received, clock, lapsed>>

\* result.ok is a 2xx; a 409 is a failure like any other.
Hear(w) ==
  /\ worker[w].answer # "none"
  /\ worker' = [worker EXCEPT ![w].calling = NoRow, ![w].answer = "none",
       ![w].ok = IF worker[w].answer = "accepted" THEN @ \cup {worker[w].calling} ELSE @]
  /\ UNCHANGED <<row, due, net, nonces, received, clock, lapsed>>

\* httpx times out, or the connection breaks under the answer.
GiveUp(w) ==
  /\ worker[w].calling # NoRow /\ lapsed[worker[w].calling] < MaxLapses
  /\ worker' = [worker EXCEPT ![w].calling = NoRow, ![w].answer = "none"]
  /\ net' = Orphans(w)
  /\ lapsed' = [lapsed EXCEPT ![worker[w].calling] = @ + 1]
  /\ UNCHANGED <<row, due, nonces, received, clock>>

\* Every row of the batch has had its deliver().
Tried(w) == HeldBy(w) # {} /\ worker[w].todo = {} /\ worker[w].calling = NoRow

\* Variant: DEAD only past max_attempts.
SettledLate(d, w) ==
  LET n == row[d].attempts + 1
  IN  [attempts |-> n,
       status   |-> IF d \in worker[w].ok THEN "delivered"
                    ELSE IF n > MaxAttempts THEN "dead" ELSE "pending"]

\* Variant: a failed attempt is not counted.
SettledUncounted(d, w) ==
  IF d \in worker[w].ok THEN [attempts |-> row[d].attempts + 1, status |-> "delivered"]
  ELSE row[d]

\* Variant: one failure reschedules the whole batch.
SettledTogether(d, w) ==
  LET n == row[d].attempts + 1
  IN  [attempts |-> n,
       status   |-> IF worker[w].ok = HeldBy(w) THEN "delivered"
                    ELSE IF n >= MaxAttempts THEN "dead" ELSE "pending"]

Settled(d, w) ==
  LET n == row[d].attempts + 1
  IN  [attempts |-> n,
       status   |-> IF d \in worker[w].ok THEN "delivered"
                    ELSE IF n >= MaxAttempts THEN "dead" ELSE "pending"]

\* The one commit: attempt_count, status and next_attempt_at of all the batch,
\* and the locks are gone.
Commit(w) ==
  /\ Tried(w)
  /\ row' = [d \in Rows |-> IF d \in HeldBy(w) THEN Settled(d, w) ELSE row[d]]
  /\ due' = due \ HeldBy(w)
  /\ worker' = [worker EXCEPT ![w] = Idle]
  /\ UNCHANGED <<net, nonces, received, clock, lapsed>>

\* The worker dies or its session raises: the transaction rolls back, and the
\* answers so far are forgotten with it.
Unanswered(w) == worker[w].ok \cup ({worker[w].calling} \ {NoRow})

Crash(w) ==
  /\ HeldBy(w) # {}
  /\ \A d \in Unanswered(w) : lapsed[d] < MaxLapses
  /\ worker' = [worker EXCEPT ![w] = Idle]
  /\ net' = Orphans(w)
  /\ lapsed' = [d \in Rows |-> IF d \in Unanswered(w) THEN lapsed[d] + 1 ELSE lapsed[d]]
  /\ UNCHANGED <<row, due, nonces, received, clock>>

-----------------------------------------------------------------------------
(* receive_inbox at the peer: the nonce and the activity, in one commit.   *)

Answer(m, a) ==
  worker' = IF m.by = NoWorker THEN worker ELSE [worker EXCEPT ![m.by].answer = a]

\* The nonce key is keyid and `created': one sender, so the second alone.
Accept(m) ==
  /\ m.created \notin nonces
  /\ nonces' = nonces \cup {m.created}
  /\ received' = [received EXCEPT ![m.row] = @ + 1]
  /\ net' = net \ {m}
  /\ Answer(m, "accepted")
  /\ UNCHANGED <<row, due, clock, lapsed>>

\* 409
Refuse(m) ==
  /\ m.created \in nonces
  /\ net' = net \ {m}
  /\ Answer(m, "refused")
  /\ UNCHANGED <<row, due, nonces, received, clock, lapsed>>

Receive(m) == Accept(m) \/ Refuse(m)

-----------------------------------------------------------------------------
Init ==
  /\ row = [d \in Rows |-> NoMessage]
  /\ due = {}
  /\ worker = [w \in Workers |-> Idle]
  /\ net = {} /\ nonces = {}
  /\ received = [d \in Rows |-> 0]
  /\ clock = 0
  /\ lapsed = [d \in Rows |-> 0]

Pass(w) == Lock(w) \/ Post(w) \/ Fail(w) \/ Hear(w) \/ GiveUp(w) \/ Commit(w) \/ Crash(w)

Next ==
  \/ \E d \in Rows : Enqueue(d) \/ BackoffElapses(d)
  \/ \E w \in Workers : Pass(w)
  \/ \E m \in net : Receive(m)
  \/ Tick

Spec == Init /\ [][Next]_vars

\* beat fires every minute, deliver() has a timeout, a delay ends, and workers do
\* not die for ever.  The peer and the network owe nothing.
FairSpec ==
  /\ Spec
  /\ \A w \in Workers : WF_vars(Lock(w)) /\ WF_vars(Post(w)) /\ WF_vars(Commit(w))
                        /\ WF_vars(Hear(w) \/ Fail(w) \/ GiveUp(w))
  /\ \A d \in Rows : WF_vars(BackoffElapses(d))
  /\ <>[][\A w \in Workers : ~ Crash(w)]_vars

-----------------------------------------------------------------------------
MessageType == [status : {"none", "pending", "delivered", "dead"}, attempts : 0 .. MaxAttempts]
PassType    == [batch : SUBSET Rows, todo : SUBSET Rows, ok : SUBSET Rows,
                calling : Rows \cup {NoRow}, answer : {"none", "accepted", "refused"}]

\* The types; an attempt_count never passes max_attempts, and a row that is
\* not yet settled has an attempt left.
TypeOK ==
  /\ row \in [Rows -> MessageType]
  /\ due \subseteq Rows
  /\ worker \in [Workers -> PassType]
  /\ net \subseteq Request
  /\ nonces \subseteq Seconds
  /\ received \in [Rows -> Nat]
  /\ clock \in Seconds
  /\ lapsed \in [Rows -> 0 .. MaxLapses]
  /\ \A d \in Rows : row[d].status \in {"none", "pending"} => row[d].attempts < MaxAttempts

\* Two passes never work on the same row, and nobody settles a row under the
\* pass that holds it (with_for_update(skip_locked=True)).
RowsAreHeldOnce ==
  /\ \A v, w \in Workers : v # w => HeldBy(v) \cap HeldBy(w) = {}
  /\ \A d \in Held : row[d].status = "pending" /\ d \in due

\* The peer holds one copy of a message, and one more for each time the sender
\* lost an answer: overlapping passes, retries and 409s alone never duplicate
\* ("drain in parallel without double-delivering", delivery_queue.py).
CopiesAreLapses == \A d \in Rows : received[d] <= 1 + lapsed[d]

\* Every queued message meets its fate, whatever the peer and the network do.
PendingIsSettled ==
  \A d \in Rows : row[d].status = "pending" ~> row[d].status \in {"delivered", "dead"}

Box == INSTANCE Outbox WITH
  fate    <- [d \in Rows |-> row[d].status],
  arrived <- {d \in Rows : received[d] > 0}

\* The queue is an outbox: a fate is final, and DELIVERED is said only of what
\* the peer took (a 2xx), through crashes, timeouts and overlapping passes.
ImplementsOutbox == Box!Spec
=============================================================================
