----------------------- MODULE FederationDeliveryProofs -----------------------
(***************************************************************************)
(* Safety of the delivery queue for every number of rows, passes, attempts *)
(* and seconds.                                                            *)
(*                                                                         *)
(* Passes says how a pass works through its batch and that a request it    *)
(* awaits is its own; Arrivals, that what a pass believes delivered the    *)
(* peer holds.  For the bound on copies, Copies counts the requests still  *)
(* under way as copies, and sets against each either a lapse or the one    *)
(* claim that a row can have: the request that is out, its acceptance, or  *)
(* DELIVERED.                                                              *)
(***************************************************************************)
EXTENDS FederationDelivery, FiniteSetTheorems, TLAPS

Orderly(w) ==
  /\ worker[w].todo \subseteq HeldBy(w)
  /\ worker[w].ok \subseteq HeldBy(w) \ worker[w].todo
  /\ worker[w].calling # NoRow => worker[w].calling \in HeldBy(w) \ (worker[w].todo \cup worker[w].ok)
  /\ worker[w].answer # "none" => worker[w].calling # NoRow

Passes ==
  /\ \A d \in due : row[d].status = "pending"
  /\ \A w \in Workers : Orderly(w)
  /\ \A m \in net : /\ row[m.row].status # "none"
                    /\ m.by # NoWorker => /\ worker[m.by].calling = m.row
                                          /\ worker[m.by].answer = "none"
  /\ \A m, n \in net : m.by # NoWorker /\ m.by = n.by => m = n

Arrivals ==
  /\ \A w \in Workers : \A d \in worker[w].ok : received[d] > 0
  /\ \A w \in Workers : worker[w].answer = "accepted" => received[worker[w].calling] > 0
  /\ \A d \in Rows : row[d].status = "delivered" => received[d] > 0

Inv == TypeOK /\ RowsAreHeldOnce /\ Passes /\ Arrivals

\* A pass stands for a copy of d: it awaits the answer, or took it as accepted.
Claims(w, d) == d \in worker[w].ok \/ (worker[w].calling = d /\ worker[w].answer # "refused")

Claimed(d)  == row[d].status = "delivered" \/ \E w \in Workers : Claims(w, d)
Claim(d)    == IF Claimed(d) THEN 1 ELSE 0
UnderWay(d) == {m \in net : m.row = d}

\* The request a pass awaits is under way.
Awaited == \A w \in Workers : worker[w].calling # NoRow /\ worker[w].answer = "none" =>
             \E m \in net : m.by = w

Copies ==
  /\ Awaited
  /\ IsFiniteSet(net)
  /\ \A d \in Rows : received[d] + Cardinality(UnderWay(d)) <= lapsed[d] + Claim(d)

-----------------------------------------------------------------------------
(* The invariant Inv, part by part.                                        *)

\* A worker between passes.
LEMMA IdleType == Idle \in PassType
BY DEF Idle, PassType

\* Requests a dead worker leaves on the way are requests.
LEMMA OrphansType == ASSUME NEW w, net \subseteq Request PROVE Orphans(w) \subseteq Request
BY DEF Orphans, Request

\* Types, action by action.
LEMMA TypeStep == ASSUME Inv, [Next]_vars PROVE TypeOK'
<1> USE NamesAssumption, BoundsAssumption DEF Inv, TypeOK
<1>1. CASE UNCHANGED vars
  BY <1>1 DEF vars
<1>2. ASSUME NEW d \in Rows, Enqueue(d) \/ BackoffElapses(d) PROVE TypeOK'
  BY <1>2 DEF Enqueue, BackoffElapses, MessageType
<1>3. CASE Tick
  BY <1>3 DEF Tick, Seconds
<1>4. ASSUME NEW w \in Workers, Lock(w) PROVE TypeOK'
  <2>1. PICK B \in SUBSET (due \ Held) : LockBatch(w, B)
    BY <1>4 DEF Lock
  <2>2. worker' \in [Workers -> PassType]
    <3>1. B \in SUBSET Rows /\ worker[w] \in PassType
      OBVIOUS
    <3>2. [worker[w] EXCEPT !.batch = B, !.todo = B] \in PassType
      BY ONLY <3>1 DEF PassType
    <3>3. worker' = [worker EXCEPT ![w] = [worker[w] EXCEPT !.batch = B, !.todo = B]]
      BY <2>1 DEF LockBatch
    <3>4. worker \in [Workers -> PassType]
      OBVIOUS
    <3> QED BY ONLY <3>2, <3>3, <3>4
  <2> QED BY <2>1, <2>2 DEF LockBatch
<1>5. ASSUME NEW w \in Workers, Post(w) PROVE TypeOK'
  <2>1. PICK d \in worker[w].todo : Post(w)!(d)
    BY <1>5 DEF Post
  <2>2. d \in Rows
    BY DEF PassType
  <2>3. worker' \in [Workers -> PassType]
    BY <2>1, <2>2 DEF PassType
  <2>4. net' \subseteq Request
    BY <2>1, <2>2 DEF Request
  <2> QED BY <2>1, <2>3, <2>4
<1>6. ASSUME NEW w \in Workers, Fail(w) \/ Hear(w) \/ GiveUp(w) PROVE TypeOK'
  <2>1. worker' \in [Workers -> PassType]
    <3>1. CASE Fail(w)
      BY <3>1 DEF Fail, PassType
    <3>2. CASE Hear(w)
      BY <3>2 DEF Hear, Passes, Orderly, PassType
    <3>3. CASE GiveUp(w)
      BY ZenonT(30), <3>3 DEF GiveUp, PassType
    <3> QED BY <1>6, <3>1, <3>2, <3>3
  <2>2. net' \subseteq Request
    BY <1>6, OrphansType DEF Fail, Hear, GiveUp
  <2>3. lapsed' \in [Rows -> 0 .. MaxLapses]
    BY <1>6 DEF Fail, Hear, GiveUp, PassType
  <2> QED BY <1>6, <2>1, <2>2, <2>3 DEF Fail, Hear, GiveUp
<1>7. ASSUME NEW w \in Workers, Commit(w) PROVE TypeOK'
  <2>1. \A d \in HeldBy(w) : row[d].attempts < MaxAttempts
    BY DEF HeldBy, Held, RowsAreHeldOnce, PassType
  <2>2. \A d \in HeldBy(w) : /\ Settled(d, w) \in MessageType
                             /\ Settled(d, w).status = "pending" => Settled(d, w).attempts < MaxAttempts
                             /\ Settled(d, w).status # "none"
    BY <2>1 DEF Settled, MessageType, HeldBy, PassType
  <2> QED BY <1>7, <2>2, IdleType DEF Commit
<1>8. ASSUME NEW w \in Workers, Crash(w) PROVE TypeOK'
  <2>1. lapsed' \in [Rows -> 0 .. MaxLapses]
    BY <1>8 DEF Crash
  <2> QED BY <1>8, <2>1, IdleType, OrphansType DEF Crash
<1>9. ASSUME NEW m \in net, Receive(m) PROVE TypeOK'
  <2>1. m.by \in Workers \cup {NoWorker} /\ m.row \in Rows /\ m.created \in Seconds
    BY DEF Request
  <2>2. \A a \in {"accepted", "refused"} : Answer(m, a) => worker' \in [Workers -> PassType]
    <3>1. CASE m.by = NoWorker
      BY <3>1 DEF Answer
    <3>2. CASE m.by \in Workers
      BY <3>2 DEF Answer, PassType
    <3> QED BY <2>1, <3>1, <3>2
  <2> QED BY <1>9, <2>1, <2>2 DEF Receive, Accept, Refuse
<1> QED BY <1>1, <1>2, <1>3, <1>4, <1>5, <1>6, <1>7, <1>8, <1>9 DEF Next, Pass

\* SKIP LOCKED keeps passes apart; only its pass settles a row.
LEMMA HeldStep == ASSUME Inv, [Next]_vars PROVE RowsAreHeldOnce'
<1> USE NamesAssumption DEF Inv, TypeOK, RowsAreHeldOnce, Held, HeldBy
<1>1. CASE UNCHANGED vars
  BY <1>1 DEF vars
<1>2. ASSUME NEW d \in Rows, Enqueue(d) \/ BackoffElapses(d) PROVE RowsAreHeldOnce'
  BY <1>2 DEF Enqueue, BackoffElapses, MessageType, PassType
<1>3. CASE Tick
  BY <1>3 DEF Tick
<1>4. ASSUME NEW w \in Workers, Lock(w) PROVE RowsAreHeldOnce'
  <2>1. PICK B \in SUBSET (due \ Held) : LockBatch(w, B)
    BY <1>4 DEF Lock
  <2>2. /\ worker'[w].batch = B
        /\ \A v \in Workers : v # w => worker'[v].batch = worker[v].batch
    <3>1. B \in SUBSET Rows /\ worker[w] \in PassType
      OBVIOUS
    <3>2. [worker[w] EXCEPT !.batch = B, !.todo = B] \in PassType
      BY ONLY <3>1 DEF PassType
    <3>3. worker' = [worker EXCEPT ![w] = [worker[w] EXCEPT !.batch = B, !.todo = B]]
      BY <2>1 DEF LockBatch
    <3>4. worker \in [Workers -> PassType]
      OBVIOUS
    <3> QED BY ONLY <3>2, <3>3, <3>4
  <2>3. \A d \in B : row[d].status = "pending" /\ d \in due
    BY DEF Passes
  <2> QED BY <2>1, <2>2, <2>3 DEF LockBatch
<1>5. ASSUME NEW w \in Workers, Post(w) \/ Fail(w) \/ Hear(w) \/ GiveUp(w) PROVE RowsAreHeldOnce'
  <2>1. \A v \in Workers : worker'[v].batch = worker[v].batch
    <3>1. CASE Post(w)
      BY <3>1 DEF Post, PassType
    <3>2. CASE Fail(w) \/ GiveUp(w)
      BY <3>2 DEF Fail, GiveUp, PassType
    <3>3. CASE Hear(w)
      BY <3>3 DEF Hear, PassType
    <3> QED BY <1>5, <3>1, <3>2, <3>3
  <2>2. UNCHANGED <<row, due>>
    BY <1>5 DEF Post, Fail, Hear, GiveUp
  <2> QED BY <2>1, <2>2
<1>6. ASSUME NEW w \in Workers, Commit(w) PROVE RowsAreHeldOnce'
  BY <1>6 DEF Commit, Idle, PassType
<1>7. ASSUME NEW w \in Workers, Crash(w) PROVE RowsAreHeldOnce'
  BY <1>7 DEF Crash, Idle, PassType
<1>8. ASSUME NEW m \in net, Receive(m) PROVE RowsAreHeldOnce'
  BY <1>8 DEF Receive, Accept, Refuse, Answer, Request, PassType
<1> QED BY <1>1, <1>2, <1>3, <1>4, <1>5, <1>6, <1>7, <1>8 DEF Next, Pass

\* How a pass goes through its batch, and whose the requests are.
LEMMA PassesStep == ASSUME Inv, [Next]_vars PROVE Passes'
<1> USE NamesAssumption DEF Inv, TypeOK, Passes
<1>1. CASE UNCHANGED vars
  BY <1>1 DEF vars, Orderly, HeldBy
<1>2. ASSUME NEW d \in Rows, Enqueue(d) \/ BackoffElapses(d) PROVE Passes'
  BY <1>2 DEF Enqueue, BackoffElapses, MessageType, Request, Orderly, HeldBy
<1>3. CASE Tick
  BY <1>3 DEF Tick, Orderly, HeldBy
<1>4. ASSUME NEW w \in Workers, Lock(w) PROVE Passes'
  <2>1. PICK B \in SUBSET (due \ Held) : LockBatch(w, B)
    BY <1>4 DEF Lock
  <2>2. /\ worker'[w].batch = B /\ worker'[w].todo = B /\ worker'[w].ok = {}
        /\ worker'[w].calling = NoRow /\ worker'[w].answer = "none"
        /\ \A v \in Workers : v # w => worker'[v] = worker[v]
        /\ worker[w].calling = NoRow
    BY <2>1 DEF LockBatch, Idle, PassType
  <2>3. \A v \in Workers : Orderly(v)'
    BY <2>2 DEF Orderly, HeldBy
  <2> QED BY <2>1, <2>2, <2>3 DEF LockBatch, Request
<1>5. ASSUME NEW w \in Workers, Post(w) PROVE Passes'
  <2>1. PICK d \in worker[w].todo : Post(w)!(d)
    BY <1>5 DEF Post
  <2>2. /\ d \in Rows /\ d \in Held
        /\ worker'[w].batch = worker[w].batch /\ worker'[w].ok = worker[w].ok
        /\ worker'[w].todo = worker[w].todo \ {d} /\ worker'[w].calling = d
        /\ worker'[w].answer = worker[w].answer /\ worker[w].answer = "none"
        /\ \A v \in Workers : v # w => worker'[v] = worker[v]
    BY <2>1 DEF PassType, Orderly, HeldBy, Held
  <2>3. \A v \in Workers : Orderly(v)'
    BY <2>2 DEF Orderly, HeldBy
  <2>4. \A m \in net : m.by # w
    BY <2>1 DEF Request
  <2>5. row[d].status = "pending"
    BY <2>2 DEF RowsAreHeldOnce
  <2> QED BY <2>1, <2>2, <2>3, <2>4, <2>5 DEF Request
<1>6. ASSUME NEW w \in Workers, Fail(w) PROVE Passes'
  <2>1. /\ worker'[w].calling = NoRow /\ worker'[w].answer = "none"
        /\ worker'[w].batch = worker[w].batch /\ worker'[w].ok = worker[w].ok
        /\ worker'[w].todo = worker[w].todo
        /\ \A v \in Workers : v # w => worker'[v] = worker[v]
    BY <1>6 DEF Fail, PassType
  <2>2. \A v \in Workers : Orderly(v)'
    BY <2>1 DEF Orderly, HeldBy
  <2> QED BY <1>6, <2>1, <2>2 DEF Fail, Request
<1>7. ASSUME NEW w \in Workers, Hear(w) PROVE Passes'
  <2>1. /\ worker'[w].calling = NoRow /\ worker'[w].answer = "none"
        /\ worker'[w].batch = worker[w].batch /\ worker'[w].todo = worker[w].todo
        /\ worker'[w].ok \in {worker[w].ok, worker[w].ok \cup {worker[w].calling}}
        /\ \A v \in Workers : v # w => worker'[v] = worker[v]
        /\ worker[w].answer # "none"
    BY <1>7 DEF Hear, PassType
  <2>2. Orderly(w)'
    BY <2>1 DEF Orderly, HeldBy
  <2>3. \A v \in Workers : v # w => Orderly(v)'
    BY <2>1 DEF Orderly, HeldBy
  <2> QED BY <1>7, <2>1, <2>2, <2>3 DEF Hear, Request
<1>8. ASSUME NEW w \in Workers, GiveUp(w) PROVE Passes'
  <2>1. /\ worker'[w].calling = NoRow /\ worker'[w].answer = "none"
        /\ worker'[w].batch = worker[w].batch /\ worker'[w].ok = worker[w].ok
        /\ worker'[w].todo = worker[w].todo
        /\ \A v \in Workers : v # w => worker'[v] = worker[v]
    BY <1>8 DEF GiveUp, PassType
  <2>2. \A v \in Workers : Orderly(v)'
    BY <2>1 DEF Orderly, HeldBy
  <2>3. \A m \in net' : m.by # w /\ \E n \in net : n.row = m.row /\ (m.by # NoWorker => n = m)
    BY <1>8 DEF GiveUp, Orphans, Request
  <2> QED BY <1>8, <2>1, <2>2, <2>3 DEF GiveUp, Request
<1>9. ASSUME NEW w \in Workers, Commit(w) PROVE Passes'
  <2>1. /\ worker'[w] = Idle
        /\ \A v \in Workers : v # w => worker'[v] = worker[v]
    BY <1>9 DEF Commit, PassType
  <2>2. \A v \in Workers : Orderly(v)'
    BY <2>1 DEF Orderly, HeldBy, Idle
  <2>3. \A m \in net : m.by # w
    BY <1>9 DEF Commit, Tried, Request
  <2>4. \A d \in Rows : row[d].status # "none" => row'[d].status # "none"
    BY <1>9 DEF Commit, Settled
  <2>5. \A d \in due' : row'[d].status = "pending"
    BY <1>9 DEF Commit
  <2> QED BY <1>9, <2>1, <2>2, <2>3, <2>4, <2>5 DEF Commit, Request
<1>10. ASSUME NEW w \in Workers, Crash(w) PROVE Passes'
  <2>1. /\ worker'[w] = Idle
        /\ \A v \in Workers : v # w => worker'[v] = worker[v]
    BY <1>10 DEF Crash, PassType
  <2>2. \A v \in Workers : Orderly(v)'
    BY <2>1 DEF Orderly, HeldBy, Idle
  <2>3. \A m \in net' : m.by # w /\ \E n \in net : n.row = m.row /\ (m.by # NoWorker => n = m)
    BY <1>10 DEF Crash, Orphans, Request
  <2> QED BY <1>10, <2>1, <2>2, <2>3 DEF Crash, Request
<1>11. ASSUME NEW m \in net, Receive(m) PROVE Passes'
  <2>1. net' = net \ {m} /\ row' = row /\ due' = due
    BY <1>11 DEF Receive, Accept, Refuse
  <2>2. PICK a \in {"accepted", "refused"} : Answer(m, a)
    BY <1>11 DEF Receive, Accept, Refuse
  <2>3. CASE m.by = NoWorker
    BY <2>1, <2>2, <2>3 DEF Answer, Orderly, HeldBy
  <2>4. CASE m.by \in Workers
    <3>1. /\ worker'[m.by].calling = worker[m.by].calling /\ worker'[m.by].batch = worker[m.by].batch
          /\ worker'[m.by].ok = worker[m.by].ok /\ worker'[m.by].todo = worker[m.by].todo
          /\ \A v \in Workers : v # m.by => worker'[v] = worker[v]
      BY <2>2, <2>4 DEF Answer, PassType
    <3>2. worker[m.by].calling # NoRow
      BY <2>4 DEF Request
    <3>3. \A v \in Workers : Orderly(v)'
      BY <3>1, <3>2 DEF Orderly, HeldBy
    <3>4. \A n \in net' : n.by # m.by
      BY <2>1, <2>4
    <3> QED BY <2>1, <3>1, <3>3, <3>4 DEF Request
  <2> QED BY <2>3, <2>4 DEF Request
<1> QED BY <1>1, <1>2, <1>3, <1>4, <1>5, <1>6, <1>7, <1>8, <1>9, <1>10, <1>11 DEF Next, Pass

\* A 2xx means an activity row at the peer, and those rows stay.
LEMMA ArrivalsStep == ASSUME Inv, [Next]_vars PROVE Arrivals'
<1> USE NamesAssumption DEF Inv, TypeOK, Arrivals
<1>1. CASE UNCHANGED vars
  BY <1>1 DEF vars
<1>2. ASSUME NEW d \in Rows, Enqueue(d) \/ BackoffElapses(d) PROVE Arrivals'
  BY <1>2 DEF Enqueue, BackoffElapses, MessageType
<1>3. CASE Tick
  BY <1>3 DEF Tick
<1>4. ASSUME NEW w \in Workers, Lock(w) \/ Post(w) PROVE Arrivals'
  <2>1. /\ \A v \in Workers : worker'[v].ok = worker[v].ok
        /\ \A v \in Workers : worker'[v].answer = "accepted" => worker'[v] = worker[v]
    <3>1. CASE Lock(w)
      BY <3>1 DEF Lock, LockBatch, PassType, Idle
    <3>2. CASE Post(w)
      BY <3>2 DEF Post, PassType, Passes, Orderly
    <3> QED BY <1>4, <3>1, <3>2
  <2>2. UNCHANGED <<row, received>>
    BY <1>4 DEF Lock, LockBatch, Post
  <2> QED BY <2>1, <2>2
<1>5. ASSUME NEW w \in Workers, Fail(w) \/ GiveUp(w) PROVE Arrivals'
  <2>1. /\ \A v \in Workers : worker'[v].ok = worker[v].ok
        /\ \A v \in Workers : worker'[v].answer = "accepted" => worker'[v] = worker[v]
    BY SMTT(20), <1>5 DEF Fail, GiveUp, PassType
  <2>2. UNCHANGED <<row, received>>
    BY <1>5 DEF Fail, GiveUp
  <2> QED BY <2>1, <2>2
<1>6. ASSUME NEW w \in Workers, Hear(w) PROVE Arrivals'
  <2>1. /\ worker'[w].answer = "none"
        /\ worker'[w].ok \in {worker[w].ok, worker[w].ok \cup {worker[w].calling}}
        /\ worker[w].answer # "accepted" => worker'[w].ok = worker[w].ok
        /\ \A v \in Workers : v # w => worker'[v] = worker[v]
    BY <1>6 DEF Hear, PassType
  <2>2. \A d \in worker'[w].ok : received[d] > 0
    BY <2>1
  <2>3. UNCHANGED <<row, received>>
    BY <1>6 DEF Hear
  <2> QED BY <2>1, <2>2, <2>3
<1>7. ASSUME NEW w \in Workers, Commit(w) PROVE Arrivals'
  <2>1. /\ worker'[w].ok = {} /\ worker'[w].answer = "none"
        /\ \A v \in Workers : v # w => worker'[v] = worker[v]
    BY <1>7 DEF Commit, PassType, Idle
  <2>2. \A d \in Rows : row'[d].status = "delivered" => row[d].status = "delivered" \/ d \in worker[w].ok
    BY <1>7 DEF Commit, Settled
  <2>3. UNCHANGED received
    BY <1>7 DEF Commit
  <2> QED BY <2>1, <2>2, <2>3
<1>8. ASSUME NEW w \in Workers, Crash(w) PROVE Arrivals'
  <2>1. /\ worker'[w].ok = {} /\ worker'[w].answer = "none"
        /\ \A v \in Workers : v # w => worker'[v] = worker[v]
    BY <1>8 DEF Crash, PassType, Idle
  <2>2. UNCHANGED <<row, received>>
    BY <1>8 DEF Crash
  <2> QED BY <2>1, <2>2
<1>9. ASSUME NEW m \in net, Accept(m) PROVE Arrivals'
  <2>1. m.row \in Rows /\ (m.by # NoWorker => m.by \in Workers)
    BY DEF Request
  <2>2. \A d \in Rows : received[d] > 0 \/ d = m.row => received'[d] > 0
    BY <1>9, <2>1 DEF Accept
  <2>3. /\ \A v \in Workers : worker'[v].ok = worker[v].ok /\ worker'[v].calling = worker[v].calling
        /\ \A v \in Workers : v # m.by => worker'[v] = worker[v]
    BY <1>9, <2>1 DEF Accept, Answer, PassType
  <2>4. \A v \in Workers : worker[v].ok \subseteq Rows
    BY DEF PassType
  <2>5. \A v \in Workers : worker'[v].answer = "accepted" =>
          worker[v].calling \in Rows /\ (received[worker[v].calling] > 0 \/ worker[v].calling = m.row)
    BY <2>1, <2>3 DEF Passes, Orderly, PassType
  <2>6. row' = row
    BY <1>9 DEF Accept
  <2> QED BY <2>2, <2>3, <2>4, <2>5, <2>6
<1>10. ASSUME NEW m \in net, Refuse(m) PROVE Arrivals'
  <2>1. /\ \A v \in Workers : worker'[v].ok = worker[v].ok /\ worker'[v].calling = worker[v].calling
        /\ \A v \in Workers : worker'[v].answer = "accepted" => worker[v].answer = "accepted"
    BY <1>10 DEF Refuse, Answer, PassType, Request
  <2>2. UNCHANGED <<row, received>>
    BY <1>10 DEF Refuse
  <2> QED BY <2>1, <2>2
<1> QED BY <1>1, <1>2, <1>3, <1>4, <1>5, <1>6, <1>7, <1>8, <1>9, <1>10 DEF Next, Pass, Receive

\* An empty queue has the invariant,
LEMMA Initially == Init => Inv
BY NamesAssumption, BoundsAssumption
   DEF Init, Inv, TypeOK, RowsAreHeldOnce, Passes, Arrivals, Orderly, Held, HeldBy, Idle,
       PassType, NoMessage, MessageType, Request, Seconds

\* and every step keeps it: rows are held once, and what a pass sends is its own row.
THEOREM Invariant == Spec => []Inv
<1>1. Inv /\ [Next]_vars => Inv'
  BY TypeStep, HeldStep, PassesStep, ArrivalsStep DEF Inv
<1> QED BY Initially, <1>1, PTL DEF Spec

\* federation_delivery and the peer's tables are typed; an unsettled row has an
\* attempt left (attempt_count and max_attempts in drain_pending).
THEOREM TypeCorrect == Spec => []TypeOK
BY Invariant, PTL DEF Inv

\* Overlapping passes of drain_pending work on disjoint rows, however many
\* passes and whatever the batch size (FOR UPDATE SKIP LOCKED).
THEOREM PassesAreApart == Spec => []RowsAreHeldOnce
BY Invariant, PTL DEF Inv

-----------------------------------------------------------------------------
(* The queue implements the outbox.                                        *)

\* Every step of the queue is a step of a message's fate, or none.
LEMMA OutboxStep == Inv /\ [Next]_vars => [Box!Next]_(Box!vars)
<1> DEFINE fate    == [d \in Rows |-> row[d].status]
           arrived == {d \in Rows : received[d] > 0}
<1> SUFFICES ASSUME Inv, [Next]_vars PROVE Box!Next \/ UNCHANGED Box!vars
  OBVIOUS
<1> USE NamesAssumption DEF Inv, TypeOK
<1>1. CASE UNCHANGED vars
  BY <1>1 DEF vars, Box!vars
<1>2. ASSUME NEW d \in Rows, Enqueue(d) PROVE Box!Enqueue(d)
  BY <1>2 DEF Enqueue, Box!Enqueue, MessageType
<1>3. CASE UNCHANGED <<row, received>>
  BY <1>3 DEF Box!vars
<1>4. ASSUME NEW w \in Workers, Commit(w)
      PROVE  \E D, E \in SUBSET Rows : Box!Settle(D, E)
  <2>0. worker[w].ok \in SUBSET Rows /\ HeldBy(w) \subseteq Rows
    BY DEF HeldBy, PassType
  <2>1. PICK D, E \in SUBSET Rows :
          /\ D = worker[w].ok
          /\ E = {d \in HeldBy(w) \ worker[w].ok : Settled(d, w).status = "dead"}
    BY <2>0
  <2>2. \A d \in D \cup E : d \in Held
    BY <2>1 DEF Held, HeldBy, Passes, Orderly
  <2>3. \A d \in HeldBy(w) : row[d].status = "pending"
    BY DEF Held, HeldBy, RowsAreHeldOnce
  <2>4. D \subseteq arrived
    BY <2>0, <2>1 DEF Arrivals
  <2>5. fate' = [d \in Rows |-> IF d \in D THEN "delivered" ELSE IF d \in E THEN "dead" ELSE fate[d]]
    <3>1. D \subseteq HeldBy(w)
      BY <2>1 DEF Passes, Orderly
    <3> QED BY <1>4, <2>0, <2>1, <2>3, <3>1 DEF Commit, Settled
  <2>6. Box!Settle(D, E)
    BY <1>4, <2>2, <2>4, <2>5 DEF Commit, Box!Settle, RowsAreHeldOnce
  <2> QED BY <2>6
<1>5. ASSUME NEW m \in net, Accept(m) PROVE Box!Arrive(m.row)
  <2>1. m.row \in Rows /\ row[m.row].status # "none"
    BY DEF Passes, Request
  <2> QED BY <1>5, <2>1 DEF Accept, Box!Arrive
<1>6. ASSUME NEW w \in Workers, Pass(w), ~ Commit(w) PROVE UNCHANGED <<row, received>>
  BY <1>6 DEF Pass, Lock, LockBatch, Post, Fail, Hear, GiveUp, Crash
<1>7. ASSUME NEW d \in Rows, BackoffElapses(d) PROVE UNCHANGED <<row, received>>
  BY <1>7 DEF BackoffElapses
<1>8. ASSUME NEW m \in net, Refuse(m) PROVE UNCHANGED <<row, received>>
  BY <1>8 DEF Refuse
<1>9. CASE Tick
  BY <1>3, <1>9 DEF Tick
<1> QED BY <1>1, <1>2, <1>3, <1>4, <1>5, <1>6, <1>7, <1>8, <1>9
       DEF Next, Receive, Box!Next, Request

\* The delivery queue implements the abstract outbox (Outbox.tla).
THEOREM QueueIsAnOutbox == Spec => ImplementsOutbox
<1>1. Init => Box!Init
  BY DEF Init, Box!Init, NoMessage
<1> QED BY Invariant, <1>1, OutboxStep, PTL DEF Spec, ImplementsOutbox, Box!Spec

\* No pass touches a row again that another settled: the status that deliver wrote as
\* delivered or dead stays, however passes overlap, crash or hear late answers.
THEOREM FatesAreFinal ==
  Spec => [][\A d \in Rows : row[d].status \in {"delivered", "dead"} => row'[d].status = row[d].status]_vars
<1> DEFINE fate == [d \in Rows |-> row[d].status]
           Kept == \A d \in Rows : fate[d] \in {"delivered", "dead"} => fate'[d] = fate[d]
<1>1. Inv /\ [Next]_vars => Kept
  <2> SUFFICES ASSUME [Box!Next]_(Box!vars), NEW d \in Rows, fate[d] \in {"delivered", "dead"}
               PROVE  fate'[d] = fate[d]
    BY OutboxStep
  <2>1. CASE UNCHANGED Box!vars
    BY <2>1 DEF Box!vars
  <2>2. ASSUME NEW c \in Rows, Box!Enqueue(c) \/ Box!Arrive(c) PROVE fate'[d] = fate[d]
    BY <2>2 DEF Box!Enqueue, Box!Arrive
  <2>3. ASSUME NEW D \in SUBSET Rows, NEW E \in SUBSET Rows, Box!Settle(D, E) PROVE fate'[d] = fate[d]
    BY <2>3 DEF Box!Settle
  <2> QED BY <2>1, <2>2, <2>3 DEF Box!Next
<1>2. Inv /\ [Next]_vars =>
        [\A d \in Rows : row[d].status \in {"delivered", "dead"} => row'[d].status = row[d].status]_vars
  BY <1>1
<1> QED BY Invariant, <1>2, PTL DEF Spec

\* A row marked delivered is held by the peer, after any crash, retry or refusal.
THEOREM DeliveredIsHeld == Spec => [](\A d \in Rows : row[d].status = "delivered" => received[d] > 0)
<1>1. Inv => \A d \in Rows : row[d].status = "delivered" => received[d] > 0
  BY DEF Inv, Arrivals
<1> QED BY Invariant, <1>1, PTL

-----------------------------------------------------------------------------
(* The copies at the peer.                                                 *)

\* Copies of a message on the way can be counted,
LEMMA UnderWayFinite ==
  ASSUME IsFiniteSet(net), NEW d
  PROVE  IsFiniteSet(UnderWay(d)) /\ Cardinality(UnderWay(d)) \in Nat
BY FS_Subset, FS_CardinalityType DEF UnderWay

\* and where none is added their number does not grow.
LEMMA FewerUnderWay ==
  ASSUME IsFiniteSet(net), NEW d, UnderWay(d)' \subseteq UnderWay(d)
  PROVE  /\ IsFiniteSet(UnderWay(d)')
         /\ Cardinality(UnderWay(d)') \in Nat
         /\ Cardinality(UnderWay(d)') <= Cardinality(UnderWay(d))
         /\ \A m \in UnderWay(d) : m \notin UnderWay(d)' =>
              Cardinality(UnderWay(d)') <= Cardinality(UnderWay(d)) - 1
<1>1. IsFiniteSet(UnderWay(d)) /\ Cardinality(UnderWay(d)) \in Nat
  BY UnderWayFinite
<1>2. /\ IsFiniteSet(UnderWay(d)') /\ Cardinality(UnderWay(d)') \in Nat
      /\ Cardinality(UnderWay(d)') <= Cardinality(UnderWay(d))
  BY <1>1, FS_Subset, FS_CardinalityType
<1>3. ASSUME NEW m \in UnderWay(d), m \notin UnderWay(d)'
      PROVE  Cardinality(UnderWay(d)') <= Cardinality(UnderWay(d)) - 1
  <2>1. /\ IsFiniteSet(UnderWay(d) \ {m})
        /\ Cardinality(UnderWay(d) \ {m}) = Cardinality(UnderWay(d)) - 1
    BY <1>1, <1>3, FS_RemoveElement
  <2>2. UnderWay(d)' \subseteq UnderWay(d) \ {m}
    BY <1>3
  <2> QED BY <2>1, <2>2, FS_Subset
<1> QED BY <1>2, <1>3

\* Orphaning requests loses none and adds none.
LEMMA OrphansUnderWay ==
  ASSUME IsFiniteSet(net), net \subseteq Request, NEW w, NEW d, net' = Orphans(w)
  PROVE  /\ IsFiniteSet(net')
         /\ Cardinality(UnderWay(d)') \in Nat
         /\ Cardinality(UnderWay(d)') <= Cardinality(UnderWay(d))
<1> DEFINE Forget(m) == IF m.by = w THEN [m EXCEPT !.by = NoWorker] ELSE m
           all == [m \in net |-> Forget(m)]
           f   == [m \in UnderWay(d) |-> Forget(m)]
<1>1. all \in Surjection(net, net')
  BY DEF Orphans, Surjection
<1>2. IsFiniteSet(net')
  BY <1>1, FS_Surjection
<1>3. \A m \in net : Forget(m).row = m.row
  BY DEF Request
<1>4. \A m \in net' : \E n \in net : m = Forget(n)
  BY DEF Orphans
<1>5. \A m \in net : Forget(m) \in net'
  BY DEF Orphans
<1>6. f \in Surjection(UnderWay(d), UnderWay(d)')
  <2> HIDE DEF Forget
  <2>1. f \in [UnderWay(d) -> UnderWay(d)']
    BY <1>3, <1>5 DEF UnderWay
  <2>2. \A m \in UnderWay(d)' : \E n \in UnderWay(d) : f[n] = m
    BY <1>3, <1>4 DEF UnderWay
  <2> QED BY <2>1, <2>2 DEF Surjection
<1>7. IsFiniteSet(UnderWay(d)) /\ Cardinality(UnderWay(d)) \in Nat
  BY UnderWayFinite
<1> QED BY <1>2, <1>6, <1>7, FS_Surjection, FS_CardinalityType

\* Sends and copies are counted alike by every step.
LEMMA CopiesStep == ASSUME Inv, Inv', Copies, [Next]_vars PROVE Copies'
<1> USE NamesAssumption DEF Inv, TypeOK, Copies
<1>0. \A d \in Rows : IsFiniteSet(UnderWay(d)) /\ Cardinality(UnderWay(d)) \in Nat
  BY UnderWayFinite
\* Nothing happens to the requests and copies, and no claim is lost.
<1>1. ASSUME UNCHANGED <<net, received, lapsed>>, Awaited', \A d \in Rows : Claimed(d) => Claimed(d)'
      PROVE  Copies'
  <2>1. \A d \in Rows : UnderWay(d)' = UnderWay(d)
    BY <1>1 DEF UnderWay
  <2> QED BY <1>0, <1>1, <2>1 DEF Claim
<1>2. CASE UNCHANGED vars
  BY <1>1, <1>2 DEF vars, Awaited, Claimed, Claims
<1>3. ASSUME NEW d \in Rows, Enqueue(d) \/ BackoffElapses(d) PROVE Copies'
  <2>1. Awaited' /\ UNCHANGED <<net, received, lapsed, worker>>
    BY <1>3 DEF Enqueue, BackoffElapses, Awaited
  <2>2. \A e \in Rows : row[e].status = "delivered" => row'[e].status = "delivered"
    BY <1>3 DEF Enqueue, BackoffElapses, MessageType
  <2> QED BY <1>1, <2>1, <2>2 DEF Claimed, Claims
<1>4. CASE Tick
  BY <1>1, <1>4 DEF Tick, Awaited, Claimed, Claims
<1>5. ASSUME NEW w \in Workers, Lock(w) PROVE Copies'
  <2>1. \A v \in Workers : /\ worker'[v].ok = worker[v].ok /\ worker'[v].calling = worker[v].calling
                           /\ worker'[v].answer = worker[v].answer
    BY <1>5 DEF Lock, LockBatch, PassType
  <2>2. UNCHANGED <<net, received, lapsed, row>>
    BY <1>5 DEF Lock, LockBatch
  <2> QED BY <1>1, <2>1, <2>2 DEF Awaited, Claimed, Claims
<1>6. ASSUME NEW w \in Workers, Post(w) PROVE Copies'
  <2>1. PICK d \in worker[w].todo : Post(w)!(d)
    BY <1>6 DEF Post
  <2> DEFINE x == [row |-> d, created |-> clock, by |-> w]
  <2>2. /\ d \in Rows /\ d \in HeldBy(w) /\ worker[w].answer = "none" /\ worker[w].calling = NoRow
        /\ worker'[w].ok = worker[w].ok /\ worker'[w].calling = d /\ worker'[w].answer = "none"
        /\ \A v \in Workers : v # w => worker'[v] = worker[v]
    BY <2>1 DEF PassType, Passes, Orderly, HeldBy
  <2>3. net' = net \cup {x} /\ UNCHANGED <<row, received, lapsed>>
    BY <2>1
  <2>4. Awaited' /\ IsFiniteSet(net')
    <3>1. Awaited'
      <4>1. x \in net' /\ x.by = w
        BY <2>3
      <4>2. \A v \in Workers : v # w /\ worker'[v].calling # NoRow /\ worker'[v].answer = "none" =>
              \E m \in net' : m.by = v
        BY <2>2, <2>3 DEF Awaited
      <4> QED BY <4>1, <4>2 DEF Awaited
    <3> HIDE DEF x
    <3> QED BY <2>3, <3>1, FS_AddElement
  <2>5. ~ Claimed(d)
    <3>1. row[d].status # "delivered"
      BY <2>2 DEF RowsAreHeldOnce, Held
    <3>2. \A v \in Workers : v # w => ~ Claims(v, d)
      BY <2>2 DEF RowsAreHeldOnce, Passes, Orderly, Claims, HeldBy
    <3>3. ~ Claims(w, d)
      BY <2>1, <2>2 DEF Passes, Orderly, Claims
    <3> QED BY <3>1, <3>2, <3>3 DEF Claimed
  <2>6. Claimed(d)'
    BY <2>2 DEF Claimed, Claims
  <2>7. \A e \in Rows : Claimed(e) => Claimed(e)'
    BY <2>2, <2>3 DEF Claimed, Claims
  <2>8. UnderWay(d)' = UnderWay(d) \cup {x} /\ \A e \in Rows : e # d => UnderWay(e)' = UnderWay(e)
    BY <2>3 DEF UnderWay
  <2>9. /\ Cardinality(UnderWay(d)') \in Nat
        /\ Cardinality(UnderWay(d)') <= Cardinality(UnderWay(d)) + 1
    <3> HIDE DEF x
    <3>1. IsFiniteSet(UnderWay(d)) /\ Cardinality(UnderWay(d)) \in Nat
      BY <1>0, <2>2
    <3>2. /\ IsFiniteSet(UnderWay(d) \cup {x})
          /\ Cardinality(UnderWay(d) \cup {x}) \in {Cardinality(UnderWay(d)), Cardinality(UnderWay(d)) + 1}
      BY <3>1, FS_AddElement
    <3> QED BY <2>8, <3>1, <3>2
  <2>10. ASSUME NEW e \in Rows PROVE received'[e] + Cardinality(UnderWay(e)') <= lapsed'[e] + Claim(e)'
    <3>1. CASE e = d
      <4>1. Claim(d) = 0 /\ Claim(d)' = 1
        BY <2>5, <2>6 DEF Claim
      <4>2. received[d] + Cardinality(UnderWay(d)) <= lapsed[d] + Claim(d)
        BY <2>2
      <4>3. received[d] \in Nat /\ lapsed[d] \in Nat /\ Cardinality(UnderWay(d)) \in Nat
        BY <1>0, <2>2, BoundsAssumption
      <4>4. received' = received /\ lapsed' = lapsed
        BY <2>3
      <4> QED BY <2>9, <3>1, <4>1, <4>2, <4>3, <4>4
    <3>2. CASE e # d
      <4>1. UnderWay(e)' = UnderWay(e) /\ Claim(e) <= Claim(e)' /\ Claim(e) \in {0, 1} /\ Claim(e)' \in {0, 1}
        BY <2>7, <2>8, <3>2 DEF Claim
      <4>2. received' = received /\ lapsed' = lapsed
        BY <2>3
      <4> QED BY <1>0, <4>1, <4>2, BoundsAssumption
    <3> QED BY <3>1, <3>2
  <2> QED BY <2>4, <2>10
<1>7. ASSUME NEW w \in Workers, Fail(w) PROVE Copies'
  <2>0. PICK d \in Rows : d = worker[w].calling
    BY <1>7 DEF Fail, PassType
  <2>1. /\ d = worker[w].calling /\ d # NoRow /\ worker[w].answer = "none"
        /\ worker'[w].calling = NoRow /\ worker'[w].ok = worker[w].ok
        /\ \A v \in Workers : v # w => worker'[v] = worker[v]
    BY <1>7, <2>0 DEF Fail, PassType
  <2>2. net' = {m \in net : m.by # w} /\ UNCHANGED <<row, received, lapsed>>
    BY <1>7 DEF Fail
  <2>3. PICK m \in net : m.by = w
    BY <2>1 DEF Awaited
  <2>4. m.row = d
    BY <2>1, <2>3 DEF Passes
  <2>5. Awaited' /\ IsFiniteSet(net')
    BY <2>1, <2>2, FS_Subset DEF Awaited
  <2>6. \A e \in Rows : e # d /\ Claimed(e) => Claimed(e)'
    BY <2>1, <2>2 DEF Claimed, Claims
  <2>7. \A e \in Rows : UnderWay(e)' \subseteq UnderWay(e)
    BY <2>2 DEF UnderWay
  <2>8. m \in UnderWay(d) /\ m \notin UnderWay(d)'
    BY <2>2, <2>3, <2>4 DEF UnderWay
  <2>9. ASSUME NEW e \in Rows PROVE received'[e] + Cardinality(UnderWay(e)') <= lapsed'[e] + Claim(e)'
    <3>1. /\ Cardinality(UnderWay(e)') \in Nat
          /\ Cardinality(UnderWay(e)') <= Cardinality(UnderWay(e))
          /\ e = d => Cardinality(UnderWay(e)') <= Cardinality(UnderWay(e)) - 1
      <4>1. UnderWay(e)' \subseteq UnderWay(e)
        BY <2>7
      <4>2. e = d => m \in UnderWay(e) /\ m \notin UnderWay(e)'
        BY <2>8
      <4> QED BY <4>1, <4>2, FewerUnderWay
    <3>2. received'[e] = received[e] /\ lapsed'[e] = lapsed[e]
      BY <2>2
    <3>3. received[e] + Cardinality(UnderWay(e)) <= lapsed[e] + Claim(e)
      OBVIOUS
    <3>4. Claim(e) \in {0, 1} /\ Claim(e)' \in {0, 1} /\ (e # d => Claim(e) <= Claim(e)')
      BY <2>6 DEF Claim
    <3> QED BY <1>0, <3>1, <3>2, <3>3, <3>4
  <2> QED BY <2>5, <2>9
<1>8. ASSUME NEW w \in Workers, Hear(w) PROVE Copies'
  <2>1. /\ worker[w].answer # "none" /\ worker'[w].calling = NoRow
        /\ worker'[w].ok = IF worker[w].answer = "accepted"
                           THEN worker[w].ok \cup {worker[w].calling} ELSE worker[w].ok
        /\ \A v \in Workers : v # w => worker'[v] = worker[v]
    BY <1>8 DEF Hear, PassType
  <2>2. UNCHANGED <<net, row, received, lapsed>>
    BY <1>8 DEF Hear
  <2>3. Awaited'
    BY <2>1, <2>2 DEF Awaited
  <2>4. \A d \in Rows : Claims(w, d) => Claims(w, d)'
    BY <2>1 DEF Claims, PassType
  <2>5. \A d \in Rows : Claimed(d) => Claimed(d)'
    BY <2>1, <2>2, <2>4 DEF Claimed, Claims
  <2> QED BY <1>1, <2>2, <2>3, <2>5
<1>9. ASSUME NEW w \in Workers, Commit(w) PROVE Copies'
  <2>1. /\ worker'[w] = Idle /\ worker[w].calling = NoRow
        /\ \A v \in Workers : v # w => worker'[v] = worker[v]
    BY <1>9 DEF Commit, Tried, PassType
  <2>2. UNCHANGED <<net, received, lapsed>>
    BY <1>9 DEF Commit
  <2>3. Awaited'
    BY <2>1, <2>2 DEF Awaited, Idle
  <2>4. \A d \in worker[w].ok : row'[d].status = "delivered"
    BY <1>9 DEF Commit, Settled, Passes, Orderly, PassType
  <2>5. \A d \in Rows : row[d].status = "delivered" => row'[d].status = "delivered"
    BY <1>9 DEF Commit, RowsAreHeldOnce, Held
  <2>6. \A d \in Rows : Claimed(d) => Claimed(d)'
    BY <2>1, <2>4, <2>5 DEF Claimed, Claims
  <2> QED BY <1>1, <2>2, <2>3, <2>6
\* A pass that forgets its request, or all it did, pays with a lapse.
<1>10. ASSUME NEW w \in Workers, NEW R \in SUBSET Rows,
              net' = Orphans(w), UNCHANGED <<row, received>>, Awaited',
              lapsed' = [d \in Rows |-> IF d \in R THEN lapsed[d] + 1 ELSE lapsed[d]],
              \A d \in Rows \ R : Claimed(d) => Claimed(d)'
       PROVE  Copies'
  <2>1. IsFiniteSet(net')
    BY <1>10, OrphansUnderWay
  <2>2. ASSUME NEW d \in Rows PROVE received'[d] + Cardinality(UnderWay(d)') <= lapsed'[d] + Claim(d)'
    <3>1. Cardinality(UnderWay(d)') \in Nat /\ Cardinality(UnderWay(d)') <= Cardinality(UnderWay(d))
      BY <1>10, OrphansUnderWay
    <3>2. received'[d] = received[d] /\ lapsed'[d] = IF d \in R THEN lapsed[d] + 1 ELSE lapsed[d]
      BY <1>10
    <3>3. received[d] + Cardinality(UnderWay(d)) <= lapsed[d] + Claim(d)
      OBVIOUS
    <3>4. Claim(d) \in {0, 1} /\ Claim(d)' \in {0, 1} /\ (d \notin R => Claim(d) <= Claim(d)')
      BY <1>10 DEF Claim
    <3>5. received[d] \in Nat /\ lapsed[d] \in Nat
      BY BoundsAssumption
    <3> QED BY <1>0, <3>1, <3>2, <3>3, <3>4, <3>5
  <2> QED BY <1>10, <2>1, <2>2
<1>11. ASSUME NEW w \in Workers, GiveUp(w) PROVE Copies'
  <2>1. /\ worker[w].calling \in Rows
        /\ worker'[w].calling = NoRow /\ worker'[w].ok = worker[w].ok
        /\ \A v \in Workers : v # w => worker'[v] = worker[v]
    BY <1>11 DEF GiveUp, PassType
  <2>2. net' = Orphans(w) /\ UNCHANGED <<row, received>>
    BY <1>11 DEF GiveUp
  <2>3. lapsed' = [d \in Rows |-> IF d \in {worker[w].calling} THEN lapsed[d] + 1 ELSE lapsed[d]]
    BY <1>11 DEF GiveUp
  <2>4. Awaited'
    BY <2>1, <2>2 DEF Awaited, Orphans
  <2>5. \A d \in Rows \ {worker[w].calling} : Claimed(d) => Claimed(d)'
    BY <2>1, <2>2 DEF Claimed, Claims
  <2> QED BY ZenonT(30), <1>10, <2>1, <2>2, <2>3, <2>4, <2>5
<1>12. ASSUME NEW w \in Workers, Crash(w) PROVE Copies'
  <2>1. /\ worker'[w] = Idle
        /\ \A v \in Workers : v # w => worker'[v] = worker[v]
    BY <1>12 DEF Crash, PassType
  <2>2. net' = Orphans(w) /\ UNCHANGED <<row, received>>
    BY <1>12 DEF Crash
  <2>3. lapsed' = [d \in Rows |-> IF d \in Unanswered(w) THEN lapsed[d] + 1 ELSE lapsed[d]]
    BY <1>12 DEF Crash
  <2>4. Unanswered(w) \in SUBSET Rows
    BY DEF Unanswered, PassType
  <2>5. Awaited'
    BY <2>1, <2>2 DEF Awaited, Orphans, Idle
  <2>6. \A d \in Rows \ Unanswered(w) : Claimed(d) => Claimed(d)'
    BY <2>1, <2>2 DEF Claimed, Claims, Unanswered
  <2> QED BY <1>10, <2>2, <2>3, <2>4, <2>5, <2>6
\* A request that arrives is under way no more.
<1>13. ASSUME NEW m \in net, Receive(m) PROVE Copies'
  <2>1. /\ m.row \in Rows /\ net' = net \ {m} /\ UNCHANGED <<row, lapsed>>
        /\ m.by # NoWorker => m.by \in Workers
    BY <1>13 DEF Receive, Accept, Refuse, Request
  <2>2. PICK a \in {"accepted", "refused"} : /\ Answer(m, a)
                                             /\ a = "refused" => received' = received
                                             /\ a = "accepted" => received' = [received EXCEPT ![m.row] = @ + 1]
    BY <1>13 DEF Receive, Accept, Refuse
  <2>3. /\ \A v \in Workers : worker'[v].ok = worker[v].ok /\ worker'[v].calling = worker[v].calling
        /\ \A v \in Workers : v # m.by => worker'[v] = worker[v]
        /\ m.by # NoWorker => worker'[m.by].answer = a /\ worker[m.by].calling = m.row
    BY <2>1, <2>2 DEF Answer, PassType, Passes
  <2>4. Awaited' /\ IsFiniteSet(net')
    BY <2>1, <2>3, FS_Subset DEF Awaited
  <2>5. \A d \in Rows : d # m.row \/ a = "accepted" => (Claimed(d) => Claimed(d)')
    BY <2>1, <2>3 DEF Claimed, Claims
  <2>6. \A d \in Rows : UnderWay(d)' \subseteq UnderWay(d)
    BY <2>1 DEF UnderWay
  <2>7. m \in UnderWay(m.row) /\ m \notin UnderWay(m.row)'
    BY <2>1 DEF UnderWay
  <2>8. ASSUME NEW d \in Rows PROVE received'[d] + Cardinality(UnderWay(d)') <= lapsed'[d] + Claim(d)'
    <3>1. /\ Cardinality(UnderWay(d)') \in Nat
          /\ Cardinality(UnderWay(d)') <= Cardinality(UnderWay(d))
          /\ d = m.row => Cardinality(UnderWay(d)') <= Cardinality(UnderWay(d)) - 1
      BY <2>6, <2>7, FewerUnderWay
    <3>2. /\ lapsed'[d] = lapsed[d]
          /\ received'[d] = IF d = m.row /\ a = "accepted" THEN received[d] + 1 ELSE received[d]
      BY <2>1, <2>2
    <3>3. received[d] + Cardinality(UnderWay(d)) <= lapsed[d] + Claim(d)
      OBVIOUS
    <3>4. Claim(d) \in {0, 1} /\ Claim(d)' \in {0, 1}
          /\ (d # m.row \/ a = "accepted" => Claim(d) <= Claim(d)')
      BY <2>5 DEF Claim
    <3>5. received[d] \in Nat /\ lapsed[d] \in Nat
      BY BoundsAssumption
    <3> QED BY <1>0, <3>1, <3>2, <3>3, <3>4, <3>5
  <2> QED BY <2>4, <2>8
<1> QED BY <1>2, <1>3, <1>4, <1>5, <1>6, <1>7, <1>8, <1>9, <1>11, <1>12, <1>13 DEF Next, Pass

\* The peer holds at most one copy more than the answers the sender lost: no
\* overlap of passes, retry or 409 duplicates an activity row (drain_pending,
\* receive_inbox).
THEOREM CopiesAreBounded == Spec => []CopiesAreLapses
<1>1. Init => Copies
  <2>1. Init => \A d \in Rows : UnderWay(d) = {}
    BY DEF Init, UnderWay
  <2> QED BY <2>1, FS_EmptySet DEF Init, Copies, Awaited, Idle, Claim
<1>2. Inv /\ Inv' /\ Copies /\ [Next]_vars => Copies'
  BY CopiesStep
<1>3. Inv /\ Copies => CopiesAreLapses
  <2> SUFFICES ASSUME Inv, Copies, NEW d \in Rows PROVE received[d] <= 1 + lapsed[d]
    BY DEF CopiesAreLapses
  <2>1. Cardinality(UnderWay(d)) \in Nat
    BY UnderWayFinite DEF Copies
  <2>2. received[d] + Cardinality(UnderWay(d)) <= lapsed[d] + Claim(d) /\ Claim(d) \in {0, 1}
    BY DEF Copies, Claim
  <2>3. received[d] \in Nat /\ lapsed[d] \in Nat
    BY BoundsAssumption DEF Inv, TypeOK
  <2> QED BY <2>1, <2>2, <2>3
<1> QED BY Invariant, <1>1, <1>2, <1>3, PTL DEF Spec
=============================================================================
