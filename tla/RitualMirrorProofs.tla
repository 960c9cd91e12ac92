-------------------------- MODULE RitualMirrorProofs --------------------------
(***************************************************************************)
(* Theorems about RitualMirror, for any number of fragments, participants  *)
(* and sweeps, any batch size, and any loss, repetition, reordering or     *)
(* failure; what is said of sweeps that do not overlap says Apart.         *)
(***************************************************************************)
EXTENDS RitualMirror, FiniteSetTheorems, TLAPS

-----------------------------------------------------------------------------
(* What sweeps that are apart keep.                                        *)

OneRuns == \A v, w \in Sweeps : Running(v) /\ Running(w) => v = w

\* What a sweep has before it is pending, in the order of arrival, and older than
\* whatever else is pending.
Ordered(s) == \A k, l \in DOMAIN s : k < l => s[k] < s[l]
Batch(s, pending) ==
  /\ Ordered(s)
  /\ \A k \in DOMAIN s : s[k] \in pending
  /\ \A i \in pending : (\E k \in DOMAIN s : s[k] = i) \/ \A k \in DOMAIN s : s[k] < i
Batches == \A w \in Sweeps : Running(w) => Batch(sweep[w].rows, Pending)

\* Nobody has changed the mirror since a sweep read it.
Current == \A w \in Sweeps : sweep[w].at = "handled" => sweep[w].seen = mirror

\* What is younger than a pending activity is pending.
InTurn == \A i, j \in DOMAIN inbox : i \in Pending /\ i <= j => j \in Pending

Turns == Apart => OneRuns /\ Batches /\ Current /\ InTurn

Inv == TypeOK /\ Turns /\ StatusIsTheFurthest /\ FragmentsAreProcessed /\ SkipsAreReorderings

-----------------------------------------------------------------------------
(* Types.                                                                  *)

\* An activity is of one of four kinds,
LEMMA OpsAreOps == ASSUME NEW op \in Ops
                   PROVE  op.kind \in {"schedule", "start", "fragment", "completion"}
  BY DEF Ops, Posts, Op

\* and the posts are the fragments.
LEMMA PostsAreFragments == \A op \in Ops : op \in Posts <=> op.kind = "fragment"
  BY DEF Ops, Posts, Op

\* What a sweep that runs holds.
LEMMA Rows ==
  ASSUME TypeOK, NEW w \in Sweeps, Running(w)
  PROVE  /\ sweep[w].rows \in Seq(Nat) /\ Len(sweep[w].rows) \in Nat \ {0}
         /\ DOMAIN sweep[w].rows = 1 .. Len(sweep[w].rows)
         /\ Row(w) = sweep[w].rows[1]
         /\ Row(w) \in DOMAIN inbox
         /\ Operation(w) \in Ops
  <1>1. sweep[w].rows \in Seq(Nat) /\ sweep[w].rows # <<>>
    BY DEF TypeOK, SweepType
  <1>2. Len(sweep[w].rows) \in Nat \ {0} /\ DOMAIN sweep[w].rows = 1 .. Len(sweep[w].rows)
    BY <1>1
  <1>3. Row(w) = sweep[w].rows[1]
    BY <1>1 DEF Row
  <1>4. Row(w) \in DOMAIN inbox
    BY <1>2, <1>3 DEF TypeOK
  <1>5. inbox[Row(w)] \in Activity
    BY <1>4 DEF TypeOK
  <1>6. Operation(w) \in Ops
    BY <1>5 DEF Operation, Activity
  <1> QED BY <1>1, <1>2, <1>3, <1>4, <1>6

SweepsFit ==
  /\ sweep \in [Sweeps -> SweepType]
  /\ \A w \in Sweeps : /\ Running(w) <=> sweep[w].rows # <<>>
                       /\ \A k \in DOMAIN sweep[w].rows : sweep[w].rows[k] \in DOMAIN inbox

\* The rest of a batch, when its first row is done.
LEMMA TailRows ==
  ASSUME TypeOK, NEW w \in Sweeps, Running(w), Len(sweep[w].rows) # 1
  PROVE  LET s == sweep[w].rows
             t == Tail(s)
         IN  /\ t \in Seq(Nat) /\ t # <<>>
             /\ DOMAIN t = 1 .. Len(s) - 1
             /\ \A k \in DOMAIN t : k + 1 \in DOMAIN s /\ t[k] = s[k + 1]
  <1> DEFINE s == sweep[w].rows
  <1>1. s \in Seq(Nat) /\ Len(s) \in Nat \ {0, 1} /\ DOMAIN s = 1 .. Len(s)
    BY Rows
  <1> HIDE DEF s
  <1>2. Tail(s) \in Seq(Nat) /\ Len(Tail(s)) = Len(s) - 1
    BY <1>1
  <1> DEFINE t == Tail(s)
  <1> HIDE DEF t
  <1>5. t \in Seq(Nat) /\ Len(t) = Len(s) - 1 /\ Len(t) # 0
    BY <1>1, <1>2 DEF t
  <1>6. t # <<>> /\ DOMAIN t = 1 .. Len(s) - 1
    BY <1>5
  <1>3. Tail(s) # <<>> /\ DOMAIN Tail(s) = 1 .. Len(s) - 1
    BY <1>6 DEF t
  <1>4. \A k \in DOMAIN Tail(s) : k + 1 \in DOMAIN s /\ Tail(s)[k] = s[k + 1]
    BY <1>1, <1>3
  <1> QED BY <1>2, <1>3, <1>4 DEF s

\* It is enough to look at one sweep.
LEMMA FitsBut ==
  ASSUME TypeOK, NEW w \in Sweeps, DOMAIN inbox' = DOMAIN inbox, sweep' \in [Sweeps -> SweepType],
         \A v \in Sweeps \ {w} : sweep'[v] = sweep[v],
         sweep'[w].at # "idle" <=> sweep'[w].rows # <<>>,
         \A k \in DOMAIN sweep'[w].rows : sweep'[w].rows[k] \in DOMAIN inbox
  PROVE  SweepsFit'
  BY DEF SweepsFit, TypeOK, Running

\* A sweep between its ticks holds no batch,
LEMMA AsleepFits ==
  /\ Asleep \in SweepType /\ Asleep.at = "idle" /\ Asleep.rows = <<>>
  /\ \A k \in DOMAIN Asleep.rows : FALSE
  BY DEF Asleep, SweepType, MirrorStatuses

\* and one that goes on, or
LEMMA PassedFits ==
  ASSUME TypeOK, NEW w \in Sweeps, Running(w), sweep' = Passed(w),
         DOMAIN inbox' = DOMAIN inbox
  PROVE  SweepsFit'
  <1>1. \A v \in Sweeps \ {w} : sweep'[v] = sweep[v]
    BY DEF Passed, TypeOK
  <1>2. CASE Len(sweep[w].rows) = 1
    <2>1. sweep'[w] = Asleep
      BY <1>2 DEF Passed, TypeOK
    <2>2. sweep' \in [Sweeps -> SweepType]
      BY <1>1, <2>1, AsleepFits DEF Passed, TypeOK
    <2> QED BY <1>1, <2>1, <2>2, AsleepFits, FitsBut
  <1>3. CASE Len(sweep[w].rows) # 1
    <2> DEFINE t == Tail(sweep[w].rows)
               r == [rows |-> t, at |-> "next", seen |-> "none"]
    <2>1. sweep'[w] = r
      BY <1>3 DEF Passed, TypeOK, Asleep
    <2>2. t \in Seq(Nat) /\ t # <<>> /\ \A k \in DOMAIN t : t[k] \in DOMAIN inbox
      BY <1>3, TailRows DEF TypeOK
    <2>3. r \in SweepType
      BY <2>2 DEF SweepType, MirrorStatuses
    <2>4. sweep' \in [Sweeps -> SweepType]
      BY <1>1, <2>1, <2>3 DEF Passed, TypeOK
    <2>5. r.rows = t /\ r.at = "next"
      OBVIOUS
    <2> HIDE DEF t, r
    <2> QED BY <1>1, <2>1, <2>2, <2>4, <2>5, FitsBut
  <1> QED BY <1>2, <1>3

\* that is over, holds rows of the inbox.
LEMMA GoneFits ==
  ASSUME TypeOK, NEW w \in Sweeps, sweep' = Gone(w), DOMAIN inbox' = DOMAIN inbox
  PROVE  SweepsFit'
  <1>1. sweep' \in [Sweeps -> SweepType] /\ sweep'[w] = Asleep
    BY AsleepFits DEF Gone, TypeOK
  <1>2. \A v \in Sweeps \ {w} : sweep'[v] = sweep[v]
    BY DEF Gone, TypeOK
  <1> QED BY <1>1, <1>2, AsleepFits, FitsBut

\* An activity that changes its status.
LEMMA Marked ==
  ASSUME TypeOK, NEW n \in DOMAIN inbox, NEW v \in {"pending", "processed", "skipped", "errored"},
         inbox' = [inbox EXCEPT ![n].status = v]
  PROVE  /\ inbox' \in Seq(Activity) /\ DOMAIN inbox' = DOMAIN inbox
         /\ inbox'[n].status = v
         /\ \A i \in DOMAIN inbox : inbox'[i].op = inbox[i].op
         /\ \A i \in DOMAIN inbox \ {n} : inbox'[i] = inbox[i]
  <1>1. inbox \in Seq(Activity) /\ Len(inbox) \in Nat /\ DOMAIN inbox = 1 .. Len(inbox)
    BY DEF TypeOK
  <1>2. inbox' = [inbox EXCEPT ![n] = [inbox[n] EXCEPT !.status = v]]
    OBVIOUS
  <1>3. inbox[n] \in Activity
    BY <1>1
  <1>4. /\ [inbox[n] EXCEPT !.status = v] \in Activity
        /\ [inbox[n] EXCEPT !.status = v].op = inbox[n].op
        /\ [inbox[n] EXCEPT !.status = v].status = v
    BY <1>3 DEF Activity
  <1>5. inbox' \in Seq(Activity) /\ DOMAIN inbox' = DOMAIN inbox
    BY <1>1, <1>2, <1>4
  <1>6. inbox'[n] = [inbox[n] EXCEPT !.status = v] /\ \A i \in DOMAIN inbox \ {n} : inbox'[i] = inbox[i]
    BY <1>2
  <1> QED BY <1>4, <1>5, <1>6

\* One more activity.
LEMMA OneMore ==
  ASSUME TypeOK, NEW op \in Ops, inbox' = Received(op)
  PROVE  /\ inbox' \in Seq(Activity)
         /\ Len(inbox') = Len(inbox) + 1
         /\ DOMAIN inbox = 1 .. Len(inbox) /\ Len(inbox) \in Nat
         /\ DOMAIN inbox' = 1 .. Len(inbox) + 1
         /\ \A i \in DOMAIN inbox : inbox'[i] = inbox[i]
         /\ inbox'[Len(inbox) + 1].status = "pending"
  <1>1. inbox \in Seq(Activity)
    BY DEF TypeOK
  <1> DEFINE a == [op |-> op, status |-> "pending"]
  <1>2. a \in Activity /\ a.status = "pending"
    BY DEF Activity
  <1>3. inbox' = Append(inbox, a)
    BY DEF Received
  <1> HIDE DEF a
  <1> QED BY <1>1, <1>2, <1>3

\* A mirror's status after an activity is a status,
LEMMA StatusesFit ==
  ASSUME NEW op, NEW seen \in MirrorStatuses
  PROVE  StatusAfter(op, seen) \in MirrorStatuses
  BY DEF StatusAfter, MirrorStatuses

\* and the row's verdict is one of two.
LEMMA VerdictsFit ==
  ASSUME NEW op, NEW seen
  PROVE  Verdict(op, seen) \in {"processed", "skipped"}
  BY DEF Verdict

\* A batch is a list of pending rows.
LEMMA Batched ==
  ASSUME TypeOK, NEW s \in [1 .. BatchLength -> Pending], Pending # {}
  PROVE  s \in Seq(Nat) /\ s # <<>> /\ DOMAIN s = 1 .. BatchLength /\ BatchLength \in Nat \ {0}
  <1>1. inbox \in Seq(Activity) /\ DOMAIN inbox = 1 .. Len(inbox) /\ Len(inbox) \in Nat
    BY DEF TypeOK
  <1>2. IsFiniteSet(DOMAIN inbox)
    BY <1>1, FS_Interval
  <1>3. Pending \subseteq DOMAIN inbox
    BY DEF Pending
  <1>4. IsFiniteSet(Pending)
    BY <1>2, <1>3, FS_Subset
  <1>5. Cardinality(Pending) \in Nat /\ Cardinality(Pending) # 0
    BY <1>4, FS_CardinalityType, FS_EmptySet
  <1>6. BatchLength \in Nat \ {0}
    BY <1>5, BoundsAssumption DEF BatchLength
  <1>7. Pending \subseteq Nat
    BY <1>1, <1>3
  <1>8. s \in [1 .. BatchLength -> Nat]
    BY <1>7
  <1> HIDE DEF BatchLength
  <1>9. s \in Seq(Nat) /\ Len(s) = BatchLength
    BY <1>6, <1>8
  <1> QED BY <1>6, <1>9

\* Every step keeps the types.
LEMMA TypeStep == TypeOK /\ [Next]_vars => TypeOK'
  <1> SUFFICES ASSUME TypeOK, [Next]_vars PROVE TypeOK'
    OBVIOUS
  <1> USE DEF vars, originVars, mirrorVars, bounds
  <1>0. SweepsFit
    BY DEF TypeOK, SweepsFit
  <1>1. ASSUME NEW op \in Ops, Check(op) PROVE TypeOK'
    BY <1>1 DEF Check, TypeOK, Running
  <1>2. ASSUME NEW op \in Ops, CommitOp(op) PROVE TypeOK'
    <2>1. status' \in Statuses
      BY <1>2, OpsAreOps DEF CommitOp, TypeOK, Statuses
    <2> QED BY <1>2, <2>1 DEF CommitOp, TypeOK, Running
  <1>3. ASSUME NEW op \in Ops, Broadcast(op) PROVE TypeOK'
    BY <1>3, BoundsAssumption DEF Broadcast, TypeOK, Running
  <1>4. ASSUME NEW op \in Ops, inbox' = Received(op), sweep' = sweep PROVE inbox' \in Seq(Activity) /\ SweepsFit'
    <2>1. inbox' \in Seq(Activity) /\ DOMAIN inbox \subseteq DOMAIN inbox'
      BY <1>4, OneMore
    <2> QED BY <1>0, <1>4, <2>1 DEF SweepsFit, Running
  <1>5. ASSUME NEW op \in Ops, Arrive(op) PROVE TypeOK'
    <2>1. inbox' \in Seq(Activity) /\ SweepsFit'
      BY <1>4, <1>5 DEF Arrive
    <2>2. wire' \in [Ops -> Nat]
      BY <1>5 DEF Arrive, TypeOK
    <2> QED BY <1>5, <2>1, <2>2 DEF Arrive, TypeOK, SweepsFit
  <1>6. ASSUME NEW op \in Ops, ArriveUnheard(op) PROVE TypeOK'
    <2>1. inbox' \in Seq(Activity) /\ SweepsFit'
      BY <1>4, <1>6 DEF ArriveUnheard
    <2> QED BY <1>6, <2>1 DEF ArriveUnheard, TypeOK, SweepsFit
  <1>7. ASSUME NEW w \in Sweeps, Tick(w) PROVE TypeOK'
    <2>1. PICK s \in [1 .. BatchLength -> Pending] :
            /\ Pending # {}
            /\ sweep' = [sweep EXCEPT ![w] = [Asleep EXCEPT !.rows = s, !.at = "next"]]
      BY <1>7 DEF Tick
    <2>2. s \in Seq(Nat) /\ s # <<>> /\ DOMAIN s = 1 .. BatchLength
      BY <2>1, Batched
    <2>3. \A k \in DOMAIN s : s[k] \in DOMAIN inbox
      BY <2>2 DEF Pending
    <2> DEFINE r == [Asleep EXCEPT !.rows = s, !.at = "next"]
    <2>4. r \in SweepType /\ r.rows = s /\ r.at = "next"
      BY <2>2 DEF SweepType, MirrorStatuses, Asleep
    <2>5. sweep' = [sweep EXCEPT ![w] = r]
      BY <2>1
    <2> HIDE DEF r
    <2>6. sweep' \in [Sweeps -> SweepType] /\ sweep'[w] = r /\ \A v \in Sweeps \ {w} : sweep'[v] = sweep[v]
      BY <2>4, <2>5 DEF TypeOK
    <2>7. inbox' = inbox
      BY <1>7 DEF Tick
    <2>8. SweepsFit'
      BY <2>2, <2>3, <2>4, <2>6, <2>7, FitsBut
    <2>9. overlaps' \in Nat
      BY <1>7 DEF Tick, TypeOK
    <2> QED BY <1>7, <2>8, <2>9 DEF Tick, TypeOK, SweepsFit
  <1>8. ASSUME NEW w \in Sweeps, Handle(w) PROVE TypeOK'
    <2>1. sweep' \in [Sweeps -> SweepType]
      BY <1>8 DEF Handle, TypeOK, SweepType
    <2>2. \A v \in Sweeps : sweep'[v].rows = sweep[v].rows /\ (sweep'[v].at = "idle" <=> sweep[v].at = "idle")
      BY <1>8 DEF Handle, TypeOK, SweepType
    <2>3. SweepsFit'
      BY <1>8, <2>1, <2>2 DEF Handle, SweepsFit, TypeOK, Running
    <2> QED BY <1>8, <2>3 DEF Handle, TypeOK, SweepsFit
  <1>9. ASSUME NEW w \in Sweeps, CommitRow(w) PROVE TypeOK'
    <2>1. Running(w) /\ sweep[w].seen \in MirrorStatuses
      BY <1>9 DEF CommitRow, Running, TypeOK, SweepType
    <2>2. Row(w) \in DOMAIN inbox /\ Operation(w) \in Ops
      BY <2>1, Rows
    <2>3. inbox' = [inbox EXCEPT ![Row(w)].status = Verdict(Operation(w), sweep[w].seen)]
      BY <1>9 DEF CommitRow
    <2>4. inbox' \in Seq(Activity) /\ DOMAIN inbox' = DOMAIN inbox
      BY <2>2, <2>3, VerdictsFit, Marked
    <2>5. SweepsFit'
      BY <1>9, <2>1, <2>4, PassedFits DEF CommitRow
    <2>6. mirror' \in MirrorStatuses
      BY <1>9, <2>1, StatusesFit DEF CommitRow, TypeOK
    <2>7. fragments' \in [Posts -> Nat]
      BY <1>9, <2>2, PostsAreFragments DEF CommitRow, TypeOK
    <2> QED BY <1>9, <2>4, <2>5, <2>6, <2>7 DEF CommitRow, TypeOK, SweepsFit
  <1>10. ASSUME NEW w \in Sweeps, Collide(w) PROVE TypeOK'
    <2>1. SweepsFit'
      BY <1>10, GoneFits DEF Collide
    <2> QED BY <1>10, <2>1 DEF Collide, TypeOK, SweepsFit
  <1>11. ASSUME NEW w \in Sweeps, Raise(w) PROVE TypeOK'
    <2>1. Running(w)
      BY <1>11 DEF Raise, Running
    <2>2. Row(w) \in DOMAIN inbox
      BY <2>1, Rows
    <2>3. inbox' = [inbox EXCEPT ![Row(w)].status = "errored"]
      BY <1>11 DEF Raise
    <2>4. inbox' \in Seq(Activity) /\ DOMAIN inbox' = DOMAIN inbox
      BY <2>2, <2>3, Marked
    <2>5. SweepsFit'
      BY <1>11, <2>1, <2>4, PassedFits DEF Raise
    <2> QED BY <1>11, <2>4, <2>5 DEF Raise, TypeOK, SweepsFit
  <1>12. ASSUME NEW w \in Sweeps, Die(w) PROVE TypeOK'
    <2>1. SweepsFit'
      BY <1>12, GoneFits DEF Die
    <2> QED BY <1>12, <2>1 DEF Die, TypeOK, SweepsFit
  <1>13. CASE UNCHANGED vars
    BY <1>13 DEF TypeOK, Running
  <1> QED BY <1>1, <1>2, <1>3, <1>5, <1>6, <1>7, <1>8, <1>9, <1>10, <1>11, <1>12, <1>13 DEF Next, Work

\* An empty inbox.
LEMMA TypeInit == Init => TypeOK
  <1> SUFFICES ASSUME Init PROVE TypeOK
    OBVIOUS
  <1>1. inbox \in Seq(Activity)
    BY DEF Init
  <1>2. SweepsFit
    BY AsleepFits DEF Init, SweepsFit, Running
  <1> QED BY <1>1, <1>2 DEF Init, TypeOK, SweepsFit, Statuses, MirrorStatuses

\* The types hold (TypeOK): a sweep that runs has rows, all of them in the inbox.
THEOREM TypeCorrect == Spec => []TypeOK
  BY TypeInit, TypeStep, PTL DEF Spec

-----------------------------------------------------------------------------
(* Sweeps that are apart take turns with the inbox.                         *)

\* A sweep that runs alone has the oldest pending row in its hands.
LEMMA HeadIsOldest ==
  ASSUME TypeOK, NEW w \in Sweeps, Running(w), Batch(sweep[w].rows, Pending)
  PROVE  Row(w) \in Pending /\ \A i \in Pending : i = Row(w) \/ Row(w) < i
  <1> DEFINE s == sweep[w].rows
  <1>1. Len(s) \in Nat \ {0} /\ DOMAIN s = 1 .. Len(s) /\ Row(w) = s[1]
    BY Rows
  <1>2. 1 \in DOMAIN s /\ \A k \in DOMAIN s : k = 1 \/ 1 < k
    BY <1>1
  <1>3. Row(w) \in Pending
    BY <1>1, <1>2 DEF Batch
  <1>4. ASSUME NEW i \in Pending PROVE i = Row(w) \/ Row(w) < i
    <2>1. CASE \E k \in DOMAIN s : s[k] = i
      BY <2>1, <1>1, <1>2 DEF Batch, Ordered
    <2>2. CASE \A k \in DOMAIN s : s[k] < i
      BY <2>2, <1>1, <1>2
    <2> QED BY <2>1, <2>2 DEF Batch
  <1> QED BY <1>3, <1>4

\* A row that gets its verdict is pending no longer, and no other row changes.
LEMMA PendingRest ==
  ASSUME TypeOK, NEW n \in DOMAIN inbox, NEW v \in {"processed", "skipped", "errored"},
         inbox' = [inbox EXCEPT ![n].status = v]
  PROVE  Pending' = Pending \ {n}
  BY Marked DEF Pending

\* A sweep that has done a row, the oldest that was pending.
LEMMA TurnsPassed ==
  ASSUME TypeOK, OneRuns, Batches, InTurn,
         NEW w \in Sweeps, Running(w), sweep' = Passed(w),
         NEW v \in {"processed", "skipped", "errored"},
         inbox' = [inbox EXCEPT ![Row(w)].status = v]
  PROVE  (OneRuns /\ Batches /\ Current /\ InTurn)'
  <1> DEFINE s == sweep[w].rows
             t == Tail(s)
  <1>1. Row(w) \in DOMAIN inbox /\ Row(w) = s[1]
    BY Rows
  <1>2. DOMAIN inbox' = DOMAIN inbox /\ Pending' = Pending \ {Row(w)}
    BY <1>1, Marked, PendingRest
  <1>3. Row(w) \in Pending /\ \A i \in Pending : i = Row(w) \/ Row(w) < i
    BY HeadIsOldest DEF Batches
  <1>4. \A u \in Sweeps \ {w} : sweep'[u] = sweep[u] /\ ~ Running(u)
    BY DEF Passed, TypeOK, OneRuns
  <1>8. Pending' = Pending \ {s[1]}
    BY <1>1, <1>2
  <1>6. InTurn'
    <2> SUFFICES ASSUME NEW i \in DOMAIN inbox, NEW j \in DOMAIN inbox,
                        i \in Pending \ {Row(w)}, i <= j
                 PROVE  j \in Pending \ {Row(w)}
      BY <1>2 DEF InTurn
    <2>1. j \in Pending
      BY DEF InTurn
    <2>2. Row(w) < i
      BY <1>3
    <2>3. Row(w) \in Nat /\ i \in Nat /\ j \in Nat
      BY <1>1 DEF TypeOK
    <2> QED BY <2>1, <2>2, <2>3
  <1>5. CASE Len(s) = 1
    <2>1. sweep'[w] = Asleep
      BY <1>5 DEF Passed, TypeOK
    <2>2. \A u \in Sweeps : sweep'[u].at = "idle"
      BY <1>4, <2>1, AsleepFits DEF Running
    <2>3. \A u \in Sweeps : ~ (sweep'[u].at # "idle") /\ sweep'[u].at # "handled"
      BY <2>2
    <2>4. OneRuns' /\ Current'
      BY <2>3 DEF OneRuns, Current, Running
    <2>5. Batches'
      <3> SUFFICES ASSUME NEW u \in Sweeps, sweep'[u].at # "idle"
                   PROVE  Batch(sweep'[u].rows, Pending')
        BY DEF Batches, Running, Batch, Ordered
      <3>1. sweep'[u].at = "idle"
        BY <2>2
      <3> QED BY <3>1
    <2> QED BY <2>4, <2>5, <1>6
  <1>7. CASE Len(s) # 1
    <2>1. sweep'[w] = [rows |-> t, at |-> "next", seen |-> "none"]
      BY <1>7 DEF Passed, TypeOK, Asleep
    <2>2. sweep'[w].rows = t /\ sweep'[w].at = "next"
      BY <2>1
    <2>3. /\ s \in Seq(Nat) /\ DOMAIN s = 1 .. Len(s) /\ Len(s) \in Nat \ {0, 1}
          /\ DOMAIN t = 1 .. Len(s) - 1
          /\ \A k \in DOMAIN t : k + 1 \in DOMAIN s /\ t[k] = s[k + 1]
      BY <1>7, Rows, TailRows
    <2>4. Ordered(s) /\ (\A k \in DOMAIN s : s[k] \in Pending)
          /\ \A i \in Pending : (\E k \in DOMAIN s : s[k] = i) \/ \A k \in DOMAIN s : s[k] < i
      BY DEF Batches, Batch
    <2> HIDE DEF s, t
    <2>5. Ordered(t)
      BY <2>3, <2>4 DEF Ordered
    <2>6. \A k \in DOMAIN t : t[k] \in Pending \ {s[1]}
      <3> SUFFICES ASSUME NEW k \in DOMAIN t PROVE s[k + 1] \in Pending /\ s[1] < s[k + 1] /\ s[1] \in Nat
        BY <2>3
      <3>1. 1 \in DOMAIN s /\ k + 1 \in DOMAIN s /\ 1 < k + 1
        BY <2>3
      <3> QED BY SMTT(20), <3>1, <2>3, <2>4 DEF Ordered
    <2>7. ASSUME NEW i \in Pending \ {s[1]}
          PROVE  (\E k \in DOMAIN t : t[k] = i) \/ \A k \in DOMAIN t : t[k] < i
      <3>1. CASE \E k \in DOMAIN s : s[k] = i
        <4> PICK k \in DOMAIN s : s[k] = i
          BY <3>1
        <4>1. k # 1
          OBVIOUS
        <4>2. k - 1 \in DOMAIN t /\ (k - 1) + 1 = k
          BY <2>3, <4>1
        <4>3. t[k - 1] = i
          BY <2>3, <4>2
        <4> QED BY <4>2, <4>3
      <3>2. CASE \A k \in DOMAIN s : s[k] < i
        BY <3>2, <2>3
      <3> QED BY <2>4, <3>1, <3>2
    <2>8. Batch(t, Pending')
      BY <1>8, <1>2, <2>5, <2>6, <2>7 DEF Batch
    <2>9. \A u \in Sweeps \ {w} : sweep'[u].at = "idle"
      BY <1>4 DEF Running
    <2>10. OneRuns' /\ Current'
      BY <2>2, <2>9 DEF OneRuns, Current, Running
    <2>11. Batches'
      <3> SUFFICES ASSUME NEW u \in Sweeps, sweep'[u].at # "idle"
                   PROVE  Batch(sweep'[u].rows, Pending')
        BY DEF Batches, Running, Batch, Ordered
      <3> QED BY <2>2, <2>8, <2>9
    <2> QED BY <2>10, <2>11, <1>6
  <1> QED BY <1>5, <1>6, <1>7

\* A sweep that ends early.
LEMMA TurnsGone ==
  ASSUME TypeOK, OneRuns, Batches, Current, InTurn,
         NEW w \in Sweeps, sweep' = Gone(w), UNCHANGED <<inbox, mirror>>
  PROVE  (OneRuns /\ Batches /\ Current /\ InTurn)'
  <1>1. Pending' = Pending
    BY DEF Pending
  <1>2. sweep'[w].at = "idle" /\ \A u \in Sweeps \ {w} : sweep'[u] = sweep[u]
    BY AsleepFits DEF Gone, TypeOK
  <1>3. OneRuns' /\ Current'
    BY <1>2 DEF OneRuns, Current, Running
  <1>4. Batches'
    BY <1>1, <1>2 DEF Batches, Batch, Ordered, Running
  <1> QED BY <1>1, <1>3, <1>4 DEF InTurn

\* An activity that arrives waits its turn,
LEMMA TurnsReceived ==
  ASSUME TypeOK, OneRuns, Batches, Current, InTurn,
         NEW op \in Ops, inbox' = Received(op), UNCHANGED <<sweep, mirror>>
  PROVE  (OneRuns /\ Batches /\ Current /\ InTurn)'
  <1> DEFINE n == Len(inbox) + 1
  <1>1. /\ DOMAIN inbox = 1 .. Len(inbox) /\ Len(inbox) \in Nat
        /\ DOMAIN inbox' = 1 .. n
        /\ \A i \in DOMAIN inbox : inbox'[i] = inbox[i]
        /\ inbox'[n].status = "pending"
    BY OneMore
  <1>2. Pending' = Pending \cup {n}
    BY <1>1 DEF Pending
  <1>3. OneRuns' /\ Current'
    BY DEF OneRuns, Current, Running
  <1>4. InTurn'
    BY <1>1, <1>2 DEF InTurn
  <1>5. ASSUME NEW w \in Sweeps, Running(w) PROVE Batch(sweep[w].rows, Pending')
    <2> DEFINE s == sweep[w].rows
    <2>1. Batch(s, Pending) /\ \A k \in DOMAIN s : s[k] \in DOMAIN inbox
      BY <1>5 DEF Batches, TypeOK
    <2>2. \A k \in DOMAIN s : s[k] < n
      BY <2>1, <1>1
    <2> QED BY <2>1, <2>2, <1>2 DEF Batch, Ordered
  <1>6. Batches'
    BY <1>5 DEF Batches, Running, Batch, Ordered
  <1> QED BY <1>3, <1>4, <1>6

\* and a tick takes a batch in its turn.
LEMMA TurnsTaken ==
  ASSUME TypeOK, Turns, NEW w \in Sweeps, Tick(w), Apart'
  PROVE  (OneRuns /\ Batches /\ Current /\ InTurn)'
  <1>1. PICK s \in [1 .. BatchLength -> Pending] :
          /\ ~ Running(w) /\ Pending # {} /\ AreOldest(s)
          /\ sweep' = [sweep EXCEPT ![w] = [Asleep EXCEPT !.rows = s, !.at = "next"]]
    BY DEF Tick
  <1>2. \A v \in Sweeps : ~ Running(v)
    BY DEF Tick, Apart, TypeOK
  <1>3. sweep'[w].rows = s /\ sweep'[w].at = "next" /\ \A u \in Sweeps \ {w} : sweep'[u] = sweep[u]
    BY <1>1 DEF TypeOK, Asleep
  <1>4. inbox' = inbox /\ mirror' = mirror /\ Pending' = Pending
    BY DEF Tick, mirrorVars, Pending
  <1>5. Apart
    BY DEF Tick, Apart, TypeOK
  <1>6. DOMAIN s = 1 .. BatchLength
    OBVIOUS
  <1>7. Batch(s, Pending)
    BY <1>1, <1>6 DEF Batch, Ordered, AreOldest
  <1>8. Batches'
    BY <1>2, <1>3, <1>4, <1>7 DEF Batches, Batch, Ordered, Running
  <1>9. OneRuns' /\ Current'
    BY <1>2, <1>3 DEF OneRuns, Current, Running
  <1> QED BY <1>4, <1>5, <1>8, <1>9 DEF InTurn, Turns

\* Sweeps that are apart have been from the start.
LEMMA ApartBefore == TypeOK /\ [Next]_vars /\ Apart' => Apart
  <1> SUFFICES ASSUME TypeOK, [Next]_vars, Apart' PROVE Apart
    OBVIOUS
  <1> USE DEF vars, originVars, mirrorVars, bounds
  <1>1. CASE \E w \in Sweeps : Tick(w)
    BY <1>1 DEF Tick, Apart, TypeOK
  <1>2. CASE ~ \E w \in Sweeps : Tick(w)
    <2>1. overlaps' = overlaps
      BY <1>2 DEF Next, Work, Check, CommitOp, Broadcast, Arrive, ArriveUnheard, Handle, CommitRow,
                  Collide, Raise, Die
    <2> QED BY <2>1 DEF Apart
  <1> QED BY <1>1, <1>2

\* While a sweep that is apart goes from its SELECT to its commit, the mirror is as
\* it was read.
LEMMA TurnsStep == TypeOK /\ Turns /\ [Next]_vars => Turns'
  <1> SUFFICES ASSUME TypeOK, Turns, [Next]_vars, Apart'
               PROVE  (OneRuns /\ Batches /\ Current /\ InTurn)'
    BY DEF Turns
  <1> USE DEF vars, originVars, mirrorVars, bounds
  <1>1. Apart /\ OneRuns /\ Batches /\ Current /\ InTurn
    <2>1. Apart
      BY ApartBefore
    <2> QED BY <2>1 DEF Turns
  <1>2. ASSUME UNCHANGED <<sweep, inbox, mirror>> PROVE (OneRuns /\ Batches /\ Current /\ InTurn)'
    BY <1>1, <1>2 DEF OneRuns, Batches, Batch, Ordered, Current, InTurn, Pending, Running
  <1>3. ASSUME NEW op \in Ops, Check(op) \/ CommitOp(op) \/ Broadcast(op)
        PROVE  (OneRuns /\ Batches /\ Current /\ InTurn)'
    BY <1>2, <1>3 DEF Check, CommitOp, Broadcast
  <1>4. ASSUME NEW op \in Ops, Arrive(op) \/ ArriveUnheard(op)
        PROVE  (OneRuns /\ Batches /\ Current /\ InTurn)'
    BY <1>1, <1>4, TurnsReceived DEF Arrive, ArriveUnheard
  <1>5. ASSUME NEW w \in Sweeps, Tick(w) PROVE (OneRuns /\ Batches /\ Current /\ InTurn)'
    BY <1>5, TurnsTaken
  <1>6. ASSUME NEW w \in Sweeps, Handle(w) PROVE (OneRuns /\ Batches /\ Current /\ InTurn)'
    <2>1. /\ sweep'[w].rows = sweep[w].rows /\ sweep'[w].seen = mirror
          /\ sweep[w].at # "idle" /\ sweep'[w].at # "idle"
      BY <1>6 DEF Handle, TypeOK, SweepType
    <2>2. \A u \in Sweeps \ {w} : sweep'[u] = sweep[u]
      BY <1>6 DEF Handle, TypeOK
    <2>3. inbox' = inbox /\ mirror' = mirror /\ Pending' = Pending
      BY <1>6 DEF Handle, Pending
    <2>4. OneRuns' /\ Current'
      BY <1>1, <2>1, <2>2, <2>3 DEF OneRuns, Current, Running
    <2>5. Batches'
      BY <1>1, <2>1, <2>2, <2>3 DEF Batches, Batch, Ordered, Running
    <2> QED BY <1>1, <2>3, <2>4, <2>5 DEF InTurn
  <1>7. ASSUME NEW w \in Sweeps, CommitRow(w) PROVE (OneRuns /\ Batches /\ Current /\ InTurn)'
    BY <1>1, <1>7, TurnsPassed, VerdictsFit DEF CommitRow, Running
  <1>8. ASSUME NEW w \in Sweeps, Collide(w) PROVE (OneRuns /\ Batches /\ Current /\ InTurn)'
    BY <1>1, <1>8, TurnsGone DEF Collide
  <1>9. ASSUME NEW w \in Sweeps, Raise(w) PROVE (OneRuns /\ Batches /\ Current /\ InTurn)'
    BY <1>1, <1>9, TurnsPassed DEF Raise, Running
  <1>10. ASSUME NEW w \in Sweeps, Die(w) PROVE (OneRuns /\ Batches /\ Current /\ InTurn)'
    BY <1>1, <1>10, TurnsGone DEF Die
  <1> QED BY <1>2, <1>3, <1>4, <1>5, <1>6, <1>7, <1>8, <1>9, <1>10 DEF Next, Work

\* At the start nobody runs.
LEMMA TurnsInit == Init => Turns
  BY AsleepFits DEF Init, Turns, OneRuns, Batches, Current, InTurn, Running

-----------------------------------------------------------------------------
(* What sweeps that are apart make of the mirror.                           *)

\* One activity processed on the status of the mirror: the status becomes the further
\* of the two.
LEMMA Furthest ==
  ASSUME NEW op \in Ops, NEW m \in MirrorStatuses
  PROVE  /\ Rank(m) <= Rank(StatusAfter(op, m))
         /\ Verdict(op, m) = "processed" => Rank(Told(op)) <= Rank(StatusAfter(op, m))
         /\ StatusAfter(op, m) # m => Verdict(op, m) = "processed" /\ Told(op) = StatusAfter(op, m)
         /\ Rank(m) \in 0 .. 3 /\ Rank(Told(op)) \in 0 .. 3 /\ Rank(StatusAfter(op, m)) \in 0 .. 3
  BY OpsAreOps DEF MirrorStatuses, Rank, StatusAfter, Verdict, Told

\* A row that is processed joins its activity's,
LEMMA ProcessedNow ==
  ASSUME TypeOK, NEW n \in DOMAIN inbox, NEW v \in {"processed", "skipped", "errored"},
         n \in Pending, inbox' = [inbox EXCEPT ![n].status = v], NEW op \in Ops
  PROVE  /\ n \notin Processed(op)
         /\ Processed(op)' = IF v = "processed" /\ inbox[n].op = op
                             THEN Processed(op) \cup {n} ELSE Processed(op)
  BY Marked DEF Processed, Pending

\* and one that arrives does not yet.
LEMMA ProcessedReceived ==
  ASSUME TypeOK, NEW p \in Ops, inbox' = Received(p), NEW op \in Ops
  PROVE  Processed(op)' = Processed(op)
  BY OneMore DEF Processed

\* An activity has finitely many processed rows.
LEMMA ProcessedFinite == TypeOK => \A op \in Ops : IsFiniteSet(Processed(op))
  <1> SUFFICES ASSUME TypeOK, NEW op \in Ops PROVE IsFiniteSet(Processed(op))
    OBVIOUS
  <1>1. DOMAIN inbox = 1 .. Len(inbox) /\ Len(inbox) \in Nat
    BY DEF TypeOK
  <1>2. IsFiniteSet(DOMAIN inbox)
    BY <1>1, FS_Interval
  <1>3. Processed(op) \subseteq DOMAIN inbox
    BY DEF Processed
  <1> QED BY <1>2, <1>3, FS_Subset

\* What a sweep commits, as it is under Apart: a verdict on the mirror as it is.
LEMMA Committed ==
  ASSUME TypeOK, Turns, Apart, NEW w \in Sweeps, CommitRow(w)
  PROVE  /\ Running(w) /\ Row(w) \in Pending /\ Row(w) \in DOMAIN inbox
         /\ \A i \in Pending : i = Row(w) \/ Row(w) < i
         /\ Operation(w) \in Ops /\ inbox[Row(w)].op = Operation(w)
         /\ inbox' = [inbox EXCEPT ![Row(w)].status = Verdict(Operation(w), mirror)]
         /\ mirror' = StatusAfter(Operation(w), mirror)
         /\ fragments' = IF Operation(w).kind = "fragment" /\ Verdict(Operation(w), mirror) = "processed"
                         THEN [fragments EXCEPT ![Operation(w)] = @ + 1] ELSE fragments
  <1>1. Running(w) /\ sweep[w].seen = mirror
    BY DEF CommitRow, Turns, Current, Running
  <1>2. Row(w) \in Pending /\ \A i \in Pending : i = Row(w) \/ Row(w) < i
    BY <1>1, HeadIsOldest DEF Turns, Batches
  <1>3. Row(w) \in DOMAIN inbox /\ Operation(w) \in Ops /\ inbox[Row(w)].op = Operation(w)
    BY <1>1, Rows DEF Operation
  <1> QED BY <1>1, <1>2, <1>3 DEF CommitRow

\* A step that is no commit of a sweep leaves what was processed and the mirror.
LEMMA OtherSteps ==
  ASSUME TypeOK, Turns, [Next]_vars, Apart', \A w \in Sweeps : ~ CommitRow(w)
  PROVE  /\ mirror' = mirror /\ fragments' = fragments
         /\ \A op \in Ops : Processed(op)' = Processed(op)
  <1> USE DEF vars, originVars, mirrorVars, bounds
  <1>1. ASSUME NEW w \in Sweeps, Raise(w) PROVE \A op \in Ops : Processed(op)' = Processed(op)
    <2>1. Apart /\ Running(w)
      BY <1>1 DEF Raise, Running, Apart
    <2>2. Row(w) \in Pending /\ Row(w) \in DOMAIN inbox
      BY <2>1, HeadIsOldest, Rows DEF Turns, Batches
    <2>3. inbox' = [inbox EXCEPT ![Row(w)].status = "errored"]
      BY <1>1 DEF Raise
    <2> QED BY <2>2, <2>3, ProcessedNow
  <1>2. ASSUME NEW op \in Ops, Arrive(op) \/ ArriveUnheard(op) PROVE \A p \in Ops : Processed(p)' = Processed(p)
    BY <1>2, ProcessedReceived DEF Arrive, ArriveUnheard
  <1>3. inbox' = inbox => \A op \in Ops : Processed(op)' = Processed(op)
    BY DEF Processed
  <1> QED BY <1>1, <1>2, <1>3 DEF Next, Work, Check, CommitOp, Broadcast, Arrive, ArriveUnheard, Tick,
                                 Handle, Collide, Raise, Die

\* The mirror is as far as the furthest activity, step by step.
LEMMA FurthestStep == TypeOK /\ Turns /\ StatusIsTheFurthest /\ [Next]_vars => StatusIsTheFurthest'
  <1> SUFFICES ASSUME TypeOK, Turns, StatusIsTheFurthest, [Next]_vars, Apart'
               PROVE  /\ \A op \in Ops : Processed(op)' # {} => Rank(Told(op)) <= Rank(mirror')
                      /\ mirror' # "none" => \E op \in Ops : Processed(op)' # {} /\ Told(op) = mirror'
    BY DEF StatusIsTheFurthest, Rank, Told
  <1>1. /\ Apart
        /\ \A op \in Ops : Processed(op) # {} => Rank(Told(op)) <= Rank(mirror)
        /\ mirror # "none" => \E op \in Ops : Processed(op) # {} /\ Told(op) = mirror
    BY ApartBefore DEF StatusIsTheFurthest
  <1>2. CASE \A w \in Sweeps : ~ CommitRow(w)
    BY <1>1, <1>2, OtherSteps
  <1>3. ASSUME NEW w \in Sweeps, CommitRow(w)
        PROVE  /\ \A op \in Ops : Processed(op)' # {} => Rank(Told(op)) <= Rank(mirror')
               /\ mirror' # "none" => \E op \in Ops : Processed(op)' # {} /\ Told(op) = mirror'
    <2> DEFINE o == Operation(w)
               v == Verdict(o, mirror)
    <2>1. o \in Ops /\ mirror \in MirrorStatuses /\ mirror' = StatusAfter(o, mirror)
      BY <1>1, <1>3, Committed DEF TypeOK
    <2>2. v \in {"processed", "skipped"}
      BY VerdictsFit
    <2>3. \A op \in Ops : Processed(op)' = IF v = "processed" /\ o = op
                                           THEN Processed(op) \cup {Row(w)} ELSE Processed(op)
      BY <1>1, <1>3, <2>2, Committed, ProcessedNow
    <2>4. /\ Rank(mirror) <= Rank(mirror')
          /\ v = "processed" => Rank(Told(o)) <= Rank(mirror')
          /\ mirror' # mirror => v = "processed" /\ Told(o) = mirror'
          /\ Rank(mirror) \in 0 .. 3 /\ Rank(mirror') \in 0 .. 3
      BY <2>1, Furthest
    <2>5. \A op \in Ops : Rank(Told(op)) \in 0 .. 3
      BY <2>1, Furthest
    <2> HIDE DEF o, v
    <2>6. ASSUME NEW op \in Ops, Processed(op)' # {} PROVE Rank(Told(op)) <= Rank(mirror')
      <3>1. CASE v = "processed" /\ o = op
        BY <3>1, <2>4
      <3>2. CASE ~ (v = "processed" /\ o = op)
        BY <3>2, <2>3, <2>4, <2>5, <2>6, <1>1
      <3> QED BY <3>1, <3>2
    <2>7. ASSUME mirror' # "none" PROVE \E op \in Ops : Processed(op)' # {} /\ Told(op) = mirror'
      <3>1. CASE mirror' = mirror
        BY <3>1, <2>3, <2>7, <1>1
      <3>2. CASE mirror' # mirror
        BY <3>2, <2>1, <2>3, <2>4
      <3> QED BY <3>1, <3>2
    <2> QED BY <2>6, <2>7
  <1> QED BY <1>2, <1>3

\* Fragments are counted as they are processed, step by step.
LEMMA FragmentsStep == TypeOK /\ Turns /\ FragmentsAreProcessed /\ [Next]_vars => FragmentsAreProcessed'
  <1> SUFFICES ASSUME TypeOK, Turns, FragmentsAreProcessed, [Next]_vars, Apart', NEW p \in Posts
               PROVE  fragments'[p] = Cardinality(Processed(p)')
    BY DEF FragmentsAreProcessed
  <1>1. Apart /\ fragments[p] = Cardinality(Processed(p)) /\ p \in Ops
    BY ApartBefore DEF FragmentsAreProcessed, Ops
  <1>2. CASE \A w \in Sweeps : ~ CommitRow(w)
    BY <1>1, <1>2, OtherSteps
  <1>3. ASSUME NEW w \in Sweeps, CommitRow(w) PROVE fragments'[p] = Cardinality(Processed(p)')
    <2> DEFINE o == Operation(w)
               v == Verdict(o, mirror)
    <2>1. v \in {"processed", "skipped"}
      BY VerdictsFit
    <2>2. /\ Row(w) \notin Processed(p)
          /\ Processed(p)' = IF v = "processed" /\ o = p THEN Processed(p) \cup {Row(w)} ELSE Processed(p)
      BY <1>1, <1>3, <2>1, Committed, ProcessedNow
    <2>3. /\ o \in Ops
          /\ fragments' = IF o.kind = "fragment" /\ v = "processed"
                          THEN [fragments EXCEPT ![o] = @ + 1] ELSE fragments
      BY <1>1, <1>3, Committed
    <2>4. fragments \in [Posts -> Nat] /\ p.kind = "fragment" /\ (o.kind = "fragment" => o \in Posts)
      BY <2>3, PostsAreFragments, <1>1 DEF TypeOK
    <2>5. Cardinality(Processed(p) \cup {Row(w)}) = Cardinality(Processed(p)) + 1
      BY <1>1, <2>2, ProcessedFinite, FS_AddElement
    <2> HIDE DEF o, v
    <2>6. CASE v = "processed" /\ o = p
      BY <2>6, <2>2, <2>3, <2>4, <2>5, <1>1
    <2>7. CASE ~ (v = "processed" /\ o = p)
      BY <2>7, <2>2, <2>3, <2>4, <1>1
    <2> QED BY <2>6, <2>7
  <1> QED BY <1>2, <1>3

\* At the start nothing is processed, and the mirror tells nothing.
LEMMA InvInit == Init => StatusIsTheFurthest /\ FragmentsAreProcessed /\ SkipsAreReorderings
  <1> SUFFICES ASSUME Init PROVE StatusIsTheFurthest /\ FragmentsAreProcessed /\ SkipsAreReorderings
    OBVIOUS
  <1>1. DOMAIN inbox = {} /\ mirror = "none" /\ fragments = [op \in Posts |-> 0]
    BY DEF Init
  <1>2. \A op \in Ops : Processed(op) = {}
    BY <1>1 DEF Processed
  <1>3. \A op \in Posts : op \in Ops
    BY DEF Ops
  <1> QED BY <1>1, <1>2, <1>3, FS_EmptySet DEF StatusIsTheFurthest, FragmentsAreProcessed, SkipsAreReorderings

\* What SkipsAreReorderings says of one activity.
Overtaken(i) == \A j \in 1 .. i : inbox[j].op.kind = "schedule" => inbox[j].status # "processed"
Frozen(i) ==
  /\ inbox[i].op.kind = "fragment"
  /\ \E j \in 1 .. i : inbox[j].op.kind = "completion" /\ inbox[j].status = "processed"

\* An activity that a sweep skips, at its turn.
LEMMA SkippedInTurn ==
  ASSUME TypeOK, Turns, StatusIsTheFurthest, Apart, NEW w \in Sweeps, CommitRow(w),
         NEW n, n = Row(w), inbox'[n].status = "skipped"
  PROVE  (Overtaken(n) \/ Frozen(n))'
  <1> DEFINE o == Operation(w)
  <1>1. /\ n \in DOMAIN inbox /\ n \in Pending /\ o \in Ops /\ inbox[n].op = o
        /\ \A i \in Pending : i = n \/ n < i
        /\ Verdict(o, mirror) \in {"processed", "skipped"}
        /\ inbox' = [inbox EXCEPT ![n].status = Verdict(o, mirror)]
    BY Committed, VerdictsFit
  <1>2. /\ DOMAIN inbox' = DOMAIN inbox
        /\ \A i \in DOMAIN inbox : inbox'[i].op = inbox[i].op
        /\ \A i \in DOMAIN inbox \ {n} : inbox'[i] = inbox[i]
        /\ inbox'[n].status = Verdict(o, mirror)
    BY <1>1, Marked
  <1>3. Verdict(o, mirror) = "skipped"
    BY <1>2
  <1>4. \A j \in 1 .. n : j \in DOMAIN inbox
    BY <1>1 DEF TypeOK
  <1> HIDE DEF o
  <1>5. CASE o.kind # "schedule" /\ mirror = "none"
    <2>1. ASSUME NEW j \in 1 .. n, inbox'[j].op.kind = "schedule" PROVE inbox'[j].status # "processed"
      <3> SUFFICES ASSUME inbox'[j].status = "processed" PROVE FALSE
        OBVIOUS
      <3>1. j \in DOMAIN inbox /\ j # n /\ inbox[j].op.kind = "schedule" /\ inbox[j].status = "processed"
        BY <1>2, <1>3, <1>4, <2>1
      <3>6. inbox[j] \in Activity
        BY <3>1 DEF TypeOK
      <3>2. inbox[j].op \in Ops
        BY <3>6 DEF Activity
      <3>3. j \in Processed(inbox[j].op)
        BY <3>1 DEF Processed
      <3>4. Rank(Told(inbox[j].op)) <= Rank(mirror)
        BY <3>2, <3>3 DEF StatusIsTheFurthest
      <3>5. Rank(Told(inbox[j].op)) = 1 /\ Rank(mirror) = 0
        BY <3>1, <1>5 DEF Told, Rank
      <3> QED BY <3>4, <3>5
    <2> QED BY <2>1 DEF Overtaken
  <1>6. CASE o.kind = "fragment" /\ mirror = "completed"
    <2>1. PICK p \in Ops : Processed(p) # {} /\ Told(p) = "completed"
      BY <1>6 DEF StatusIsTheFurthest
    <2>2. p.kind = "completion"
      BY <2>1, OpsAreOps DEF Told
    <2>3. PICK j \in Processed(p) : TRUE
      BY <2>1
    <2>4. j \in DOMAIN inbox /\ inbox[j].op = p /\ inbox[j].status = "processed" /\ j \notin Pending
      BY <2>3 DEF Processed, Pending
    <2>5. j < n
      <3>1. j \in Nat /\ n \in Nat
        BY <1>1, <2>4 DEF TypeOK
      <3>2. ~ (n <= j)
        BY <1>1, <2>4 DEF Turns, InTurn
      <3> QED BY <3>1, <3>2
    <2>6. j \in 1 .. n /\ j # n
      BY <2>4, <2>5, <1>1 DEF TypeOK
    <2>7. inbox'[j].op.kind = "completion" /\ inbox'[j].status = "processed" /\ inbox'[n].op.kind = "fragment"
      BY <1>1, <1>2, <1>6, <2>2, <2>4, <2>6
    <2> QED BY <2>6, <2>7 DEF Frozen
  <1> QED BY <1>3, <1>5, <1>6 DEF Verdict

\* A row is skipped where another came before it, step by step.
LEMMA SkipsStep ==
  TypeOK /\ Turns /\ StatusIsTheFurthest /\ SkipsAreReorderings /\ [Next]_vars => SkipsAreReorderings'
  <1> SUFFICES ASSUME TypeOK, Turns, StatusIsTheFurthest, SkipsAreReorderings, [Next]_vars, Apart',
                      NEW i \in DOMAIN inbox', inbox'[i].status = "skipped"
               PROVE  Overtaken(i)' \/ Frozen(i)'
    BY DEF SkipsAreReorderings, Overtaken, Frozen
  <1> USE DEF vars, originVars, mirrorVars, bounds
  <1>1. Apart /\ \A k \in DOMAIN inbox : inbox[k].status = "skipped" => Overtaken(k) \/ Frozen(k)
    BY ApartBefore DEF SkipsAreReorderings, Overtaken, Frozen
  <1>2. DOMAIN inbox = 1 .. Len(inbox) /\ Len(inbox) \in Nat
    BY DEF TypeOK
  <1>3. CASE inbox' = inbox
    BY <1>1, <1>3 DEF Overtaken, Frozen
  <1>4. ASSUME NEW op \in Ops, inbox' = Received(op) PROVE Overtaken(i)' \/ Frozen(i)'
    <2>1. i \in DOMAIN inbox /\ \A k \in DOMAIN inbox : inbox'[k] = inbox[k]
      BY <1>4, OneMore
    <2>2. \A j \in 1 .. i : j \in DOMAIN inbox
      BY <1>2, <2>1
    <2> QED BY <1>1, <2>1, <2>2 DEF Overtaken, Frozen
  <1>5. ASSUME NEW w \in Sweeps, Running(w), NEW v \in {"processed", "skipped", "errored"}, i # Row(w),
               inbox' = [inbox EXCEPT ![Row(w)].status = v]
        PROVE  Overtaken(i)' \/ Frozen(i)'
    <2> DEFINE n == Row(w)
    <2>1. n \in DOMAIN inbox /\ n \in Pending
      BY <1>1, <1>5, Rows, HeadIsOldest DEF Turns, Batches
    <2>2. /\ DOMAIN inbox' = DOMAIN inbox
          /\ \A k \in DOMAIN inbox : inbox'[k].op = inbox[k].op
          /\ \A k \in DOMAIN inbox \ {n} : inbox'[k] = inbox[k]
      BY <1>5, <2>1, Marked
    <2>3. i \in DOMAIN inbox /\ i \notin Pending /\ inbox[i].status = "skipped"
      BY <1>5, <2>2 DEF Pending
    <2>4. i < n
      <3>1. i \in Nat /\ n \in Nat
        BY <1>2, <2>1, <2>3
      <3>2. ~ (n <= i)
        BY <1>1, <2>1, <2>3 DEF Turns, InTurn
      <3> QED BY <3>1, <3>2
    <2>5. \A j \in 1 .. i : j \in DOMAIN inbox \ {n}
      BY <1>2, <2>1, <2>3, <2>4
    <2>6. Overtaken(i) \/ Frozen(i)
      BY <1>1, <2>3
    <2> HIDE DEF n
    <2> QED BY <2>2, <2>3, <2>5, <2>6 DEF Overtaken, Frozen
  <1>6. ASSUME NEW w \in Sweeps, CommitRow(w) PROVE Overtaken(i)' \/ Frozen(i)'
    <2>1. CASE i = Row(w)
      BY <1>1, <1>6, <2>1, SkippedInTurn
    <2>2. CASE i # Row(w)
      <3>1. Running(w) /\ inbox' = [inbox EXCEPT ![Row(w)].status = Verdict(Operation(w), sweep[w].seen)]
        BY <1>6 DEF CommitRow, Running
      <3>2. Verdict(Operation(w), sweep[w].seen) \in {"processed", "skipped", "errored"}
        BY VerdictsFit
      <3> QED BY <3>1, <3>2, <2>2, <1>5
    <2> QED BY <2>1, <2>2
  <1>7. ASSUME NEW w \in Sweeps, Raise(w) PROVE Overtaken(i)' \/ Frozen(i)'
    <2>1. Running(w) /\ inbox' = [inbox EXCEPT ![Row(w)].status = "errored"]
      BY <1>7 DEF Raise, Running
    <2>2. i # Row(w)
      BY <2>1, Rows, Marked
    <2> QED BY <2>1, <2>2, <1>5
  <1> QED BY <1>3, <1>4, <1>6, <1>7 DEF Next, Work, Check, CommitOp, Broadcast, Arrive, ArriveUnheard, Tick,
                                        Handle, Collide, Die

-----------------------------------------------------------------------------
\* The invariant holds throughout.
LEMMA Inductive == Spec => []Inv
  <1>1. Init => Inv
    BY TypeInit, TurnsInit, InvInit DEF Inv
  <1>2. Inv /\ [Next]_vars => Inv'
    BY TypeStep, TurnsStep, FurthestStep, FragmentsStep, SkipsStep DEF Inv
  <1> QED BY <1>1, <1>2, PTL DEF Spec

\* The mirror's status is the furthest it has processed (StatusIsTheFurthest), for any
\* number of fragments, copies and sweeps: _handle_ritual_update against reordering.
THEOREM MirrorIsTheFurthest == Spec => []StatusIsTheFurthest
  <1>1. Inv => StatusIsTheFurthest
    BY DEF Inv
  <1> QED BY <1>1, Inductive, PTL

\* A fragment is there once for each of its activities that was processed
\* (FragmentsAreProcessed): the one commit of process_pending.
THEOREM FragmentsAreCounted == Spec => []FragmentsAreProcessed
  <1>1. Inv => FragmentsAreProcessed
    BY DEF Inv
  <1> QED BY <1>1, Inductive, PTL

\* What arrives in order is never skipped (SkipsAreReorderings), however the inbox is
\* cut into batches: the ORDER BY of process_pending.
THEOREM OrderIsKept == Spec => []SkipsAreReorderings
  <1>1. Inv => SkipsAreReorderings
    BY DEF Inv
  <1> QED BY <1>1, Inductive, PTL
=============================================================================
