-------------------------- MODULE CaptureQueueProofs --------------------------
(***************************************************************************)
(* Safety of quick capture for every number of captures and drains.        *)
(*                                                                         *)
(* While no drain begins beside another, one drain at most runs, and the   *)
(* list in storage is what it was when that drain began: every capture of  *)
(* the list is posted already, still to post, or to be written back        *)
(* (Accounted), and what is written back fits the list.  For the bound on  *)
(* copies, Balanced sets each entry that was made or may yet arrive against *)
(* a lapse or the one post that a capture is not owed any more.            *)
(***************************************************************************)
EXTENDS CaptureQueue, SequenceTheorems, TLAPS

Distinct(s) == \A i, j \in DOMAIN s : s[i] = s[j] => i = j

\* What a drain that runs alone makes of the list.
Accounted(d) ==
  /\ Items(queue) \subseteq drain[d].drained \cup Carries(d)
  /\ Carries(d) \subseteq Items(queue)
  /\ Len(drain[d].todo) + Len(drain[d].remaining) <= Len(queue)
  /\ \A c \in drain[d].drained : posted[c] > 0
  /\ drain[d].at = "created" => posted[Item(d)] > 0
  /\ Distinct(drain[d].todo) /\ Distinct(drain[d].remaining)
  /\ Items(drain[d].todo) \cap Items(drain[d].remaining) = {}

Within == Items(queue) \subseteq 1 .. saved /\ \A d \in Drains : Carries(d) \subseteq 1 .. saved

Typed == TypeOK /\ Within

Orderly ==
  alone => /\ \A d, e \in Drains : Running(d) /\ Running(e) => d = e
           /\ \A d \in Drains : Running(d) => Accounted(d)
           /\ Distinct(queue)

\* A capture has a post to come: of its first save, of the list, or of the drain.
Owed(c) ==
  \/ c \notin 1 .. saved
  \/ Quiet /\ c \in Items(queue)
  \/ \E d \in Drains : /\ Running(d)
                       /\ \/ c \in Items(drain[d].remaining)
                          \/ c \in Items(drain[d].todo) /\ ~ (drain[d].at = "created" /\ c = Item(d))

Balance(c) == posted[c] + late[c] <= lapsed[c] + (IF Owed(c) THEN 0 ELSE 1)

Balanced == alone => \A c \in Captures : Balance(c)

Inv == Typed /\ Orderly /\ KeptOrPosted /\ Balanced

-----------------------------------------------------------------------------
(* Lists.                                                                  *)

\* A capture put at the end of a list is one of its items,
LEMMA AppendItems ==
  ASSUME NEW S, NEW s \in Seq(S), NEW x \in S
  PROVE  Append(s, x) \in Seq(S) /\ Items(Append(s, x)) = Items(s) \cup {x}
         /\ Len(Append(s, x)) = Len(s) + 1
<1> DEFINE t == Append(s, x)
<1>1. /\ Len(s) \in Nat /\ DOMAIN s = 1 .. Len(s)
      /\ t \in Seq(S) /\ Len(t) = Len(s) + 1 /\ DOMAIN t = 1 .. Len(s) + 1
      /\ \A i \in 1 .. Len(s) : t[i] = s[i]
      /\ t[Len(s) + 1] = x
  OBVIOUS
<1> HIDE DEF t
<1>2. \A i \in 1 .. Len(s) + 1 : i \in 1 .. Len(s) \/ i = Len(s) + 1
  BY <1>1
<1>3. Items(t) \subseteq Items(s) \cup {x}
  BY <1>1, <1>2 DEF Items
<1>4. Items(s) \cup {x} \subseteq Items(t)
  <2>1. Len(s) + 1 \in DOMAIN t /\ \A i \in 1 .. Len(s) : i \in DOMAIN t
    BY <1>1
  <2> QED BY <1>1, <2>1 DEF Items
<1> QED BY <1>1, <1>3, <1>4 DEF t

\* and the rest of a list has the others.
LEMMA TailItems ==
  ASSUME NEW S, NEW s \in Seq(S), s # <<>>
  PROVE  /\ Tail(s) \in Seq(S) /\ Head(s) \in S /\ Len(Tail(s)) = Len(s) - 1
         /\ Items(s) = {Head(s)} \cup Items(Tail(s))
         /\ Distinct(s) => Distinct(Tail(s)) /\ Head(s) \notin Items(Tail(s))
<1>1. Len(s) \in Nat /\ Len(s) > 0 /\ DOMAIN s = 1 .. Len(s)
  OBVIOUS
<1>2. /\ Tail(s) \in Seq(S) /\ Len(Tail(s)) = Len(s) - 1 /\ DOMAIN Tail(s) = 1 .. Len(s) - 1
      /\ \A i \in 1 .. Len(s) - 1 : Tail(s)[i] = s[i + 1]
  BY <1>1
<1>3. Head(s) = s[1] /\ s[1] \in S
  BY <1>1
<1>4. Items(s) = {Head(s)} \cup Items(Tail(s))
  <2>1. \A i \in 1 .. Len(s) : i = 1 \/ (i - 1 \in 1 .. Len(s) - 1 /\ s[i] = Tail(s)[i - 1])
    <3> SUFFICES ASSUME NEW i \in 1 .. Len(s), i # 1
                 PROVE  i - 1 \in 1 .. Len(s) - 1 /\ s[i] = Tail(s)[i - 1]
      OBVIOUS
    <3>1. i - 1 \in 1 .. Len(s) - 1 /\ (i - 1) + 1 = i
      BY <1>1
    <3> QED BY <1>2, <3>1
  <2>2. Items(s) \subseteq {Head(s)} \cup Items(Tail(s))
    <3> SUFFICES ASSUME NEW i \in DOMAIN s PROVE s[i] \in {Head(s)} \cup Items(Tail(s))
      BY DEF Items
    <3>1. CASE i = 1
      BY <1>3, <3>1
    <3>2. CASE i # 1
      BY <1>1, <1>2, <2>1, <3>2 DEF Items
    <3> QED BY <3>1, <3>2
  <2>3. 1 \in DOMAIN s /\ \A i \in 1 .. Len(s) - 1 : i + 1 \in DOMAIN s
    BY <1>1
  <2>4. {Head(s)} \cup Items(Tail(s)) \subseteq Items(s)
    BY <1>1, <1>2, <1>3, <2>3 DEF Items
  <2> QED BY <2>2, <2>4
<1>5. Distinct(s) => Distinct(Tail(s)) /\ Head(s) \notin Items(Tail(s))
  <2> SUFFICES ASSUME Distinct(s) PROVE Distinct(Tail(s)) /\ Head(s) \notin Items(Tail(s))
    OBVIOUS
  <2>1. \A i, j \in 1 .. Len(s) : s[i] = s[j] => i = j
    BY <1>1 DEF Distinct
  <2>2. Distinct(Tail(s))
    BY <1>1, <1>2, <2>1 DEF Distinct
  <2>3. Head(s) \notin Items(Tail(s))
    BY <1>1, <1>2, <1>3, <2>1 DEF Items
  <2> QED BY <2>2, <2>3
<1> QED BY <1>2, <1>3, <1>4, <1>5

\* A capture that was not in the list does not come twice in it.
LEMMA AppendDistinct ==
  ASSUME NEW S, NEW s \in Seq(S), NEW x \in S, x \notin Items(s), Distinct(s)
  PROVE  Distinct(Append(s, x))
<1> DEFINE t == Append(s, x)
<1>1. /\ Len(s) \in Nat /\ DOMAIN s = 1 .. Len(s) /\ DOMAIN t = 1 .. Len(s) + 1
      /\ \A i \in 1 .. Len(s) : t[i] = s[i]
      /\ t[Len(s) + 1] = x
  OBVIOUS
<1>2. \A i \in 1 .. Len(s) : t[i] \in Items(s)
  BY <1>1 DEF Items
<1> HIDE DEF t
<1>3. \A i \in 1 .. Len(s) : t[i] # t[Len(s) + 1]
  BY <1>1, <1>2
<1>4. \A i, j \in 1 .. Len(s) : t[i] = t[j] => i = j
  BY <1>1 DEF Distinct
<1>5. \A i \in DOMAIN t : i \in 1 .. Len(s) \/ i = Len(s) + 1
  BY <1>1
<1>6. Distinct(t)
  BY <1>3, <1>4, <1>5 DEF Distinct
<1> QED BY <1>6 DEF t

\* MAX_QUEUE cuts the oldest; a list that is short enough stays.
LEMMA TrimmedItems ==
  ASSUME NEW S, NEW s \in Seq(S)
  PROVE  /\ Trimmed(s) \in Seq(S) /\ Len(Trimmed(s)) <= MaxQueue
         /\ Items(Trimmed(s)) \subseteq Items(s)
         /\ Distinct(s) => Distinct(Trimmed(s))
         /\ Len(s) <= MaxQueue => Trimmed(s) = s
<1>1. CASE Len(s) <= MaxQueue
  BY <1>1 DEF Trimmed
<1>2. CASE ~ (Len(s) <= MaxQueue)
  <2> DEFINE m == Len(s) - MaxQueue
             t == SubSeq(s, m + 1, Len(s))
  <2>1. Len(s) \in Nat /\ MaxQueue \in Nat /\ m \in Nat /\ DOMAIN s = 1 .. Len(s)
    BY <1>2, BoundsAssumption
  <2>2. t \in Seq(S) /\ Len(t) = MaxQueue /\ \A i \in 1 .. MaxQueue : t[i] = s[m + i] /\ m + i \in 1 .. Len(s)
    BY SMTT(20), <1>2, <2>1
  <2>3. DOMAIN t = 1 .. MaxQueue
    BY <2>2
  <2>4. Trimmed(s) = t
    BY <1>2 DEF Trimmed
  <2> HIDE DEF t, m
  <2>5. Items(t) \subseteq Items(s)
    BY <2>1, <2>2, <2>3 DEF Items
  <2>6. Distinct(s) => Distinct(t)
    BY SMTT(20), <2>1, <2>2, <2>3 DEF Distinct
  <2> QED BY <1>2, <2>1, <2>2, <2>4, <2>5, <2>6
<1> QED BY <1>1, <1>2

-----------------------------------------------------------------------------
(* The types.                                                              *)

\* A drain before it runs holds nothing.
LEMMA IdleType == Idle \in DrainType /\ Items(Idle.todo) = {} /\ Items(Idle.remaining) = {}
BY DEF Idle, DrainType, Items

\* drainQueue begins with the list it is given.
LEMMA BegunType ==
  ASSUME Typed, NEW d \in Drains, NEW q \in Seq(Captures),
         drain' = Begun(d, q)
  PROVE  /\ drain' \in [Drains -> DrainType]
         /\ \A e \in Drains : Running(e)' <=> drain'[e].todo # <<>>
         /\ \A e \in Drains : e # d => drain'[e] = drain[e]
         /\ drain'[d] = IF q = <<>> THEN Idle ELSE [Idle EXCEPT !.todo = q, !.at = "calling"]
         /\ Carries(d)' = Items(q)
<1>1. [Idle EXCEPT !.todo = q, !.at = "calling"] \in DrainType
  BY IdleType DEF DrainType
<1>2. drain' = [drain EXCEPT ![d] = IF q = <<>> THEN Idle ELSE [Idle EXCEPT !.todo = q, !.at = "calling"]]
  BY DEF Begun
<1>3. drain' \in [Drains -> DrainType] /\ \A e \in Drains : e # d => drain'[e] = drain[e]
  BY <1>1, <1>2, IdleType DEF Typed, TypeOK
<1>4. drain'[d] = IF q = <<>> THEN Idle ELSE [Idle EXCEPT !.todo = q, !.at = "calling"]
  BY <1>2 DEF Typed, TypeOK
<1>5. Running(d)' <=> drain'[d].todo # <<>>
  BY <1>4 DEF Running, Idle
<1>6. \A e \in Drains : Running(e)' <=> drain'[e].todo # <<>>
  BY <1>3, <1>5 DEF Typed, TypeOK, Running
<1>7. drain'[d].todo = q /\ drain'[d].remaining = <<>>
  BY <1>4 DEF Idle
<1>8. Carries(d)' = Items(q)
  BY <1>7 DEF Carries, Items
<1> QED BY <1>3, <1>4, <1>6, <1>8

\* What is left of a drain after an item, with the item written back or not.
Back(d, ok) == IF ok THEN drain[d].remaining ELSE Append(drain[d].remaining, Item(d))

\* A drain that runs has a capture in its hands.
LEMMA RunningItem ==
  ASSUME Typed, NEW d \in Drains, Running(d)
  PROVE  /\ drain[d] \in DrainType /\ drain[d].todo # <<>> /\ Item(d) \in Captures
         /\ Tail(drain[d].todo) \in Seq(Captures)
         /\ Items(drain[d].todo) = {Item(d)} \cup Items(Tail(drain[d].todo))
         /\ Distinct(drain[d].todo) => /\ Distinct(Tail(drain[d].todo))
                                       /\ Item(d) \notin Items(Tail(drain[d].todo))
         /\ Len(Tail(drain[d].todo)) = Len(drain[d].todo) - 1
<1>1. drain[d] \in DrainType /\ drain[d].todo # <<>> /\ drain[d].todo \in Seq(Captures)
  BY DEF Typed, TypeOK, DrainType
<1> QED BY <1>1, TailItems DEF Item

\* What a drain puts back is captures it held.
LEMMA BackType ==
  ASSUME Typed, NEW d \in Drains, Running(d), NEW ok \in BOOLEAN
  PROVE  /\ Back(d, ok) \in Seq(Captures)
         /\ Items(Back(d, ok)) \subseteq Items(drain[d].remaining) \cup {Item(d)}
         /\ Items(drain[d].remaining) \subseteq Items(Back(d, ok))
         /\ ~ ok => Item(d) \in Items(Back(d, ok))
         /\ ok => Back(d, ok) = drain[d].remaining
         /\ Len(Back(d, ok)) <= Len(drain[d].remaining) + 1
<1>1. drain[d].remaining \in Seq(Captures) /\ Item(d) \in Captures
  BY RunningItem DEF DrainType
<1> QED BY <1>1, AppendItems DEF Back

\* A capture dealt with leaves lists of captures.
LEMMA PassedType ==
  ASSUME Typed, NEW d \in Drains, Running(d), NEW ok \in BOOLEAN, Passed(d, ok)
  PROVE  /\ queue' \in Seq(Captures) /\ Len(queue') <= MaxQueue
         /\ drain' \in [Drains -> DrainType]
         /\ \A e \in Drains : Running(e)' <=> drain'[e].todo # <<>>
         /\ Items(queue)' \subseteq 1 .. saved
         /\ \A e \in Drains : Carries(e)' \subseteq 1 .. saved
<1> DEFINE rest == Tail(drain[d].todo)
<1>1. Items(Back(d, ok)) \subseteq 1 .. saved /\ Items(rest) \subseteq 1 .. saved
  BY RunningItem, BackType DEF Typed, Within, Carries
<1>2. CASE rest = <<>>
  <2>1. queue' = Trimmed(Back(d, ok)) /\ drain' = [drain EXCEPT ![d] = Idle]
    BY <1>2 DEF Passed, Back
  <2>2. Back(d, ok) \in Seq(Captures)
    BY BackType
  <2>3. queue' \in Seq(Captures) /\ Len(queue') <= MaxQueue /\ Items(queue') \subseteq 1 .. saved
    BY <1>1, <2>1, <2>2, TrimmedItems
  <2>4. /\ drain' \in [Drains -> DrainType]
        /\ drain'[d] = Idle /\ \A e \in Drains : e # d => drain'[e] = drain[e]
    BY <2>1, IdleType DEF Typed, TypeOK
  <2>5. \A e \in Drains : Running(e)' <=> drain'[e].todo # <<>>
    <3>1. Running(d)' <=> drain'[d].todo # <<>>
      BY <2>4 DEF Running, Idle
    <3>2. \A e \in Drains : e # d => (Running(e)' <=> drain'[e].todo # <<>>)
      BY <2>4 DEF Typed, TypeOK, Running
    <3> QED BY <3>1, <3>2
  <2>6. \A e \in Drains : Carries(e)' \subseteq 1 .. saved
    BY <2>4, IdleType DEF Typed, Within, Carries
  <2> QED BY <2>3, <2>4, <2>5, <2>6 DEF Items
<1>3. CASE rest # <<>>
  <2> DEFINE new == [drain[d] EXCEPT !.todo = rest, !.remaining = Back(d, ok), !.at = "calling",
                                     !.drained = IF ok THEN @ \cup {Item(d)} ELSE @]
  <2>1. queue' = queue
    BY <1>3 DEF Passed
  <2>2. drain' = [drain EXCEPT ![d].todo = rest, ![d].remaining = Back(d, ok), ![d].at = "calling",
                               ![d].drained = IF ok THEN @ \cup {Item(d)} ELSE @]
    BY <1>3 DEF Passed, Back
  <2>3. drain' = [drain EXCEPT ![d] = new]
    BY <2>2 DEF Typed, TypeOK, DrainType
  <2>4. new \in DrainType
    <3>1. drain[d] \in DrainType /\ rest \in Seq(Captures) /\ Item(d) \in Captures
      BY RunningItem
    <3>2. Back(d, ok) \in Seq(Captures)
      BY BackType
    <3>3. (IF ok THEN drain[d].drained \cup {Item(d)} ELSE drain[d].drained) \in SUBSET Captures
      BY <3>1 DEF DrainType
    <3> QED BY <3>1, <3>2, <3>3 DEF DrainType
  <2>5. new.todo = rest /\ new.remaining = Back(d, ok) /\ new.at = "calling"
    BY RunningItem DEF DrainType
  <2> HIDE DEF new
  <2>6. /\ drain' \in [Drains -> DrainType]
        /\ drain'[d] = new /\ \A e \in Drains : e # d => drain'[e] = drain[e]
    BY <2>3, <2>4 DEF Typed, TypeOK
  <2>7. \A e \in Drains : Running(e)' <=> drain'[e].todo # <<>>
    BY <1>3, <2>5, <2>6 DEF Typed, TypeOK, Running
  <2>8. \A e \in Drains : Carries(e)' \subseteq 1 .. saved
    BY <1>1, <2>5, <2>6 DEF Typed, Within, Carries
  <2> QED BY <2>1, <2>6, <2>7, <2>8 DEF Typed, TypeOK, Within
<1> QED BY <1>2, <1>3
\* An empty queue.
LEMMA TypedInit == Init => Typed
<1> SUFFICES ASSUME Init PROVE Typed OBVIOUS
<1>1. queue = <<>> /\ <<>> \in Seq(Captures) /\ Len(queue) = 0 /\ 0 <= MaxQueue
  BY BoundsAssumption DEF Init
<1>2. Items(queue) = {} /\ \A d \in Drains : Carries(d) = {}
  <2>1. Items(queue) = {}
    BY <1>1 DEF Items
  <2> QED BY <2>1, IdleType DEF Init, Carries
<1>3. \A d \in Drains : Running(d) <=> drain[d].todo # <<>>
  BY DEF Init, Running, Idle
<1>4. saved \in 0 .. MaxCaptures
  BY BoundsAssumption DEF Init
<1>5. TypeOK
  BY <1>1, <1>3, <1>4, IdleType DEF Init, TypeOK
<1> QED BY <1>2, <1>5 DEF Typed, Within

\* The new list: the longer one, or the old where storage refuses.
LEMMA SavedType ==
  ASSUME Typed, saved < MaxCaptures, NEW q \in {Trimmed(Append(queue, saved + 1)), queue}
  PROVE  /\ q \in Seq(Captures) /\ Len(q) <= MaxQueue
         /\ Items(q) \subseteq Items(queue) \cup {saved + 1}
         /\ Distinct(queue) => Distinct(q)
<1> DEFINE longer == Append(queue, saved + 1)
<1>1. saved + 1 \in Captures /\ saved + 1 \notin Items(queue) /\ queue \in Seq(Captures)
  BY BoundsAssumption DEF Typed, TypeOK, Within, Captures
<1>2. longer \in Seq(Captures) /\ Items(longer) = Items(queue) \cup {saved + 1}
  BY <1>1, AppendItems
<1>3. Distinct(queue) => Distinct(longer)
  BY <1>1, AppendDistinct
<1>4. /\ Trimmed(longer) \in Seq(Captures) /\ Len(Trimmed(longer)) <= MaxQueue
      /\ Items(Trimmed(longer)) \subseteq Items(longer)
      /\ Distinct(longer) => Distinct(Trimmed(longer))
  BY <1>2, TrimmedItems
<1>5. CASE q = queue
  BY <1>1, <1>5 DEF Typed, TypeOK
<1>6. CASE q = Trimmed(longer)
  BY <1>2, <1>3, <1>4, <1>6
<1> QED BY <1>5, <1>6

\* Lists and counters, action by action.
LEMMA TypedNext == Typed /\ [Next]_vars => Typed'
<1> SUFFICES ASSUME Typed, [Next]_vars PROVE Typed' OBVIOUS
<1>1. ASSUME NEW d \in Drains, Mount(d) PROVE Typed'
  <2>1. drain' = Begun(d, queue) /\ UNCHANGED <<queue, saved, dropped, posted, late, lapsed>>
        /\ alone' \in BOOLEAN /\ queue \in Seq(Captures)
    BY <1>1 DEF Mount, Typed, TypeOK
  <2>2. TypeOK'
    BY <2>1, BegunType DEF Typed, TypeOK
  <2>3. Within'
    <3>1. Carries(d)' = Items(queue) /\ \A e \in Drains : e # d => Carries(e)' = Carries(e)
      BY <2>1, BegunType DEF Carries
    <3> QED BY <2>1, <3>1 DEF Typed, Within
  <2> QED BY <2>2, <2>3 DEF Typed
<1>2. ASSUME NEW d \in Drains, Save(d) PROVE Typed'
  <2>1. PICK q \in {Trimmed(Append(queue, saved + 1)), queue} :
          /\ saved < MaxCaptures /\ saved' = saved + 1 /\ queue' = q /\ drain' = Begun(d, q)
          /\ dropped' = dropped \cup ((Items(queue) \cup {saved'}) \ Items(q))
          /\ UNCHANGED <<posted, late, lapsed>>
    BY <1>2 DEF Save
  <2>2. q \in Seq(Captures) /\ Len(q) <= MaxQueue /\ Items(q) \subseteq Items(queue) \cup {saved + 1}
    BY <2>1, SavedType
  <2>3. alone' \in BOOLEAN
    BY <1>2 DEF Save, Typed, TypeOK
  <2>4. saved' \in 0 .. MaxCaptures /\ 1 .. saved \subseteq 1 .. saved' /\ saved' \in 1 .. saved'
    BY <2>1, BoundsAssumption DEF Typed, TypeOK
  <2>5. Items(q) \subseteq 1 .. saved' /\ Items(queue) \subseteq 1 .. saved'
    BY <2>1, <2>2, <2>4 DEF Typed, Within
  <2>6. dropped' \subseteq 1 .. saved'
    BY <2>1, <2>4, <2>5 DEF Typed, TypeOK
  <2>7. TypeOK'
    BY <2>1, <2>2, <2>3, <2>4, <2>6, BegunType DEF Typed, TypeOK
  <2>8. \A e \in Drains : Carries(e)' \subseteq 1 .. saved'
    <3>1. Carries(d)' = Items(q) /\ \A e \in Drains : e # d => Carries(e)' = Carries(e)
      BY <2>1, <2>2, BegunType DEF Carries
    <3> QED BY <2>4, <2>5, <3>1 DEF Typed, Within
  <2>9. Within'
    BY <2>1, <2>5, <2>8 DEF Within, Items
  <2> QED BY <2>7, <2>9 DEF Typed
<1>3. ASSUME NEW d \in Drains, Create(d) PROVE Typed'
  <2>1. Running(d) /\ Item(d) \in Captures
    BY <1>3, RunningItem DEF Create, Running
  <2>2. posted' \in [Captures -> Nat]
    BY <1>3, <2>1 DEF Create, Typed, TypeOK
  <2>3. drain' \in [Drains -> DrainType]
    BY <1>3 DEF Create, Typed, TypeOK, DrainType
  <2>4. /\ \A e \in Drains : drain'[e].todo = drain[e].todo /\ drain'[e].remaining = drain[e].remaining
        /\ \A e \in Drains : e # d => drain'[e] = drain[e]
        /\ drain'[d].at = "created"
    BY <1>3 DEF Create, Typed, TypeOK, DrainType
  <2>5. \A e \in Drains : Running(e)' <=> drain'[e].todo # <<>>
    BY <2>1, <2>4 DEF Running, Typed, TypeOK
  <2>6. TypeOK'
    BY <1>3, <2>2, <2>3, <2>5 DEF Create, Typed, TypeOK
  <2>7. Within'
    BY <1>3, <2>4 DEF Create, Typed, Within, Carries
  <2> QED BY <2>6, <2>7 DEF Typed
<1>4. ASSUME NEW d \in Drains, Succeed(d) \/ Fail(d) \/ TimeOut(d) PROVE Typed'
  <2>1. Running(d) /\ (Passed(d, TRUE) \/ Passed(d, FALSE)) /\ UNCHANGED <<saved, dropped, posted, alone>>
    BY <1>4 DEF Succeed, Fail, TimeOut, Running
  <2>2. late' \in [Captures -> Nat] /\ lapsed' \in [Captures -> Nat]
    <3>1. Item(d) \in Captures /\ late \in [Captures -> Nat] /\ lapsed \in [Captures -> Nat]
      BY <2>1, RunningItem DEF Typed, TypeOK
    <3>2. CASE Succeed(d) \/ Fail(d)
      BY <3>1, <3>2 DEF Succeed, Fail
    <3>3. CASE TimeOut(d)
      BY <3>1, <3>3 DEF TimeOut, Unheard
    <3> QED BY <1>4, <3>2, <3>3
  <2>3. /\ queue' \in Seq(Captures) /\ Len(queue') <= MaxQueue
        /\ drain' \in [Drains -> DrainType]
        /\ \A e \in Drains : Running(e)' <=> drain'[e].todo # <<>>
        /\ Items(queue)' \subseteq 1 .. saved
        /\ \A e \in Drains : Carries(e)' \subseteq 1 .. saved
    BY <2>1, PassedType
  <2> QED BY <2>1, <2>2, <2>3 DEF Typed, TypeOK, Within
<1>5. ASSUME NEW d \in Drains, ClosePage(d) PROVE Typed'
  <2>1. /\ Running(d) /\ drain' = [drain EXCEPT ![d] = Idle]
        /\ UNCHANGED <<queue, saved, dropped, posted, alone>> /\ late' = Unheard(d)
        /\ lapsed' \in [Captures -> Nat]
    BY <1>5 DEF ClosePage, Typed, TypeOK
  <2>2. late' \in [Captures -> Nat]
    BY <2>1, RunningItem DEF Unheard, Typed, TypeOK
  <2>3. /\ drain' \in [Drains -> DrainType]
        /\ drain'[d] = Idle /\ \A e \in Drains : e # d => drain'[e] = drain[e]
    BY <2>1, IdleType DEF Typed, TypeOK
  <2>4. Running(d)' <=> drain'[d].todo # <<>>
    BY <2>3 DEF Running, Idle
  <2>5. \A e \in Drains : Running(e)' <=> drain'[e].todo # <<>>
    BY <2>3, <2>4 DEF Running, Typed, TypeOK
  <2>6. Carries(d)' = {} /\ \A e \in Drains : e # d => Carries(e)' = Carries(e)
    BY <2>3, IdleType DEF Carries
  <2> QED BY <2>1, <2>2, <2>3, <2>5, <2>6 DEF Typed, TypeOK, Within
<1>6. ASSUME NEW c \in Captures, Arrive(c) PROVE Typed'
  BY SMTT(20), <1>6 DEF Arrive, Typed, TypeOK, Within, Carries, Running
<1>7. CASE UNCHANGED vars
  BY <1>7 DEF vars, Typed, TypeOK, Within, Carries, Running
<1> QED BY <1>1, <1>2, <1>3, <1>4, <1>5, <1>6, <1>7 DEF Next, Step
-----------------------------------------------------------------------------
(* A drain that runs alone.                                                *)

\* A lone drain deals with its capture,
LEMMA PassedAlone ==
  ASSUME Inv, alone, NEW d \in Drains, Running(d), NEW ok \in BOOLEAN, Passed(d, ok),
         ok => posted[Item(d)] > 0, UNCHANGED <<saved, dropped, posted, alone>>
  PROVE  /\ Orderly' /\ KeptOrPosted'
         /\ \A c \in Captures : Owed(c)' => Owed(c) \/ (c = Item(d) /\ ~ ok)
<1> DEFINE rest == Tail(drain[d].todo)
           back == Back(d, ok)
<1>1. /\ Typed /\ Accounted(d) /\ KeptOrPosted
      /\ \A e \in Drains : Running(e) => e = d
  BY DEF Inv, Orderly
<1>2. /\ drain[d] \in DrainType /\ rest \in Seq(Captures) /\ Item(d) \in Captures
      /\ Items(drain[d].todo) = {Item(d)} \cup Items(rest)
      /\ Distinct(rest) /\ Item(d) \notin Items(rest)
      /\ Len(rest) = Len(drain[d].todo) - 1
  BY <1>1, RunningItem DEF Accounted
<1>3. /\ back \in Seq(Captures)
      /\ Items(back) \subseteq Items(drain[d].remaining) \cup {Item(d)}
      /\ Items(drain[d].remaining) \subseteq Items(back)
      /\ ~ ok => Item(d) \in Items(back)
      /\ ok => back = drain[d].remaining
      /\ Len(back) <= Len(drain[d].remaining) + 1
  BY <1>1, BackType
<1>4. Distinct(back)
  <2>1. Item(d) \notin Items(drain[d].remaining) /\ Distinct(drain[d].remaining)
    BY <1>1, <1>2 DEF Accounted
  <2> QED BY <1>2, <2>1, AppendDistinct DEF Back, DrainType
<1>5. Items(queue) \subseteq drain[d].drained \cup {Item(d)} \cup Items(rest) \cup Items(drain[d].remaining)
  BY <1>1, <1>2 DEF Accounted, Carries
<1>6. Len(rest) + Len(back) <= Len(queue) /\ Len(queue) <= MaxQueue
  <2>1. /\ Len(drain[d].todo) \in Nat /\ Len(drain[d].remaining) \in Nat /\ Len(back) \in Nat
        /\ Len(queue) \in Nat /\ Len(queue) <= MaxQueue
    BY <1>1, <1>2, <1>3 DEF DrainType, Typed, TypeOK
  <2>2. Len(drain[d].todo) + Len(drain[d].remaining) <= Len(queue)
    BY <1>1 DEF Accounted
  <2>3. Len(rest) = Len(drain[d].todo) - 1
    BY <1>2
  <2>4. Len(back) <= Len(drain[d].remaining) + 1
    BY <1>3
  <2> HIDE DEF rest, back
  <2>5. \A a, b, m, n \in Nat : a + b <= n /\ m <= b + 1 => (a - 1) + m <= n
    OBVIOUS
  <2>6. (Len(drain[d].todo) - 1) + Len(back) <= Len(queue)
    BY <2>1, <2>2, <2>4, <2>5
  <2> QED BY <2>1, <2>3, <2>6
<1>7. CASE rest = <<>>
  <2>1. Items(rest) = {} /\ Len(rest) = 0
    <3> HIDE DEF rest
    <3> QED BY <1>7 DEF Items
  <2>2. queue' = back /\ drain' = [drain EXCEPT ![d] = Idle]
    <3>1. Len(back) <= MaxQueue
      BY <1>3, <1>6, <2>1, BoundsAssumption DEF Typed, TypeOK
    <3>2. queue' = Trimmed(back) /\ drain' = [drain EXCEPT ![d] = Idle]
      BY <1>7 DEF Passed, Back
    <3> QED BY <1>3, <3>1, <3>2, TrimmedItems
  <2>3. \A e \in Drains : ~ Running(e)'
    BY <1>1, <2>2 DEF Running, Idle, Typed, TypeOK
  <2>4. Orderly'
    BY <1>4, <2>2, <2>3 DEF Orderly
  <2>5. KeptOrPosted'
    BY <1>1, <1>3, <1>5, <2>1, <2>2 DEF KeptOrPosted, Accounted
  <2>6. \A c \in Captures : Owed(c)' => Owed(c) \/ (c = Item(d) /\ ~ ok)
    BY <1>3, <2>2, <2>3 DEF Owed
  <2> QED BY <2>4, <2>5, <2>6
<1>8. CASE rest # <<>>
  <2>1. queue' = queue
    BY <1>8 DEF Passed
  <2>2. /\ drain'[d].todo = rest /\ drain'[d].remaining = back /\ drain'[d].at = "calling"
        /\ drain'[d].drained = IF ok THEN drain[d].drained \cup {Item(d)} ELSE drain[d].drained
        /\ \A e \in Drains : e # d => drain'[e] = drain[e]
    <3>1. drain' = [drain EXCEPT ![d].todo = rest, ![d].remaining = back, ![d].at = "calling",
                                 ![d].drained = IF ok THEN @ \cup {Item(d)} ELSE @]
      BY <1>8 DEF Passed, Back
    <3> HIDE DEF rest, back
    <3> QED BY <1>1, <3>1 DEF Typed, TypeOK, DrainType
  <2> HIDE DEF rest, back
  <2>3. Running(d)' /\ \A e \in Drains : Running(e)' => e = d
    BY <1>1, <2>2 DEF Running
  <2>4. Accounted(d)'
    <3>1. Items(queue)' \subseteq drain'[d].drained \cup Carries(d)'
      BY <1>3, <1>5, <2>1, <2>2 DEF Carries
    <3>2. Carries(d)' \subseteq Items(queue)'
      BY <1>1, <1>2, <1>3, <2>1, <2>2 DEF Accounted, Carries
    <3>3. \A c \in drain'[d].drained : posted'[c] > 0
      BY <1>1, <2>2 DEF Accounted
    <3>4. Items(rest) \cap Items(back) = {}
      BY <1>1, <1>2, <1>3 DEF Accounted
    <3> QED BY <1>2, <1>4, <1>6, <2>1, <2>2, <3>1, <3>2, <3>3, <3>4 DEF Accounted
  <2>5. Orderly'
    BY <2>1, <2>3, <2>4 DEF Inv, Orderly
  <2>6. KeptOrPosted'
    BY <1>1, <2>1 DEF KeptOrPosted
  <2>7. ASSUME NEW c \in Captures, Owed(c)', ~ (c = Item(d) /\ ~ ok) PROVE Owed(c)
    <3>1. CASE c \notin 1 .. saved
      BY <3>1 DEF Owed
    <3>2. CASE c \in 1 .. saved
      <4>1. c \in Items(back) \/ c \in Items(rest)
        BY <2>2, <2>3, <2>7, <3>2 DEF Owed, Quiet
      <4>2. c \in Items(drain[d].remaining) \/ (c \in Items(drain[d].todo) /\ c # Item(d))
        BY <1>2, <1>3, <2>7, <4>1
      <4> QED BY <4>2 DEF Owed
    <3> QED BY <3>1, <3>2
  <2> QED BY <2>5, <2>6, <2>7
<1> QED BY <1>7, <1>8

\* and begins on the whole queue.
LEMMA BegunAlone ==
  ASSUME Inv, alone, Quiet, NEW d \in Drains, NEW q \in Seq(Captures), Distinct(q),
         queue' = q, drain' = Begun(d, q), UNCHANGED posted
  PROVE  /\ Orderly'
         /\ \A c \in Captures : Owed(c)' => c \notin 1 .. saved' \/ c \in Items(q)
<1>1. /\ \A e \in Drains : e # d => drain'[e] = drain[e]
      /\ drain'[d] = IF q = <<>> THEN Idle ELSE [Idle EXCEPT !.todo = q, !.at = "calling"]
      /\ Carries(d)' = Items(q)
  BY BegunType DEF Inv
<1>2. \A e \in Drains : Running(e)' => e = d
  BY <1>1 DEF Quiet, Running
<1>3. /\ drain'[d].remaining = <<>> /\ drain'[d].drained = {} /\ drain'[d].at # "created"
      /\ drain'[d].todo = q
  BY <1>1 DEF Idle
<1>4. Items(<<>>) = {} /\ Distinct(<<>>) /\ Len(<<>>) = 0 /\ Len(q) \in Nat
  BY DEF Items, Distinct
<1>5. Accounted(d)'
  <2>1. Items(queue') = Carries(d)'
    BY <1>1
  <2>2. Len(drain'[d].todo) + Len(drain'[d].remaining) <= Len(queue')
    BY <1>3, <1>4
  <2>3. Items(drain'[d].remaining) = {} /\ Distinct(drain'[d].todo) /\ Distinct(drain'[d].remaining)
    BY <1>3, <1>4
  <2> QED BY <1>3, <2>1, <2>2, <2>3 DEF Accounted, Items
<1>6. Orderly'
  BY <1>2, <1>5 DEF Orderly
<1>7. \A c \in Captures : Owed(c)' => c \notin 1 .. saved' \/ c \in Items(q)
  BY <1>2, <1>3, <1>4 DEF Owed
<1> QED BY <1>6, <1>7
-----------------------------------------------------------------------------
(* Every step.                                                             *)

\* Where nobody's post becomes owed again, more lapses keep the balance.
LEMMA BalanceStep ==
  ASSUME Inv, Typed', NEW c \in Captures, alone,
         posted'[c] + late'[c] + lapsed[c] <= posted[c] + late[c] + lapsed'[c],
         Owed(c)' => Owed(c)
  PROVE  Balance(c)'
<1>1. Balance(c)
  BY DEF Inv, Balanced
<1>2. /\ posted[c] \in Nat /\ late[c] \in Nat /\ lapsed[c] \in Nat
      /\ posted'[c] \in Nat /\ late'[c] \in Nat /\ lapsed'[c] \in Nat
  BY DEF Inv, Typed, TypeOK
<1> QED BY <1>1, <1>2 DEF Balance

\* Order, custody and balance, action by action.
LEMMA SafetyNext == Inv /\ [Next]_vars => Orderly' /\ KeptOrPosted' /\ Balanced'
<1> SUFFICES ASSUME Inv, [Next]_vars PROVE Orderly' /\ KeptOrPosted' /\ Balanced' OBVIOUS
<1>1. Typed /\ Typed'
  BY TypedNext DEF Inv
<1>2. CASE ~ alone'
  BY <1>2 DEF Orderly, KeptOrPosted, Balanced
<1>3. alone' => alone
  BY <1>1 DEF Next, Mount, Save, Step, Create, Succeed, Fail, TimeOut, ClosePage, Arrive, vars
<1>4. ASSUME alone, NEW d \in Drains, Mount(d), alone' PROVE Orderly' /\ KeptOrPosted' /\ Balanced'
  <2>1. /\ Quiet /\ drain' = Begun(d, queue) /\ UNCHANGED <<queue, saved, dropped, posted, late, lapsed>>
        /\ queue \in Seq(Captures) /\ Distinct(queue)
    BY <1>1, <1>4 DEF Mount, Inv, Orderly, Typed, TypeOK
  <2>2. Orderly' /\ \A c \in Captures : Owed(c)' => c \notin 1 .. saved' \/ c \in Items(queue)
    BY <1>4, <2>1, BegunAlone
  <2>3. KeptOrPosted'
    BY <1>4, <2>1 DEF Inv, KeptOrPosted
  <2>4. Balanced'
    <3>1. ASSUME NEW c \in Captures PROVE Balance(c)'
      <4>1. Owed(c)' => Owed(c)
        BY <2>1, <2>2 DEF Owed
      <4>2. posted'[c] + late'[c] + lapsed[c] <= posted[c] + late[c] + lapsed'[c]
        BY <1>1, <2>1 DEF Typed, TypeOK
      <4> QED BY <1>1, <1>4, <4>1, <4>2, BalanceStep
    <3> QED BY <3>1 DEF Balanced
  <2> QED BY <2>2, <2>3, <2>4
<1>5. ASSUME alone, NEW d \in Drains, Save(d), alone' PROVE Orderly' /\ KeptOrPosted' /\ Balanced'
  <2>1. PICK q \in {Trimmed(Append(queue, saved + 1)), queue} :
          /\ saved < MaxCaptures /\ saved' = saved + 1 /\ queue' = q /\ drain' = Begun(d, q)
          /\ dropped' = dropped \cup ((Items(queue) \cup {saved'}) \ Items(q))
          /\ UNCHANGED <<posted, late, lapsed>>
    BY <1>5 DEF Save
  <2>2. Quiet /\ Distinct(queue)
    BY <1>5 DEF Save, Inv, Orderly
  <2>3. q \in Seq(Captures) /\ Items(q) \subseteq Items(queue) \cup {saved + 1} /\ Distinct(q)
    BY <1>1, <2>1, <2>2, SavedType
  <2>4. Orderly' /\ \A c \in Captures : Owed(c)' => c \notin 1 .. saved' \/ c \in Items(q)
    BY <1>5, <2>1, <2>2, <2>3, BegunAlone
  <2>5. saved \in Nat /\ saved + 1 \notin 1 .. saved
        /\ \A c \in 1 .. saved + 1 : c \in 1 .. saved \/ c = saved + 1
    BY <1>1, BoundsAssumption DEF Typed, TypeOK
  <2>6. KeptOrPosted'
    BY <1>5, <2>1, <2>5 DEF Inv, KeptOrPosted
  <2>7. Balanced'
    <3>1. ASSUME NEW c \in Captures PROVE Balance(c)'
      <4>1. c \in 1 .. saved => c \in 1 .. saved'
        BY <2>1, <2>5
      <4>2. Owed(c)' => Owed(c)
        BY <2>1, <2>2, <2>3, <2>4, <2>5, <4>1 DEF Owed
      <4>3. posted'[c] + late'[c] + lapsed[c] <= posted[c] + late[c] + lapsed'[c]
        BY <1>1, <2>1 DEF Typed, TypeOK
      <4> QED BY <1>1, <1>5, <4>2, <4>3, BalanceStep
    <3> QED BY <3>1 DEF Balanced
  <2> QED BY <2>4, <2>6, <2>7
<1>6. ASSUME alone, NEW d \in Drains, Create(d), alone' PROVE Orderly' /\ KeptOrPosted' /\ Balanced'
  <2>1. /\ drain[d].at = "calling" /\ posted' = [posted EXCEPT ![Item(d)] = @ + 1]
        /\ UNCHANGED <<queue, saved, dropped, late, lapsed, alone>>
    BY <1>6 DEF Create
  <2>2. /\ Running(d) /\ Accounted(d) /\ Item(d) \in Captures
        /\ \A e \in Drains : Running(e) => e = d
    BY <1>1, <1>6, <2>1, RunningItem DEF Running, Inv, Orderly
  <2>3. /\ drain'[d].todo = drain[d].todo /\ drain'[d].remaining = drain[d].remaining
        /\ drain'[d].drained = drain[d].drained /\ drain'[d].at = "created"
        /\ \A e \in Drains : e # d => drain'[e] = drain[e]
    BY <1>1, <1>6 DEF Create, Typed, TypeOK, DrainType
  <2>4. /\ \A c \in Captures : c # Item(d) => posted'[c] = posted[c]
        /\ posted'[Item(d)] = posted[Item(d)] + 1 /\ posted[Item(d)] \in Nat
    BY <1>1, <2>1, <2>2 DEF Typed, TypeOK
  <2>5. \A c \in Captures : posted[c] > 0 => posted'[c] > 0
    BY <2>4
  <2>6. Item(d)' = Item(d) /\ Running(d)' /\ \A e \in Drains : Running(e)' => e = d
    BY <2>2, <2>3 DEF Item, Running
  <2>7. Accounted(d)'
    <3>1. drain[d].drained \subseteq Captures
      BY <1>1 DEF Typed, TypeOK, DrainType
    <3>2. \A c \in drain'[d].drained : posted'[c] > 0
      BY <2>2, <2>3, <2>5, <3>1 DEF Accounted
    <3>3. posted'[Item(d)'] > 0
      BY <2>4, <2>6
    <3> QED BY <2>1, <2>2, <2>3, <3>2, <3>3 DEF Accounted, Carries
  <2>8. Orderly'
    BY <1>6, <2>1, <2>6, <2>7 DEF Inv, Orderly
  <2>9. KeptOrPosted'
    <3>1. 1 .. saved \subseteq Captures
      BY <1>1, BoundsAssumption DEF Typed, TypeOK, Captures
    <3> QED BY <1>6, <2>1, <2>5, <3>1 DEF Inv, KeptOrPosted
  <2>10. Balanced'
    <3>1. ASSUME NEW c \in Captures, c # Item(d) PROVE Balance(c)'
      <4>1. Owed(c)' => Owed(c)
        BY <2>1, <2>2, <2>3, <2>6 DEF Owed, Quiet
      <4>2. posted'[c] + late'[c] + lapsed[c] <= posted[c] + late[c] + lapsed'[c]
        BY <1>1, <2>1, <2>4, <3>1 DEF Typed, TypeOK
      <4> QED BY <1>1, <1>6, <4>1, <4>2, BalanceStep
    <3>2. Balance(Item(d))'
      <4>1. Item(d) \in Items(drain[d].todo)
        BY <1>1, <2>2, RunningItem
      <4>2. Owed(Item(d))
        BY <2>1, <2>2, <4>1 DEF Owed
      <4>3. posted[Item(d)] + late[Item(d)] <= lapsed[Item(d)]
        <5>1. Balance(Item(d))
          BY <1>6, <2>2 DEF Inv, Balanced
        <5>2. \A c \in Captures : lapsed[c] \in Nat
          BY <1>1 DEF Typed, TypeOK
        <5> QED BY <2>2, <4>2, <5>1, <5>2 DEF Balance
      <4>4. Item(d) \in 1 .. saved /\ Item(d) \notin Items(drain[d].remaining)
        BY <1>1, <2>2, <4>1 DEF Typed, Within, Carries, Accounted
      <4>5. ASSUME NEW c \in Captures, c = Item(d) PROVE ~ Owed(c)'
        BY <2>1, <2>3, <2>6, <4>4, <4>5 DEF Owed, Quiet
      <4>6. ASSUME NEW c \in Captures, c = Item(d) PROVE Balance(c)'
        <5>1. posted'[c] = posted[c] + 1 /\ late'[c] = late[c] /\ lapsed'[c] = lapsed[c]
          BY <2>1, <2>4, <4>6
        <5>2. posted[c] \in Nat /\ late[c] \in Nat /\ lapsed[c] \in Nat
          BY <1>1 DEF Typed, TypeOK
        <5>3. posted[c] + late[c] <= lapsed[c]
          BY <4>3, <4>6
        <5> QED BY <4>5, <4>6, <5>1, <5>2, <5>3 DEF Balance
      <4> QED BY <2>2, <2>6, <4>6 DEF Balance
    <3>3. \A c \in Captures : Balance(c)'
      <4>1. ASSUME NEW c \in Captures, c = Item(d) PROVE Balance(c)'
        BY <2>6, <3>2, <4>1 DEF Balance
      <4> QED BY <3>1, <4>1
    <3> QED BY <3>3 DEF Balanced
  <2> QED BY <2>8, <2>9, <2>10
<1>7. ASSUME alone, NEW d \in Drains, Succeed(d), alone' PROVE Orderly' /\ KeptOrPosted' /\ Balanced'
  <2>1. /\ drain[d].at = "created" /\ Running(d) /\ Passed(d, TRUE)
        /\ UNCHANGED <<saved, dropped, posted, late, lapsed, alone>>
    BY <1>7 DEF Succeed, Running
  <2>2. Accounted(d) /\ TRUE \in BOOLEAN
    BY <1>7, <2>1 DEF Inv, Orderly
  <2>3. posted[Item(d)] > 0
    BY <2>1, <2>2 DEF Accounted
  <2>4. /\ Orderly' /\ KeptOrPosted'
        /\ \A c \in Captures : Owed(c)' => Owed(c)
    BY <1>7, <2>1, <2>2, <2>3, PassedAlone
  <2>5. ASSUME NEW c \in Captures PROVE Balance(c)'
    <3>1. posted[c] \in Nat /\ late[c] \in Nat /\ lapsed[c] \in Nat
      BY <1>1 DEF Typed, TypeOK
    <3>2. posted'[c] + late'[c] + lapsed[c] <= posted[c] + late[c] + lapsed'[c]
      BY <2>1, <3>1
    <3> QED BY <1>1, <1>7, <2>4, <3>2, BalanceStep
  <2> QED BY <2>4, <2>5 DEF Balanced
<1>8. ASSUME alone, NEW d \in Drains, Fail(d) \/ TimeOut(d), alone'
       PROVE  Orderly' /\ KeptOrPosted' /\ Balanced'
  <2>1. /\ Running(d) /\ Passed(d, FALSE)
        /\ UNCHANGED <<saved, dropped, posted, alone>>
    BY <1>8 DEF Fail, TimeOut, Running
  <2>2. FALSE \in BOOLEAN
    OBVIOUS
  <2>3. /\ Accounted(d) /\ Item(d) \in Captures /\ Item(d) \in Items(drain[d].todo)
    BY <1>1, <1>8, <2>1, RunningItem DEF Inv, Orderly
  <2>4. /\ Orderly' /\ KeptOrPosted'
        /\ \A c \in Captures : Owed(c)' => Owed(c) \/ c = Item(d)
    BY <1>8, <2>1, <2>2, PassedAlone
  <2>5. ASSUME NEW c \in Captures PROVE Balance(c)'
    <3>1. posted[c] \in Nat /\ late[c] \in Nat /\ lapsed[c] \in Nat
      BY <1>1 DEF Typed, TypeOK
    <3>2. CASE Fail(d)
      <4>1. posted'[c] + late'[c] + lapsed[c] <= posted[c] + late[c] + lapsed'[c]
        BY <3>1, <3>2 DEF Fail
      <4>2. c = Item(d) => Owed(c)
        BY <2>1, <2>3, <3>2 DEF Fail, Owed
      <4> QED BY <1>1, <1>8, <2>4, <4>1, <4>2, BalanceStep
    <3>3. CASE TimeOut(d)
      <4>1. lapsed' = [lapsed EXCEPT ![Item(d)] = @ + 1] /\ late' = Unheard(d)
        BY <3>3 DEF TimeOut
      <4>2. CASE c # Item(d) \/ Owed(c)
        <5>1. posted'[c] + late'[c] + lapsed[c] <= posted[c] + late[c] + lapsed'[c]
          BY SMTT(20), <1>1, <2>1, <2>3, <3>1, <4>1 DEF Unheard, Typed, TypeOK
        <5> QED BY <1>1, <1>8, <2>4, <4>2, <5>1, BalanceStep
      <4>3. CASE c = Item(d) /\ ~ Owed(c)
        <5>1. drain[d].at = "created"
          BY <2>1, <2>3, <4>3 DEF Owed
        <5>2. late'[c] = late[c] /\ lapsed'[c] = lapsed[c] + 1 /\ posted'[c] = posted[c]
          BY <1>1, <2>1, <2>3, <4>1, <4>3, <5>1 DEF Unheard, Typed, TypeOK
        <5>3. Balance(c)
          BY <1>8 DEF Inv, Balanced
        <5>4. posted[c] + late[c] <= lapsed[c] + 1
          BY <3>1, <4>3, <5>3 DEF Balance
        <5> QED BY <3>1, <5>2, <5>4 DEF Balance
      <4> QED BY <4>2, <4>3
    <3> QED BY <1>8, <3>2, <3>3
  <2> QED BY <2>4, <2>5 DEF Balanced
<1>9. ASSUME alone, NEW d \in Drains, ClosePage(d), alone' PROVE Orderly' /\ KeptOrPosted' /\ Balanced'
  <2>1. /\ Running(d) /\ drain' = [drain EXCEPT ![d] = Idle] /\ late' = Unheard(d)
        /\ UNCHANGED <<queue, saved, dropped, posted, alone>>
        /\ lapsed' = [c \in Captures |-> IF c \in drain[d].drained \cup {Item(d)}
                                         THEN lapsed[c] + 1 ELSE lapsed[c]]
    BY <1>9 DEF ClosePage
  <2>2. /\ Accounted(d) /\ Item(d) \in Captures /\ Item(d) \in Items(drain[d].todo)
        /\ \A e \in Drains : Running(e) => e = d
    BY <1>1, <1>9, <2>1, RunningItem DEF Inv, Orderly
  <2>3. \A e \in Drains : ~ Running(e)'
    BY <1>1, <2>1, <2>2 DEF Running, Idle, Typed, TypeOK
  <2>4. Orderly'
    BY <1>9, <2>1, <2>3 DEF Inv, Orderly
  <2>5. KeptOrPosted'
    BY <1>9, <2>1 DEF Inv, KeptOrPosted
  <2>6. ASSUME NEW c \in Captures PROVE Balance(c)'
    <3>1. posted[c] \in Nat /\ late[c] \in Nat /\ lapsed[c] \in Nat
      BY <1>1 DEF Typed, TypeOK
    <3>2. Owed(c)' => c \notin 1 .. saved \/ c \in Items(queue)
      BY <2>1, <2>3 DEF Owed
    <3>3. Balance(c)
      BY <1>9 DEF Inv, Balanced
    <3>4. CASE c = Item(d) /\ drain[d].at = "calling"
      <4>1. Owed(c)
        BY <2>1, <2>2, <3>4 DEF Owed
      <4>2. posted'[c] + late'[c] + lapsed[c] <= posted[c] + late[c] + lapsed'[c]
        BY <1>1, <2>1, <2>2, <3>1, <3>4 DEF Unheard, Typed, TypeOK
      <4> QED BY <1>1, <1>9, <4>1, <4>2, BalanceStep
    <3>5. CASE c \in drain[d].drained \cup {Item(d)} /\ ~ (c = Item(d) /\ drain[d].at = "calling")
      <4>1. late'[c] = late[c] /\ lapsed'[c] = lapsed[c] + 1 /\ posted'[c] = posted[c]
        BY <1>1, <2>1, <2>2, <3>5 DEF Unheard, Typed, TypeOK
      <4>2. posted[c] + late[c] <= lapsed[c] + 1
        BY <3>1, <3>3 DEF Balance
      <4> QED BY <3>1, <4>1, <4>2 DEF Balance
    <3>6. CASE c \notin drain[d].drained \cup {Item(d)}
      <4>1. Owed(c)' => Owed(c)
        BY <2>1, <2>2, <3>2, <3>6 DEF Owed, Accounted, Carries
      <4>2. posted'[c] + late'[c] + lapsed[c] <= posted[c] + late[c] + lapsed'[c]
        BY <1>1, <2>1, <2>2, <3>1, <3>6 DEF Unheard, Typed, TypeOK
      <4> QED BY <1>1, <1>9, <4>1, <4>2, BalanceStep
    <3> QED BY <3>4, <3>5, <3>6
  <2> QED BY <2>4, <2>5, <2>6 DEF Balanced
<1>10. ASSUME alone, NEW c \in Captures, Arrive(c), alone' PROVE Orderly' /\ KeptOrPosted' /\ Balanced'
  <2>1. /\ late[c] > 0 /\ late' = [late EXCEPT ![c] = @ - 1] /\ posted' = [posted EXCEPT ![c] = @ + 1]
        /\ UNCHANGED <<queue, drain, saved, dropped, lapsed, alone>>
    BY <1>10 DEF Arrive
  <2>2. \A b \in Captures : posted[b] > 0 => posted'[b] > 0
    BY <1>1, <2>1 DEF Typed, TypeOK
  <2>3. Orderly'
    <3>1. ASSUME NEW d \in Drains, Running(d) PROVE Accounted(d)'
      <4>1. Accounted(d) /\ Item(d) \in Captures /\ drain[d].drained \subseteq Captures
        BY <1>1, <1>10, <3>1, RunningItem DEF Inv, Orderly, DrainType
      <4>2. Item(d)' = Item(d)
        BY <2>1 DEF Item
      <4> QED BY <2>1, <2>2, <4>1, <4>2 DEF Accounted, Carries
    <3>2. \A d \in Drains : Running(d)' <=> Running(d)
      BY <2>1 DEF Running
    <3> QED BY <1>10, <2>1, <3>1, <3>2 DEF Inv, Orderly
  <2>4. KeptOrPosted'
    <3>1. 1 .. saved \subseteq Captures
      BY <1>1, BoundsAssumption DEF Typed, TypeOK, Captures
    <3> QED BY <1>10, <2>1, <2>2, <3>1 DEF Inv, KeptOrPosted
  <2>5. ASSUME NEW b \in Captures PROVE Balance(b)'
    <3>1. Owed(b)' => Owed(b)
      BY <2>1 DEF Owed, Quiet, Running, Item
    <3>2. posted'[b] + late'[b] + lapsed[b] <= posted[b] + late[b] + lapsed'[b]
      BY SMTT(20), <1>1, <2>1 DEF Typed, TypeOK
    <3> QED BY <1>1, <1>10, <3>1, <3>2, BalanceStep
  <2> QED BY <2>3, <2>4, <2>5 DEF Balanced
<1>11. CASE UNCHANGED vars
  BY <1>11 DEF vars, Inv, Orderly, Accounted, Carries, Item, Running, Quiet, KeptOrPosted,
               Balanced, Balance, Owed
<1> QED BY <1>2, <1>3, <1>4, <1>5, <1>6, <1>7, <1>8, <1>9, <1>10, <1>11 DEF Next, Step

\* At the start there is nothing to lose.
LEMMA SafetyInit == Init => Inv
<1> SUFFICES ASSUME Init PROVE Inv OBVIOUS
<1>1. Typed
  BY TypedInit
<1>2. \A d \in Drains : ~ Running(d)
  BY DEF Init, Running, Idle
<1>3. Orderly
  BY <1>2 DEF Init, Orderly, Distinct
<1>4. 1 .. saved = {}
  BY DEF Init
<1>5. KeptOrPosted
  BY <1>4 DEF KeptOrPosted
<1>6. Balanced
  BY <1>4 DEF Init, Balanced, Balance, Owed
<1> QED BY <1>1, <1>3, <1>5, <1>6 DEF Inv

\* Inv holds at the start and through every step.
LEMMA Inductive == Spec => []Inv
<1>1. Inv /\ [Next]_vars => Inv'
  BY TypedNext, SafetyNext DEF Inv
<1> QED BY <1>1, SafetyInit, PTL DEF Spec

-----------------------------------------------------------------------------
\* The types; the list never outgrows MAX_QUEUE (writeQueue of Capture.tsx).
THEOREM TypeCorrect == Spec => []TypeOK
<1>1. Inv => TypeOK
  BY DEF Inv, Typed
<1> QED BY <1>1, Inductive, PTL

\* With drains apart no capture is lost between the list and its entry (drainQueue).
THEOREM CapturesSurvive == Spec => []KeptOrPosted
<1>1. Inv => KeptOrPosted
  BY DEF Inv
<1> QED BY <1>1, Inductive, PTL

\* And none becomes more entries than one, and one more for each outcome not learnt.
THEOREM CopiesAreBounded == Spec => []CopiesAreLapses
<1>1. Inv => CopiesAreLapses
  <2> SUFFICES ASSUME Inv, alone, NEW c \in Captures PROVE posted[c] <= 1 + lapsed[c]
    BY DEF CopiesAreLapses
  <2>1. posted[c] \in Nat /\ late[c] \in Nat /\ lapsed[c] \in Nat
    BY DEF Inv, Typed, TypeOK
  <2>2. Balance(c)
    BY DEF Inv, Balanced
  <2> QED BY <2>1, <2>2 DEF Balance
<1> QED BY <1>1, Inductive, PTL

\* Capture.tsx keeps its word, "the entry stays in the queue", wherever drains are apart:
\* that FailedStaysQueued fails takes a drain begun beside another.
THEOREM LoneDrainsKeepTheQueue == Spec => [](alone => FailedStaysQueued)
<1>1. Inv => (alone => FailedStaysQueued)
  <2> SUFFICES ASSUME Inv, alone, NEW c \in (1 .. saved) \ dropped
               PROVE  Kept(c) \/ posted[c] + late[c] > 0
    BY DEF FailedStaysQueued
  <2>1. c \in Items(queue) \/ posted[c] > 0
    BY DEF Inv, KeptOrPosted
  <2>2. c \in Captures
    BY BoundsAssumption DEF Inv, Typed, TypeOK, Captures
  <2>3. posted[c] \in Nat /\ late[c] \in Nat
    BY <2>2 DEF Inv, Typed, TypeOK
  <2> QED BY <2>1, <2>3 DEF Kept
<1> QED BY <1>1, Inductive, PTL
================================================================================
