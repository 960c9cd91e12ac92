----------------------------- MODULE CaptureQueue -----------------------------
(***************************************************************************)
(* Quick capture: a list of captures in localStorage, shared by every tab, *)
(* and the drains that post them.  A drain starts when the page mounts and *)
(* after each save; it reads the list once, awaits one POST after another, *)
(* and then writes back what failed.  Nothing keeps two drains apart, of   *)
(* one tab or of two.                                                      *)
(***************************************************************************)
EXTENDS Naturals, Sequences, FiniteSets

CONSTANTS
  MaxCaptures, \* bound: captures the user saves, numbered in that order
  Drains,      \* activations of drainQueue
  MaxQueue,    \* MAX_QUEUE
  MaxLapses,   \* bound: for each capture, POSTs whose outcome the page never learns
  MaxCopies    \* bound: entries that awaited POSTs make of one capture

Captures == 1 .. MaxCaptures

ASSUME BoundsAssumption ==
  MaxCaptures \in Nat /\ MaxQueue \in Nat \ {0} /\ MaxLapses \in Nat /\ MaxCopies \in Nat \ {0}

VARIABLES
  queue,    \* localStorage "theourgia.queue"
  drain,    \* a drain: items to post, items to write back, items posted, its request
  saved,    \* how many captures the user has saved
  dropped,  \* history: captures cut at MaxQueue, or that storage refused
  posted,   \* entries made of each capture
  late,     \* POSTs nobody awaits any more that may still arrive
  lapsed,   \* history: POSTs whose outcome the page never learnt
  alone     \* history: no drain has begun while another ran

vars == <<queue, drain, saved, dropped, posted, late, lapsed, alone>>

Items(s) == {s[i] : i \in DOMAIN s}

Idle == [todo |-> <<>>, remaining |-> <<>>, drained |-> {}, at |-> "idle"]

Running(d) == drain[d].at # "idle"
Quiet      == \A d \in Drains : ~ Running(d)
Item(d)    == Head(drain[d].todo)

-----------------------------------------------------------------------------
\* Variant: the list is written as it is.
Untrimmed(s) == s

\* writeQueue: slice(-MAX_QUEUE)
Trimmed(s) == IF Len(s) <= MaxQueue THEN s ELSE SubSeq(s, Len(s) - MaxQueue + 1, Len(s))

\* drainQueue up to its first await.
Begun(d, q) ==
  [drain EXCEPT ![d] = IF q = <<>> THEN Idle ELSE [Idle EXCEPT !.todo = q, !.at = "calling"]]

Mount(d) ==
  /\ ~ Running(d) /\ queue # <<>>
  /\ drain' = Begun(d, queue)
  /\ alone' = (alone /\ Quiet)
  /\ UNCHANGED <<queue, saved, dropped, posted, late, lapsed>>

\* save() writes the longer list, or fails to and says nothing, and drains.
Save(d) == \E q \in {Trimmed(Append(queue, saved + 1)), queue} :
  /\ saved < MaxCaptures /\ ~ Running(d)
  /\ saved' = saved + 1
  /\ queue' = q
  /\ drain' = Begun(d, q)
  /\ dropped' = dropped \cup ((Items(queue) \cup {saved'}) \ Items(q))
  /\ alone' = (alone /\ Quiet)
  /\ UNCHANGED <<posted, late, lapsed>>

-----------------------------------------------------------------------------
(* One item of a drain.                                                    *)

\* The POST makes an entry.
Create(d) ==
  /\ drain[d].at = "calling" /\ posted[Item(d)] < MaxCopies
  /\ posted' = [posted EXCEPT ![Item(d)] = @ + 1]
  /\ drain' = [drain EXCEPT ![d].at = "created"]
  /\ UNCHANGED <<queue, saved, dropped, late, lapsed, alone>>

\* Variant: an item that fails is taken for done.
PassedOver(d, ok) ==
  LET item == Item(d)
      rest == Tail(drain[d].todo)
      back == drain[d].remaining
  IN  IF rest = <<>>
      THEN /\ queue' = Trimmed(back)
           /\ drain' = [drain EXCEPT ![d] = Idle]
      ELSE /\ queue' = queue
           /\ drain' = [drain EXCEPT ![d].todo = rest, ![d].remaining = back, ![d].at = "calling",
                                     ![d].drained = @ \cup {item}]

\* Variant: an item is written back whatever became of it.
PassedBack(d, ok) ==
  LET item == Item(d)
      rest == Tail(drain[d].todo)
      back == Append(drain[d].remaining, item)
  IN  IF rest = <<>>
      THEN /\ queue' = Trimmed(back)
           /\ drain' = [drain EXCEPT ![d] = Idle]
      ELSE /\ queue' = queue
           /\ drain' = [drain EXCEPT ![d].todo = rest, ![d].remaining = back, ![d].at = "calling",
                                     ![d].drained = IF ok THEN @ \cup {item} ELSE @]

\* The answer of an item, and then the next item or the end of the drain, which
\* overwrites the list with what this drain found failing.
Passed(d, ok) ==
  LET item == Item(d)
      rest == Tail(drain[d].todo)
      back == IF ok THEN drain[d].remaining ELSE Append(drain[d].remaining, item)
  IN  IF rest = <<>>
      THEN /\ queue' = Trimmed(back)
           /\ drain' = [drain EXCEPT ![d] = Idle]
      ELSE /\ queue' = queue
           /\ drain' = [drain EXCEPT ![d].todo = rest, ![d].remaining = back, ![d].at = "calling",
                                     ![d].drained = IF ok THEN @ \cup {item} ELSE @]

Succeed(d) ==
  /\ drain[d].at = "created"
  /\ Passed(d, TRUE)
  /\ UNCHANGED <<saved, dropped, posted, late, lapsed, alone>>

\* Offline, or an error of the server.
Fail(d) ==
  /\ drain[d].at = "calling"
  /\ Passed(d, FALSE)
  /\ UNCHANGED <<saved, dropped, posted, late, lapsed, alone>>

\* A POST that was not seen to fail may be handled after the page turned away.
Unheard(d) == IF drain[d].at = "calling" THEN [late EXCEPT ![Item(d)] = @ + 1] ELSE late

\* The 30 s timeout, or a connection that breaks under the answer.
TimeOut(d) ==
  /\ Running(d) /\ lapsed[Item(d)] < MaxLapses
  /\ late' = Unheard(d)
  /\ lapsed' = [lapsed EXCEPT ![Item(d)] = @ + 1]
  /\ Passed(d, FALSE)
  /\ UNCHANGED <<saved, dropped, posted, alone>>

\* The page goes away under a drain: what it posted is still in the list.
ClosePage(d) ==
  LET forgotten == drain[d].drained \cup {Item(d)}
  IN  /\ Running(d) /\ \A c \in forgotten : lapsed[c] < MaxLapses
      /\ late' = Unheard(d)
      /\ lapsed' = [c \in Captures |-> IF c \in forgotten THEN lapsed[c] + 1 ELSE lapsed[c]]
      /\ drain' = [drain EXCEPT ![d] = Idle]
      /\ UNCHANGED <<queue, saved, dropped, posted, alone>>

Arrive(c) ==
  /\ late[c] > 0
  /\ late' = [late EXCEPT ![c] = @ - 1]
  /\ posted' = [posted EXCEPT ![c] = @ + 1]
  /\ UNCHANGED <<queue, drain, saved, dropped, lapsed, alone>>

-----------------------------------------------------------------------------
Init ==
  /\ queue = <<>>
  /\ drain = [d \in Drains |-> Idle]
  /\ saved = 0 /\ dropped = {}
  /\ posted = [c \in Captures |-> 0]
  /\ late = [c \in Captures |-> 0]
  /\ lapsed = [c \in Captures |-> 0]
  /\ alone = TRUE

Step(d) == Create(d) \/ Succeed(d) \/ Fail(d) \/ TimeOut(d) \/ ClosePage(d)

Next ==
  \/ \E d \in Drains : Mount(d) \/ Save(d) \/ Step(d)
  \/ \E c \in Captures : Arrive(c)

Spec == Init /\ [][Next]_vars

\* The user comes back to the page, a POST is answered or times out, and if one is
\* tried again and again the network is up some time.
FairSpec ==
  /\ Spec
  /\ \A d \in Drains : /\ WF_vars(Mount(d)) /\ WF_vars(Step(d))
                       /\ SF_vars(Create(d))

-----------------------------------------------------------------------------
DrainType == [todo : Seq(Captures), remaining : Seq(Captures), drained : SUBSET Captures,
              at : {"idle", "calling", "created"}]

\* The types; a drain that runs has an item; the list never outgrows MAX_QUEUE.
TypeOK ==
  /\ queue \in Seq(Captures) /\ Len(queue) <= MaxQueue
  /\ drain \in [Drains -> DrainType]
  /\ \A d \in Drains : Running(d) <=> drain[d].todo # <<>>
  /\ saved \in 0 .. MaxCaptures /\ dropped \subseteq 1 .. saved
  /\ posted \in [Captures -> Nat]
  /\ late \in [Captures -> Nat]
  /\ lapsed \in [Captures -> Nat]
  /\ alone \in BOOLEAN

Carries(d) == Items(drain[d].todo) \cup Items(drain[d].remaining)
Kept(c)    == c \in Items(queue) \/ \E d \in Drains : c \in Carries(d)

\* As long as no drain began beside another, a saved capture is in the list until
\* it is an entry, through failures, timeouts and pages closed at any moment: only
\* MAX_QUEUE and a full localStorage lose one.
KeptOrPosted ==
  alone => \A c \in (1 .. saved) \ dropped : c \in Items(queue) \/ posted[c] > 0

\* And it becomes one entry, and one more for each POST whose outcome the page
\* never learnt: failures that are seen and drains that are repeated do not copy it.
CopiesAreLapses ==
  alone => \A c \in Captures : posted[c] <= 1 + lapsed[c]

\* A user who keeps coming back gets every capture posted that is not cut off.
KeptIsPosted ==
  []alone => \A c \in Captures : c \in Items(queue) ~> posted[c] > 0 \/ c \in dropped

\* Capture.tsx: "If the network call fails, the entry stays in the queue and
\* replays the next time the route loads".
FailedStaysQueued == \A c \in (1 .. saved) \ dropped : Kept(c) \/ posted[c] + late[c] > 0
=============================================================================
