--------------------------- MODULE KeyRotationProofs ---------------------------
(***************************************************************************)
(* Theorems about KeyRotation, for any rows, tables and batch size, any    *)
(* number of requests and sweeps, and any faults and writes.               *)
(***************************************************************************)
EXTENDS KeyRotation, FiniteSetTheorems, TLAPS

-----------------------------------------------------------------------------
(* Types.                                                                  *)

\* What a sequence holds is of its type.
LEMMA Element == ASSUME NEW T, NEW s \in Seq(T), NEW n \in DOMAIN s
                 PROVE  s[n] \in T /\ DOMAIN s = 1 .. Len(s) /\ Len(s) \in Nat
  OBVIOUS

\* A sequence over a set is one over a larger set.
LEMMA Widened == ASSUME NEW S, NEW T, S \subseteq T, NEW s \in Seq(S) PROVE s \in Seq(T)
  <1>1. DOMAIN s = 1 .. Len(s) /\ Len(s) \in Nat /\ \A n \in DOMAIN s : s[n] \in T
    BY Element
  <1>2. s = [n \in 1 .. Len(s) |-> s[n]]
    BY <1>1
  <1> QED BY <1>1, <1>2

StartType == [at : {"idle", "checked", "loaded", "committed"}, holds : Nat]

\* A sweep between its ticks,
LEMMA AsleepFits == Asleep \in SweepType /\ Asleep.at = "idle" /\ Asleep.got = {}
  BY BoundsAssumption DEF Asleep, SweepType, States

\* and a starter before it begins, are well typed.
LEMMA WaitingFits == Waiting \in StartType /\ Waiting.at # "committed"
  BY DEF Waiting, StartType, None

\* What concerns the sweeps alone.
SweepsFit ==
  /\ sweep \in [Workers -> SweepType]
  /\ \A w \in Workers : Running(w) => sweep[w].rot \in DOMAIN rotation

\* It is enough to look at one sweep.
LEMMA FitsBut ==
  ASSUME TypeOK, NEW w \in Workers, NEW r \in SweepType, sweep' = [sweep EXCEPT ![w] = r],
         r.at # "idle" => r.rot \in DOMAIN rotation, DOMAIN rotation \subseteq DOMAIN rotation'
  PROVE  /\ SweepsFit'
         /\ sweep'[w] = r /\ \A v \in Workers \ {w} : sweep'[v] = sweep[v]
  <1>1. sweep'[w] = r /\ \A v \in Workers \ {w} : sweep'[v] = sweep[v]
    BY DEF TypeOK
  <1>2. sweep' \in [Workers -> SweepType]
    BY DEF TypeOK
  <1> QED BY <1>1, <1>2 DEF SweepsFit, TypeOK, Running

\* And at one request.
StartsFit ==
  /\ start \in [Starters -> StartType]
  /\ \A s \in Starters : start[s].at = "committed" => start[s].holds \in DOMAIN rotation

\* A step of one starter leaves the others typed.
LEMMA StartBut ==
  ASSUME TypeOK, NEW s \in Starters, NEW a \in StartType, start' = [start EXCEPT ![s] = a],
         a.at = "committed" => a.holds \in DOMAIN rotation',
         DOMAIN rotation \subseteq DOMAIN rotation'
  PROVE  StartsFit'
  BY DEF TypeOK, StartsFit, StartType

\* One rotation more, or another state of one.
LEMMA Appended ==
  ASSUME TypeOK, NEW a \in [new : 0 .. keys', state : States], keys' \in {keys, keys + 1},
         rotation' = Append(rotation, a)
  PROVE  /\ rotation' \in Seq([new : 0 .. keys', state : States])
         /\ Newest \in Nat /\ Newest' = Newest + 1
         /\ DOMAIN rotation = 1 .. Newest /\ DOMAIN rotation' = 1 .. Newest + 1
         /\ \A n \in DOMAIN rotation : rotation'[n] = rotation[n]
         /\ rotation'[Newest + 1] = a
  <1>1. rotation \in Seq([new : 0 .. keys, state : States]) /\ keys \in Nat
    BY DEF TypeOK
  <1>2. [new : 0 .. keys, state : States] \subseteq [new : 0 .. keys', state : States]
    BY <1>1
  <1>3. rotation \in Seq([new : 0 .. keys', state : States])
    BY <1>1, <1>2, Widened
  <1> QED BY <1>3 DEF Newest

\* A rotation whose state changes keeps its keys.
LEMMA Restated ==
  ASSUME TypeOK, NEW n \in DOMAIN rotation, NEW st \in States,
         rotation' = [rotation EXCEPT ![n].state = st], keys' = keys
  PROVE  /\ rotation' \in Seq([new : 0 .. keys', state : States])
         /\ DOMAIN rotation' = DOMAIN rotation /\ Newest' = Newest
         /\ \A m \in DOMAIN rotation : rotation'[m].new = rotation[m].new
         /\ rotation'[n].state = st
         /\ \A m \in DOMAIN rotation \ {n} : rotation'[m] = rotation[m]
  <1> DEFINE T == [new : 0 .. keys, state : States]
  <1>1. rotation \in Seq(T) /\ Len(rotation) \in Nat /\ DOMAIN rotation = 1 .. Len(rotation)
    BY DEF TypeOK
  <1>2. rotation' = [rotation EXCEPT ![n] = [rotation[n] EXCEPT !.state = st]]
    OBVIOUS
  <1>3. rotation[n] \in T
    BY <1>1, Element
  <1>4. /\ [rotation[n] EXCEPT !.state = st] \in T
        /\ [rotation[n] EXCEPT !.state = st].new = rotation[n].new
        /\ [rotation[n] EXCEPT !.state = st].state = st
    BY <1>3
  <1> HIDE DEF T
  <1>5. rotation' \in Seq(T) /\ DOMAIN rotation' = DOMAIN rotation /\ Len(rotation') = Len(rotation)
    BY <1>1, <1>2, <1>4
  <1>6. rotation'[n] = [rotation[n] EXCEPT !.state = st] /\ \A m \in DOMAIN rotation \ {n} : rotation'[m] = rotation[m]
    BY <1>2
  <1> QED BY <1>4, <1>5, <1>6 DEF T, Newest

\* What a rotation's row holds.
LEMMA RotationIs ==
  ASSUME TypeOK, NEW n \in DOMAIN rotation
  PROVE  New(n) \in 0 .. keys /\ rotation[n].state \in States /\ n \in Nat \ {0}
  <1>1. /\ rotation[n] \in [new : 0 .. keys, state : States]
        /\ DOMAIN rotation = 1 .. Len(rotation) /\ Len(rotation) \in Nat
    BY Element DEF TypeOK
  <1> QED BY <1>1 DEF New, TypeOK

\* What the owners touch.
OwnersFit ==
  /\ blob \in [Rows -> BlobType] /\ \A r \in Rows : blob[r].key \in 0 .. keys
  /\ picked \in [Rows -> 0 .. keys]
  /\ writes \in Nat /\ wrote \in [Rows -> Nat]
  /\ beside \subseteq Rows /\ strays \subseteq Rows /\ solo \in BOOLEAN

\* A write: the row, what its owner knows of it, and whether it was beside a batch.
LEMMA Written ==
  ASSUME TypeOK, NEW r \in Rows, NEW k \in 0 .. keys, Put(r, k)
  PROVE  /\ blob' \in [Rows -> BlobType] /\ writes' \in Nat /\ wrote' \in [Rows -> Nat]
         /\ blob'[r].key = k /\ blob'[r].text = writes' /\ wrote'[r] = writes'
         /\ \A q \in Rows \ {r} : blob'[q] = blob[q] /\ wrote'[q] = wrote[q]
         /\ beside \subseteq beside' /\ beside' \subseteq Rows
         /\ \A w \in Workers : r \in sweep[w].got => r \in beside'
  <1>1. writes' \in Nat /\ keys \in Nat
    BY DEF Put, TypeOK
  <1>2. [key |-> k, text |-> writes'] \in BlobType
    BY <1>1 DEF BlobType
  <1>3. blob' = [blob EXCEPT ![r] = [key |-> k, text |-> writes']] /\ wrote' = [wrote EXCEPT ![r] = writes']
    BY DEF Put
  <1>4. /\ blob' \in [Rows -> BlobType] /\ wrote' \in [Rows -> Nat]
        /\ blob'[r] = [key |-> k, text |-> writes'] /\ wrote'[r] = writes'
        /\ \A q \in Rows \ {r} : blob'[q] = blob[q] /\ wrote'[q] = wrote[q]
    BY <1>1, <1>2, <1>3 DEF TypeOK
  <1>5. /\ beside \subseteq beside' /\ beside' \subseteq Rows
        /\ \A w \in Workers : r \in sweep[w].got => r \in beside'
    BY DEF Put, TypeOK
  <1> QED BY <1>1, <1>4, <1>5

\* A batch goes back to the table.
LEMMA WrittenBack ==
  ASSUME TypeOK, NEW w \in Workers, CommitBatch(w)
  PROVE  /\ sweep[w].rot \in DOMAIN rotation /\ New(sweep[w].rot) \in 0 .. keys
         /\ blob' \in [Rows -> BlobType]
         /\ \A r \in sweep[w].got : r \in Rows /\ blob'[r].key = New(sweep[w].rot)
                                    /\ blob'[r].text = sweep[w].said[r]
         /\ \A r \in Rows \ sweep[w].got : blob'[r] = blob[r]
  <1>1. sweep[w] \in SweepType /\ sweep[w].rot \in DOMAIN rotation
    BY DEF CommitBatch, TypeOK, Running
  <1>2. New(sweep[w].rot) \in 0 .. keys /\ keys \in Nat
    BY <1>1, RotationIs DEF TypeOK
  <1>3. \A r \in Rows : sweep[w].said[r] \in Nat /\ sweep[w].got \subseteq Rows
    BY <1>1 DEF SweepType
  <1> DEFINE k == New(sweep[w].rot)
  <1>4. blob' = [r \in Rows |-> IF r \in sweep[w].got THEN [key |-> k, text |-> sweep[w].said[r]] ELSE blob[r]]
    BY DEF CommitBatch
  <1> HIDE DEF k
  <1>5. \A r \in Rows : [key |-> k, text |-> sweep[w].said[r]] \in BlobType
    BY <1>2, <1>3 DEF BlobType, k
  <1>6. blob' \in [Rows -> BlobType]
    BY <1>4, <1>5 DEF TypeOK
  <1>7. /\ \A r \in sweep[w].got : r \in Rows /\ blob'[r].key = k /\ blob'[r].text = sweep[w].said[r]
        /\ \A r \in Rows \ sweep[w].got : blob'[r] = blob[r]
    BY <1>1, <1>4 DEF SweepType
  <1> QED BY <1>1, <1>2, <1>6, <1>7 DEF k

\* Every step keeps the types.
LEMMA TypeStep == TypeOK /\ [Next]_vars => TypeOK'
  <1> SUFFICES ASSUME TypeOK, [Next]_vars PROVE TypeOK'
    OBVIOUS
  <1> USE DEF vars, keyVars, owners, history
  <1>0. keys \in Nat /\ OwnersFit /\ SweepsFit /\ StartsFit
    BY DEF TypeOK, OwnersFit, SweepsFit, StartsFit, StartType
  <1>1. ASSUME NEW s \in Starters, StartChecked(s) PROVE TypeOK'
    <2> DEFINE a == [start[s] EXCEPT !.at = "checked"]
    <2>1. a \in StartType /\ a.at # "committed"
      BY <1>0 DEF StartsFit, StartType
    <2>2. start' = [start EXCEPT ![s] = a]
      BY <1>1 DEF StartChecked
    <2> HIDE DEF a
    <2>3. StartsFit'
      BY <1>1, <2>1, <2>2, StartBut DEF StartChecked
    <2> QED BY <1>1, <2>3 DEF StartChecked, TypeOK, StartsFit, StartType, Running
  <1>2. ASSUME NEW s \in Starters, StartLoaded(s) PROVE TypeOK'
    <2>1. PICK k \in IF active = {} THEN {None} ELSE active : start' = [start EXCEPT ![s] = [at |-> "loaded", holds |-> k]]
      BY <1>2 DEF StartLoaded
    <2>2. k \in Nat
      BY <2>1, <1>0 DEF TypeOK, None
    <2> DEFINE a == [at |-> "loaded", holds |-> k]
    <2>3. a \in StartType /\ a.at # "committed"
      BY <2>2 DEF StartType
    <2>4. start' = [start EXCEPT ![s] = a]
      BY <2>1
    <2> HIDE DEF a
    <2>5. StartsFit'
      BY <1>2, <2>3, <2>4, StartBut DEF StartLoaded
    <2> QED BY <1>2, <2>5 DEF StartLoaded, TypeOK, StartsFit, StartType, Running
  <1>3. ASSUME NEW s \in Starters, StartCommitted(s) PROVE TypeOK'
    <2> DEFINE first == start[s].holds = None
               b == [new |-> keys', state |-> IF first THEN "done" ELSE "pending"]
               a == IF first THEN Waiting ELSE [at |-> "committed", holds |-> Newest + 1]
    <2>1. /\ keys' = keys + 1 /\ active' = (active \ {start[s].holds}) \cup {keys'}
          /\ rotation' = Append(rotation, b) /\ start' = [start EXCEPT ![s] = a]
      BY <1>3 DEF StartCommitted
    <2>2. b \in [new : 0 .. keys', state : States]
      BY <1>0, <2>1 DEF States
    <2> HIDE DEF b
    <2>3. /\ rotation' \in Seq([new : 0 .. keys', state : States])
          /\ Newest \in Nat /\ DOMAIN rotation = 1 .. Newest /\ DOMAIN rotation' = 1 .. Newest + 1
      BY <2>1, <2>2, Appended
    <2>4. DOMAIN rotation \subseteq DOMAIN rotation' /\ Newest + 1 \in DOMAIN rotation'
      BY <2>3
    <2>5. a \in StartType /\ (a.at = "committed" => a.holds \in DOMAIN rotation')
      <3>1. CASE first
        BY <3>1, WaitingFits
      <3>2. CASE ~ first
        BY <3>2, <2>3, <2>4 DEF StartType
      <3> QED BY <3>1, <3>2
    <2> HIDE DEF a
    <2>6. StartsFit'
      BY <2>1, <2>4, <2>5, StartBut
    <2>7. active' \subseteq 1 .. keys' /\ keys' \in Nat
      <3>1. \A k \in active : k \in 1 .. keys
        BY DEF TypeOK
      <3>2. \A k \in 1 .. keys : k \in 1 .. keys'
        BY <1>0, <2>1
      <3>3. keys' \in 1 .. keys' /\ keys' \in Nat
        BY <1>0, <2>1
      <3>4. \A k \in active' : k \in active \/ k = keys'
        BY <2>1
      <3> HIDE DEF a, b, first
      <3>5. \A k \in active' : k \in 1 .. keys'
        BY <3>1, <3>2, <3>3, <3>4
      <3> QED BY <3>3, <3>5
    <2>8. queued' \subseteq DOMAIN rotation' /\ SweepsFit'
      BY <1>3, <1>0, <2>4 DEF StartCommitted, TypeOK, SweepsFit, Running
    <2>9. OwnersFit'
      <3>1. blob' = blob /\ picked' = picked /\ writes' = writes /\ wrote' = wrote /\ beside' = beside /\ strays' = strays
        BY <1>3 DEF StartCommitted
      <3>2. solo' \in BOOLEAN
        BY <1>3 DEF StartCommitted
      <3>3. \A k \in 0 .. keys : k \in 0 .. keys'
        BY <1>0, <2>1
      <3> QED BY <3>1, <3>2, <3>3, <1>0 DEF OwnersFit
    <2> QED BY <1>3, <2>3, <2>6, <2>7, <2>8, <2>9 DEF StartCommitted, TypeOK, StartsFit, StartType, SweepsFit, OwnersFit
  <1>4. ASSUME NEW s \in Starters, StartRefused(s) PROVE TypeOK'
    <2> DEFINE b == [new |-> None, state |-> "failed"]
    <2>1. /\ keys' = keys
          /\ rotation' = Append(rotation, b) /\ start' = [start EXCEPT ![s] = Waiting]
      BY <1>4 DEF StartRefused
    <2>2. b \in [new : 0 .. keys', state : States]
      BY <1>0, <2>1 DEF States, None
    <2> HIDE DEF b
    <2>3. /\ rotation' \in Seq([new : 0 .. keys', state : States])
          /\ Newest \in Nat /\ DOMAIN rotation = 1 .. Newest /\ DOMAIN rotation' = 1 .. Newest + 1
      BY <2>1, <2>2, Appended
    <2>4. DOMAIN rotation \subseteq DOMAIN rotation'
      BY <2>3
    <2>6. StartsFit'
      BY <2>1, <2>4, WaitingFits, StartBut
    <2>8. queued' \subseteq DOMAIN rotation' /\ SweepsFit'
      BY <1>4, <1>0, <2>4 DEF StartRefused, TypeOK, SweepsFit, Running
    <2> QED BY <1>4, <2>3, <2>6, <2>8 DEF StartRefused, TypeOK, StartsFit, StartType, SweepsFit
  <1>5. ASSUME NEW s \in Starters, StartDispatched(s) \/ StartDies(s) PROVE TypeOK'
    <2>1. StartsFit'
      BY <1>5, WaitingFits, StartBut DEF StartDispatched, StartDies
    <2>2. queued' \subseteq DOMAIN rotation
      BY <1>5 DEF StartDispatched, StartDies, TypeOK
    <2> QED BY <1>5, <2>1, <2>2 DEF StartDispatched, StartDies, TypeOK, StartsFit, StartType, Running
  <1>6. ASSUME NEW n \in DOMAIN rotation, Redispatch(n) PROVE TypeOK'
    BY <1>6 DEF Redispatch, Fault, TypeOK, Running
  <1>7. ASSUME NEW w \in Workers, Take(w) PROVE TypeOK'
    <2>1. PICK n \in queued : Take(w)!(n)
      BY <1>7 DEF Take
    <2>2. n \in DOMAIN rotation /\ rotation[n].state \in States /\ n \in Nat
      BY RotationIs DEF TypeOK
    <2>3. SweepsFit' /\ solo' \in BOOLEAN
      <3>1. CASE rotation[n].state = "done"
        BY <2>1, <3>1, <1>0 DEF SweepsFit, Running, OwnersFit
      <3>2. CASE rotation[n].state # "done"
        <4> DEFINE a == [Asleep EXCEPT !.at = "taken", !.rot = n, !.seen = rotation[n].state]
        <4>1. a \in SweepType /\ a.rot = n
          BY <2>2, AsleepFits DEF SweepType, Asleep
        <4>2. sweep' = [sweep EXCEPT ![w] = a] /\ rotation' = rotation /\ solo' \in BOOLEAN
          BY <2>1, <3>2
        <4> HIDE DEF a
        <4> QED BY <4>1, <4>2, <2>2, FitsBut
      <3> QED BY <3>1, <3>2
    <2> QED BY <2>1, <2>3 DEF TypeOK, SweepsFit
  <1>8. ASSUME NEW w \in Workers, Begin(w) PROVE TypeOK'
    <2> DEFINE n == sweep[w].rot
               a == [sweep[w] EXCEPT !.at = "selecting", !.retired = Retired(n)]
    <2>1. n \in DOMAIN rotation /\ sweep[w] \in SweepType
      BY <1>8 DEF Begin, TypeOK, Running
    <2>2. Retired(n) \in SUBSET Nat
      BY <1>0 DEF Retired
    <2>3. a \in SweepType /\ a.rot = n
      BY <2>1, <2>2 DEF SweepType
    <2>4. sweep' = [sweep EXCEPT ![w] = a]
      BY <1>8 DEF Begin
    <2>5. rotation' \in Seq([new : 0 .. keys', state : States]) /\ DOMAIN rotation' = DOMAIN rotation
      <3>1. CASE rotation' = rotation
        BY <1>8, <3>1 DEF Begin, TypeOK
      <3>2. CASE rotation' # rotation
        BY <1>8, <3>2, <2>1, Restated DEF Begin, States
      <3> QED BY <3>1, <3>2
    <2> HIDE DEF a, n
    <2>6. SweepsFit'
      BY <2>1, <2>3, <2>4, <2>5, FitsBut
    <2> QED BY <1>8, <2>5, <2>6 DEF Begin, TypeOK, SweepsFit
  <1>9. ASSUME NEW w \in Workers, Select(w) PROVE TypeOK'
    <2>1. PICK b \in Selections(w) : Select(w)!(b)
      BY <1>9 DEF Select
    <2>2. b \subseteq Rows /\ sweep[w] \in SweepType /\ sweep[w].rot \in DOMAIN rotation
      BY <2>1 DEF Selections, Matching, TypeOK, Running
    <2> DEFINE a == IF ToReencrypt(w, b) = {} THEN NextTable(w)
                    ELSE [sweep[w] EXCEPT !.at = "ready", !.held = b,
                                          !.got = ToReencrypt(w, b), !.said = Loaded(w, b)]
    <2>3. a \in SweepType /\ a.rot = sweep[w].rot
      <3>1. NextTable(w) \in SweepType /\ NextTable(w).rot = sweep[w].rot
        <4>1. sweep[w].table + 1 \in 1 .. Tables + 1
          BY <2>1, <2>2, BoundsAssumption DEF SweepType
        <4>2. Asleep.said \in [Rows -> Nat]
          BY DEF Asleep
        <4> QED BY <2>2, <4>1, <4>2 DEF NextTable, SweepType
      <3>2. Loaded(w, b) \in [Rows -> Nat]
        <4>1. \A r \in Rows : blob[r].text \in Nat /\ sweep[w].said[r] \in Nat
          BY <1>0, <2>2 DEF OwnersFit, BlobType, SweepType
        <4> QED BY <4>1 DEF Loaded
      <3>3. ToReencrypt(w, b) \subseteq Rows
        BY <2>2 DEF ToReencrypt
      <3>4. LET c == [sweep[w] EXCEPT !.at = "ready", !.held = b, !.got = ToReencrypt(w, b), !.said = Loaded(w, b)]
            IN  c \in SweepType /\ c.rot = sweep[w].rot
        BY <2>2, <3>2, <3>3 DEF SweepType
      <3> QED BY <3>1, <3>4
    <2>4. sweep' = [sweep EXCEPT ![w] = a] /\ rotation' = rotation
      BY <2>1
    <2> HIDE DEF a
    <2>5. SweepsFit'
      BY <2>2, <2>3, <2>4, FitsBut
    <2> QED BY <2>1, <2>5 DEF TypeOK, SweepsFit
  <1>10. ASSUME NEW w \in Workers, CommitBatch(w) PROVE TypeOK'
    <2> DEFINE a == [sweep[w] EXCEPT !.at = "selecting", !.got = {}]
    <2>1. sweep[w] \in SweepType /\ sweep[w].rot \in DOMAIN rotation
      BY <1>10 DEF CommitBatch, TypeOK, Running
    <2>2. a \in SweepType /\ a.rot = sweep[w].rot
      BY <2>1 DEF SweepType
    <2>3. sweep' = [sweep EXCEPT ![w] = a] /\ rotation' = rotation /\ keys' = keys
      BY <1>10 DEF CommitBatch
    <2> HIDE DEF a
    <2>4. SweepsFit'
      BY <2>1, <2>2, <2>3, FitsBut
    <2>5. blob' \in [Rows -> BlobType] /\ \A r \in Rows : blob'[r].key \in 0 .. keys
      BY <1>10, <1>0, WrittenBack DEF OwnersFit
    <2> QED BY <1>10, <2>3, <2>4, <2>5 DEF CommitBatch, TypeOK, SweepsFit
  <1>11. ASSUME NEW w \in Workers, Finish(w) \/ Fail(w) \/ Crash(w) PROVE TypeOK'
    <2>1. sweep[w].rot \in DOMAIN rotation /\ sweep' = [sweep EXCEPT ![w] = Asleep]
      BY <1>11 DEF Finish, Fail, Crash, TypeOK, Running
    <2>2. rotation' \in Seq([new : 0 .. keys', state : States]) /\ DOMAIN rotation' = DOMAIN rotation
      <3>1. CASE rotation' = rotation
        BY <1>11, <3>1 DEF Finish, Fail, Crash, TypeOK
      <3>2. CASE rotation' # rotation
        BY <1>11, <3>2, <2>1, Restated DEF Finish, Fail, Crash, States
      <3> QED BY <3>1, <3>2
    <2>3. SweepsFit'
      BY <2>1, <2>2, AsleepFits, FitsBut
    <2>4. queued' \subseteq DOMAIN rotation /\ faults' \in Nat
      BY <1>11, <2>1 DEF Finish, Fail, Crash, Fault, TypeOK
    <2> QED BY <1>11, <2>2, <2>3, <2>4 DEF Finish, Fail, Crash, TypeOK, SweepsFit
  <1>12. ASSUME NEW r \in Rows, PickKey(r) PROVE TypeOK'
    BY <1>12 DEF PickKey, TypeOK, Running
  <1>13. ASSUME NEW r \in Rows, StoreModeA(r) PROVE TypeOK'
    <2>1. picked[r] \in 0 .. keys /\ Put(r, picked[r])
      BY <1>13 DEF StoreModeA, TypeOK
    <2>2. /\ blob' \in [Rows -> BlobType] /\ writes' \in Nat /\ wrote' \in [Rows -> Nat] /\ beside' \subseteq Rows
          /\ \A q \in Rows : blob'[q].key \in 0 .. keys
      BY <1>0, <2>1, Written DEF OwnersFit
    <2>3. picked' \in [Rows -> 0 .. keys] /\ strays' \subseteq Rows
      BY <1>0, <1>13 DEF StoreModeA, TypeOK, None
    <2> QED BY <1>13, <2>2, <2>3 DEF StoreModeA, TypeOK, Running
  <1>14. ASSUME NEW r \in Rows, StoreModeB(r) PROVE TypeOK'
    <2>1. ModeB \in 0 .. keys /\ Put(r, ModeB)
      BY <1>0, <1>14 DEF StoreModeB, ModeB
    <2>2. /\ blob' \in [Rows -> BlobType] /\ writes' \in Nat /\ wrote' \in [Rows -> Nat] /\ beside' \subseteq Rows
          /\ \A q \in Rows : blob'[q].key \in 0 .. keys
      BY <1>0, <2>1, Written DEF OwnersFit
    <2> QED BY <1>14, <2>2 DEF StoreModeB, TypeOK, Running
  <1>15. CASE UNCHANGED vars
    BY <1>15 DEF TypeOK, Running
  <1> QED BY <1>1, <1>2, <1>3, <1>4, <1>5, <1>6, <1>7, <1>8, <1>9, <1>10, <1>11, <1>12, <1>13, <1>14, <1>15
          DEF Next, Start, Step

\* A vault before its first rotation.
LEMMA TypeInit == Init => TypeOK
  <1> SUFFICES ASSUME Init PROVE TypeOK
    OBVIOUS
  <1>1. keys \in Nat /\ keys \in 0 .. keys /\ 0 \in 0 .. keys
    BY DEF Init
  <1>2. \A r \in Rows : [key |-> keys, text |-> 0] \in BlobType
    BY <1>1 DEF BlobType
  <1>3. SweepsFit /\ StartsFit
    BY AsleepFits, WaitingFits DEF Init, SweepsFit, StartsFit, Running
  <1>4. rotation \in Seq([new : 0 .. keys, state : States])
    BY DEF Init
  <1>5. OwnersFit
    BY <1>1, <1>2 DEF Init, OwnersFit, None
  <1> QED BY <1>1, <1>3, <1>4, <1>5, BoundsAssumption DEF Init, TypeOK, SweepsFit, StartsFit, StartType, OwnersFit

\* The types hold (TypeOK): every rotation a message, a sweep or a request names
\* exists, and so does every key a row is under.
THEOREM TypeCorrect == Spec => []TypeOK
  BY TypeInit, TypeStep, PTL DEF Spec

-----------------------------------------------------------------------------
(* Texts.                                                                  *)

\* What a sweep is about to write back is what the owner last wrote, or was written
\* over meanwhile.
Unwritten == \A w \in Workers :
  /\ sweep[w].at # "ready" => sweep[w].got = {}
  /\ \A r \in sweep[w].got : r \in beside \/ sweep[w].said[r] = wrote[r]

\* A step of one sweep leaves what the others have not written.
LEMMA UnwrittenBut ==
  ASSUME TypeOK, Unwritten, NEW w \in Workers, NEW a \in SweepType, sweep' = [sweep EXCEPT ![w] = a],
         wrote' = wrote, beside' = beside,
         a.at # "ready" => a.got = {},
         \A r \in a.got : r \in beside \/ a.said[r] = wrote[r]
  PROVE  Unwritten'
  <1>1. sweep'[w] = a /\ \A v \in Workers \ {w} : sweep'[v] = sweep[v]
    BY DEF TypeOK
  <1>2. SUFFICES ASSUME NEW v \in Workers
                 PROVE  /\ sweep'[v].at # "ready" => sweep'[v].got = {}
                        /\ \A r \in sweep'[v].got : r \in beside \/ sweep'[v].said[r] = wrote[r]
    BY DEF Unwritten
  <1>3. CASE v = w
    BY <1>1, <1>3
  <1>4. CASE v # w
    BY <1>1, <1>4 DEF Unwritten
  <1> QED BY <1>3, <1>4

\* Texts and what is yet unwritten, action by action.
LEMMA TextStep == TypeOK /\ Unwritten /\ TextSurvives /\ [Next]_vars => Unwritten' /\ TextSurvives'
  <1> SUFFICES ASSUME TypeOK, Unwritten, TextSurvives, [Next]_vars PROVE Unwritten' /\ TextSurvives'
    OBVIOUS
  <1> USE DEF vars, keyVars, owners, history
  <1>0. \A w \in Workers : sweep[w] \in SweepType
    BY DEF TypeOK
  <1>1. CASE sweep' = sweep /\ blob' = blob /\ wrote' = wrote /\ beside' = beside
    BY <1>1 DEF Unwritten, TextSurvives
  <1>2. ASSUME NEW w \in Workers, NEW a \in SweepType, sweep' = [sweep EXCEPT ![w] = a],
               blob' = blob, wrote' = wrote, beside' = beside, a.at # "ready", a.got = {}
        PROVE  Unwritten' /\ TextSurvives'
    BY <1>2, UnwrittenBut DEF TextSurvives
  <1>3. ASSUME NEW w \in Workers, Take(w) PROVE Unwritten' /\ TextSurvives'
    <2>1. PICK n \in queued : Take(w)!(n)
      BY <1>3 DEF Take
    <2>2. CASE rotation[n].state = "done"
      BY <2>1, <2>2, <1>1
    <2>3. CASE rotation[n].state # "done"
      <3> DEFINE a == [Asleep EXCEPT !.at = "taken", !.rot = n, !.seen = rotation[n].state]
      <3>1. n \in Nat /\ rotation[n].state \in States
        BY RotationIs DEF TypeOK
      <3>2. a \in SweepType /\ a.at # "ready" /\ a.got = {}
        BY <3>1, AsleepFits DEF SweepType, Asleep
      <3>3. sweep' = [sweep EXCEPT ![w] = a] /\ blob' = blob /\ wrote' = wrote /\ beside' = beside
        BY <2>1, <2>3
      <3> HIDE DEF a
      <3> QED BY <3>2, <3>3, <1>2
    <2> QED BY <2>2, <2>3
  <1>4. ASSUME NEW w \in Workers, Begin(w) PROVE Unwritten' /\ TextSurvives'
    <2> DEFINE a == [sweep[w] EXCEPT !.at = "selecting", !.retired = Retired(sweep[w].rot)]
    <2>1. Retired(sweep[w].rot) \in SUBSET Nat
      BY DEF Retired, TypeOK
    <2>2. a \in SweepType /\ a.at # "ready" /\ a.got = {}
      BY <1>0, <1>4, <2>1 DEF Begin, SweepType, Unwritten
    <2>3. sweep' = [sweep EXCEPT ![w] = a] /\ blob' = blob /\ wrote' = wrote /\ beside' = beside
      BY <1>4 DEF Begin
    <2> HIDE DEF a
    <2> QED BY <2>2, <2>3, <1>2
  <1>5. ASSUME NEW w \in Workers, Select(w) PROVE Unwritten' /\ TextSurvives'
    <2>1. PICK b \in Selections(w) : Select(w)!(b)
      BY <1>5 DEF Select
    <2>2. b \subseteq Rows /\ sweep[w].got = {} /\ sweep[w] \in SweepType
      BY <2>1, <1>0 DEF Selections, Matching, Unwritten
    <2>3. CASE ToReencrypt(w, b) = {}
      <3> DEFINE a == NextTable(w)
      <3>1. a \in SweepType
        <4>1. sweep[w].table + 1 \in 1 .. Tables + 1
          BY <2>1, <2>2, BoundsAssumption DEF SweepType
        <4>2. Asleep.said \in [Rows -> Nat]
          BY DEF Asleep
        <4> QED BY <2>2, <4>1, <4>2 DEF NextTable, SweepType
      <3>2. a.at # "ready" /\ a.got = {}
        BY <2>1, <2>2 DEF NextTable, SweepType
      <3>3. sweep' = [sweep EXCEPT ![w] = a] /\ blob' = blob /\ wrote' = wrote /\ beside' = beside
        BY <2>1, <2>3
      <3> HIDE DEF a
      <3> QED BY <3>1, <3>2, <3>3, <1>2
    <2>4. CASE ToReencrypt(w, b) # {}
      <3> DEFINE l == Loaded(w, b)
                 a == [sweep[w] EXCEPT !.at = "ready", !.held = b, !.got = b \ sweep[w].held, !.said = l]
      <3>1. l \in [Rows -> Nat] /\ \A r \in b \ sweep[w].held : l[r] = blob[r].text
        <4>1. \A r \in Rows : blob[r].text \in Nat /\ sweep[w].said[r] \in Nat
          BY <1>0 DEF TypeOK, BlobType, SweepType
        <4> QED BY <2>2, <4>1 DEF Loaded
      <3> HIDE DEF l
      <3>2. a \in SweepType /\ a.at = "ready" /\ a.got = b \ sweep[w].held /\ a.said = l
        BY <2>2, <3>1 DEF SweepType
      <3>3. sweep' = [sweep EXCEPT ![w] = a] /\ blob' = blob /\ wrote' = wrote /\ beside' = beside
        BY <2>1, <2>4 DEF ToReencrypt, l
      <3>4. \A r \in b \ sweep[w].held : r \in beside \/ l[r] = wrote[r]
        BY <3>1, <2>2 DEF TextSurvives
      <3> HIDE DEF a
      <3> QED BY <3>2, <3>3, <3>4, UnwrittenBut DEF TextSurvives
    <2> QED BY <2>3, <2>4
  <1>6. ASSUME NEW w \in Workers, CommitBatch(w) PROVE Unwritten' /\ TextSurvives'
    <2> DEFINE a == [sweep[w] EXCEPT !.at = "selecting", !.got = {}]
    <2>1. a \in SweepType /\ a.at # "ready" /\ a.got = {}
      BY <1>0 DEF SweepType
    <2>2. sweep' = [sweep EXCEPT ![w] = a] /\ wrote' = wrote /\ beside' = beside
      BY <1>6 DEF CommitBatch
    <2> HIDE DEF a
    <2>3. Unwritten'
      BY <2>1, <2>2, UnwrittenBut
    <2>4. /\ \A r \in sweep[w].got : blob'[r].text = sweep[w].said[r]
          /\ \A r \in Rows \ sweep[w].got : blob'[r] = blob[r]
      BY <1>6, WrittenBack
    <2> QED BY <2>2, <2>3, <2>4 DEF Unwritten, TextSurvives
  <1>7. ASSUME NEW w \in Workers, Finish(w) \/ Fail(w) \/ Crash(w) PROVE Unwritten' /\ TextSurvives'
    <2>1. sweep' = [sweep EXCEPT ![w] = Asleep] /\ blob' = blob /\ wrote' = wrote /\ beside' = beside
      BY <1>7 DEF Finish, Fail, Crash
    <2> QED BY <2>1, <1>2, AsleepFits
  <1>8. ASSUME NEW r \in Rows, NEW k \in 0 .. keys, Put(r, k), sweep' = sweep
        PROVE  Unwritten' /\ TextSurvives'
    <2>1. /\ blob'[r].text = wrote'[r] /\ beside \subseteq beside'
          /\ \A q \in Rows \ {r} : blob'[q] = blob[q] /\ wrote'[q] = wrote[q]
          /\ \A w \in Workers : r \in sweep[w].got => r \in beside'
      BY <1>8, Written
    <2>2. \A w \in Workers : sweep[w].got \subseteq Rows
      BY <1>0 DEF SweepType
    <2> QED BY <1>8, <2>1, <2>2 DEF Unwritten, TextSurvives
  <1>9. ASSUME NEW r \in Rows, StoreModeA(r) \/ StoreModeB(r) PROVE Unwritten' /\ TextSurvives'
    <2>1. picked[r] \in 0 .. keys /\ ModeB \in 0 .. keys
      BY DEF TypeOK, ModeB
    <2> QED BY <1>8, <1>9, <2>1 DEF StoreModeA, StoreModeB
  <1>10. ASSUME NEW s \in Starters, Start(s) PROVE Unwritten' /\ TextSurvives'
    BY <1>1, <1>10 DEF Start, StartChecked, StartLoaded, StartCommitted, StartRefused, StartDispatched, StartDies
  <1>11. ASSUME NEW n, Redispatch(n) PROVE Unwritten' /\ TextSurvives'
    BY <1>1, <1>11 DEF Redispatch
  <1>12. ASSUME NEW r, PickKey(r) PROVE Unwritten' /\ TextSurvives'
    BY <1>1, <1>12 DEF PickKey
  <1>13. CASE UNCHANGED vars
    BY <1>1, <1>13
  <1> QED BY <1>3, <1>4, <1>5, <1>6, <1>7, <1>9, <1>10, <1>11, <1>12, <1>13 DEF Next, Step

\* At the start every text is under the first key.
LEMMA TextInit == Init => Unwritten /\ TextSurvives
  BY AsleepFits DEF Init, Unwritten, TextSurvives

\* No text is lost (TextSurvives): through any crashes, failures, sweeps that overlap and
\* rotations that race, a row that nobody wrote between the read and the commit of a
\* batch says what its owner last wrote.
THEOREM NoTextIsLost == Spec => []TextSurvives
  <1> DEFINE I == TypeOK /\ Unwritten /\ TextSurvives
  <1>1. Init => I
    BY TypeInit, TextInit
  <1>2. I /\ [Next]_vars => I'
    BY TypeStep, TextStep
  <1> QED BY <1>1, <1>2, PTL DEF Spec

-----------------------------------------------------------------------------
(* Keys: what a rotation's new_key_id says.                                *)

Sweeping(w) == sweep[w].at \in {"selecting", "ready"}

\* A rotation with no new key has failed; the newest one's is the newest key.
KeyedRows ==
  /\ \A n \in DOMAIN rotation : New(n) = None => rotation[n].state = "failed"
  /\ Newest # 0 => New(Newest) \in {None, keys}

\* A sweep that selects has a key, and starts at the first table with nothing in its
\* session.
KeyedSweep == \A w \in Workers :
  /\ Sweeping(w) => New(sweep[w].rot) # None
  /\ sweep[w].at = "taken" => sweep[w].table = 1 /\ sweep[w].held = {}

Keyed == KeyedRows /\ KeyedSweep

\* A step of one sweep leaves the others their keys.
LEMMA KeyedBut ==
  ASSUME TypeOK, KeyedSweep, NEW w \in Workers, NEW a \in SweepType, sweep' = [sweep EXCEPT ![w] = a],
         \A n \in DOMAIN rotation : rotation'[n].new = rotation[n].new,
         a.at \in {"selecting", "ready"} => a.rot = sweep[w].rot /\ sweep[w].at # "idle" /\ New(sweep[w].rot) # None,
         a.at = "taken" => a.table = 1 /\ a.held = {}
  PROVE  KeyedSweep'
  <1>1. sweep'[w] = a /\ \A v \in Workers \ {w} : sweep'[v] = sweep[v]
    BY DEF TypeOK
  <1>2. SUFFICES ASSUME NEW v \in Workers
                 PROVE  /\ sweep'[v].at \in {"selecting", "ready"} => rotation'[sweep'[v].rot].new # None
                        /\ sweep'[v].at = "taken" => sweep'[v].table = 1 /\ sweep'[v].held = {}
    BY DEF KeyedSweep, Sweeping, New
  <1>3. sweep[v].at # "idle" => sweep[v].rot \in DOMAIN rotation
    BY DEF TypeOK, Running
  <1>4. CASE v = w
    BY <1>1, <1>3, <1>4 DEF New
  <1>5. CASE v # w
    BY <1>1, <1>3, <1>5 DEF KeyedSweep, Sweeping, New
  <1> QED BY <1>4, <1>5

\* Rows and sweeps name keys that exist, action by action.
LEMMA KeyedStep == TypeOK /\ Keyed /\ [Next]_vars => Keyed'
  <1> SUFFICES ASSUME TypeOK, Keyed, [Next]_vars PROVE KeyedRows' /\ KeyedSweep'
    BY DEF Keyed
  <1> USE DEF vars, keyVars, owners, history
  <1>0. /\ KeyedRows /\ KeyedSweep
        /\ \A w \in Workers : sweep[w] \in SweepType /\ (Running(w) => sweep[w].rot \in DOMAIN rotation)
    BY DEF Keyed, TypeOK
  <1>a. keys \in Nat /\ Newest \in Nat /\ DOMAIN rotation = 1 .. Newest
    BY DEF TypeOK, Newest
  <1>1. CASE sweep' = sweep /\ rotation' = rotation /\ keys' = keys
    BY <1>0, <1>1 DEF KeyedRows, KeyedSweep, Sweeping, New, Newest
  <1>2. ASSUME NEW s \in Starters, StartCommitted(s) \/ StartRefused(s) PROVE KeyedRows' /\ KeyedSweep'
    <2>1. PICK a \in [new : 0 .. keys', state : States] :
             /\ rotation' = Append(rotation, a) /\ keys' \in {keys, keys + 1}
             /\ a.new = None => a.state = "failed"
             /\ a.new \in {None, keys'}
      <3>1. CASE StartCommitted(s)
        <4> DEFINE a == [new |-> keys', state |-> IF start[s].holds = None THEN "done" ELSE "pending"]
        <4>1. keys' = keys + 1 /\ rotation' = Append(rotation, a)
          BY <3>1 DEF StartCommitted
        <4>2. a \in [new : 0 .. keys', state : States] /\ a.new = keys' /\ a.new # None
          BY <4>1, <1>a DEF States, None
        <4> HIDE DEF a
        <4> QED BY <4>1, <4>2
      <3>2. CASE StartRefused(s)
        <4> DEFINE a == [new |-> None, state |-> "failed"]
        <4>1. keys' = keys /\ rotation' = Append(rotation, a)
          BY <3>2 DEF StartRefused
        <4>2. a \in [new : 0 .. keys', state : States] /\ a.new = None /\ a.state = "failed"
          BY <4>1, <1>a DEF States, None
        <4> HIDE DEF a
        <4> QED BY <4>1, <4>2
      <3> QED BY <1>2, <3>1, <3>2
    <2>2. /\ Newest' = Newest + 1 /\ DOMAIN rotation' = 1 .. Newest + 1
          /\ \A n \in DOMAIN rotation : rotation'[n] = rotation[n]
          /\ rotation'[Newest + 1] = a
      BY <2>1, Appended
    <2>3. \A n \in DOMAIN rotation' : n \in DOMAIN rotation \/ n = Newest + 1
      BY <2>2, <1>a
    <2>4. KeyedRows'
      BY <2>1, <2>2, <2>3, <1>0 DEF KeyedRows, New
    <2>5. KeyedSweep'
      <3>1. sweep' = sweep
        BY <1>2 DEF StartCommitted, StartRefused
      <3>2. \A w \in Workers : Running(w) => rotation'[sweep[w].rot].new = New(sweep[w].rot)
        BY <1>0, <2>2 DEF New
      <3> QED BY <1>0, <3>1, <3>2 DEF KeyedSweep, Sweeping, Running, New
    <2> QED BY <2>4, <2>5
  <1>3. ASSUME NEW w \in Workers, Take(w) PROVE KeyedRows' /\ KeyedSweep'
    <2>1. PICK n \in queued : Take(w)!(n)
      BY <1>3 DEF Take
    <2>2. CASE rotation[n].state = "done"
      BY <2>1, <2>2, <1>1
    <2>3. CASE rotation[n].state # "done"
      <3> DEFINE a == [Asleep EXCEPT !.at = "taken", !.rot = n, !.seen = rotation[n].state]
      <3>1. n \in Nat /\ rotation[n].state \in States
        BY RotationIs DEF TypeOK
      <3>2. a \in SweepType /\ a.at = "taken" /\ a.table = 1 /\ a.held = {}
        BY <3>1, AsleepFits DEF SweepType, Asleep
      <3>3. sweep' = [sweep EXCEPT ![w] = a] /\ rotation' = rotation /\ keys' = keys
        BY <2>1, <2>3
      <3> HIDE DEF a
      <3>4. KeyedSweep'
        BY <3>2, <3>3, <1>0, KeyedBut
      <3> QED BY <3>3, <3>4, <1>0 DEF KeyedRows, New, Newest
    <2> QED BY <2>2, <2>3
  <1>4. ASSUME NEW n \in DOMAIN rotation, NEW st \in States, rotation' = [rotation EXCEPT ![n].state = st],
               keys' = keys, New(n) = None => st = "failed"
        PROVE  KeyedRows' /\ \A m \in DOMAIN rotation : rotation'[m].new = rotation[m].new
    <2>1. /\ DOMAIN rotation' = DOMAIN rotation /\ Newest' = Newest
          /\ \A m \in DOMAIN rotation : rotation'[m].new = rotation[m].new
          /\ rotation'[n].state = st /\ \A m \in DOMAIN rotation \ {n} : rotation'[m] = rotation[m]
      BY <1>4, Restated
    <2>2. Newest # 0 => Newest \in DOMAIN rotation
      BY <1>a
    <2> QED BY <1>0, <1>4, <2>1, <2>2 DEF KeyedRows, New
  <1>5. ASSUME NEW w \in Workers, Begin(w) PROVE KeyedRows' /\ KeyedSweep'
    <2> DEFINE n == sweep[w].rot
               a == [sweep[w] EXCEPT !.at = "selecting", !.retired = Retired(n)]
    <2>1. n \in DOMAIN rotation /\ New(n) # None /\ keys' = keys /\ sweep' = [sweep EXCEPT ![w] = a]
      BY <1>0, <1>5 DEF Begin, Running
    <2>2. Retired(n) \in SUBSET Nat
      BY DEF Retired, TypeOK
    <2>3. a \in SweepType /\ a.at = "selecting" /\ a.rot = n /\ sweep[w].at # "idle"
      BY <1>0, <1>5, <2>2 DEF Begin, SweepType
    <2>4. KeyedRows' /\ \A m \in DOMAIN rotation : rotation'[m].new = rotation[m].new
      <3>1. CASE rotation' = rotation
        BY <3>1, <2>1, <1>0 DEF KeyedRows, New, Newest
      <3>2. CASE rotation' # rotation
        BY <3>2, <1>4, <1>5, <2>1 DEF Begin, States
      <3> QED BY <3>1, <3>2
    <2> HIDE DEF a
    <2> QED BY <2>1, <2>3, <2>4, <1>0, KeyedBut
  <1>6. ASSUME NEW w \in Workers, Select(w) PROVE KeyedRows' /\ KeyedSweep'
    <2>1. PICK b \in Selections(w) : Select(w)!(b)
      BY <1>6 DEF Select
    <2> DEFINE a == IF ToReencrypt(w, b) = {} THEN NextTable(w)
                    ELSE [sweep[w] EXCEPT !.at = "ready", !.held = b,
                                          !.got = ToReencrypt(w, b), !.said = Loaded(w, b)]
    <2>2. sweep' = [sweep EXCEPT ![w] = a] /\ rotation' = rotation /\ keys' = keys
      BY <2>1
    <2>3. a.at \in {"selecting", "ready"} /\ a.rot = sweep[w].rot
      BY <2>1, <1>0 DEF NextTable, SweepType
    <2> HIDE DEF a
    <2>4. sweep'[w] = a /\ sweep' \in [Workers -> SweepType]
      BY <2>2, TypeStep DEF TypeOK
    <2>5. New(sweep[w].rot) # None /\ sweep[w].at # "idle"
      BY <2>1, <1>0 DEF KeyedSweep, Sweeping
    <2>6. KeyedSweep'
      BY <2>2, <2>3, <2>4, <2>5, <1>0, KeyedBut
    <2> QED BY <2>2, <2>6, <1>0 DEF KeyedRows, New, Newest
  <1>7. ASSUME NEW w \in Workers, CommitBatch(w) PROVE KeyedRows' /\ KeyedSweep'
    <2> DEFINE a == [sweep[w] EXCEPT !.at = "selecting", !.got = {}]
    <2>1. a \in SweepType /\ a.at = "selecting" /\ a.rot = sweep[w].rot
      BY <1>0 DEF SweepType
    <2>2. sweep' = [sweep EXCEPT ![w] = a] /\ rotation' = rotation /\ keys' = keys /\ sweep[w].at # "idle"
      BY <1>7 DEF CommitBatch
    <2> HIDE DEF a
    <2>3. New(sweep[w].rot) # None
      BY <1>0, <1>7 DEF KeyedSweep, Sweeping, CommitBatch
    <2>4. KeyedSweep'
      BY <2>1, <2>2, <2>3, <1>0, KeyedBut
    <2> QED BY <2>2, <2>4, <1>0 DEF KeyedRows, New, Newest
  <1>8. ASSUME NEW w \in Workers, Finish(w) \/ Fail(w) \/ Crash(w) PROVE KeyedRows' /\ KeyedSweep'
    <2>1. sweep[w].rot \in DOMAIN rotation /\ sweep' = [sweep EXCEPT ![w] = Asleep] /\ keys' = keys
      BY <1>0, <1>8 DEF Finish, Fail, Crash, Running
    <2>2. KeyedRows' /\ \A m \in DOMAIN rotation : rotation'[m].new = rotation[m].new
      <3>1. CASE rotation' = rotation
        BY <3>1, <2>1, <1>0 DEF KeyedRows, New, Newest
      <3>2. CASE Finish(w)
        <4>1. New(sweep[w].rot) # None
          BY <3>2, <1>0 DEF Finish, KeyedSweep, Sweeping
        <4> QED BY <3>2, <4>1, <2>1, <1>4 DEF Finish, States
      <3>3. CASE ~ Finish(w) /\ rotation' # rotation
        BY <3>3, <2>1, <1>4, <1>8 DEF Fail, Crash, States
      <3> QED BY <3>1, <3>2, <3>3
    <2> QED BY <2>1, <2>2, <1>0, AsleepFits, KeyedBut
  <1>9. ASSUME NEW s \in Starters, Start(s) PROVE KeyedRows' /\ KeyedSweep'
    BY <1>1, <1>2, <1>9 DEF Start, StartChecked, StartLoaded, StartDispatched, StartDies
  <1>10. ASSUME NEW n, Redispatch(n) PROVE KeyedRows' /\ KeyedSweep'
    BY <1>1, <1>10 DEF Redispatch
  <1>11. ASSUME NEW r, PickKey(r) \/ StoreModeA(r) \/ StoreModeB(r) PROVE KeyedRows' /\ KeyedSweep'
    BY <1>1, <1>11 DEF PickKey, StoreModeA, StoreModeB
  <1>12. CASE UNCHANGED vars
    BY <1>1, <1>12
  <1> QED BY <1>3, <1>5, <1>6, <1>7, <1>8, <1>9, <1>10, <1>11, <1>12 DEF Next, Step

\* At the start there is one key.
LEMMA KeyedInit == Init => Keyed
  BY DEF Init, Keyed, KeyedRows, KeyedSweep, Sweeping, Asleep, Newest

-----------------------------------------------------------------------------
(* Migration, while rotations do not overlap.                              *)

Few     == solo /\ Cardinality(strays) < BatchSize
Fine(r) == r \in strays \/ blob[r].key \in {ModeB, keys}

\* A sweep leaves no row behind it but strays.
Swept(w) ==
  /\ sweep[w].retired = (1 .. keys) \ {keys}
  /\ \A r \in Rows : Table[r] < sweep[w].table => Fine(r)
  /\ \A r \in sweep[w].held : r \in sweep[w].got \/ Fine(r)

OneActive == active = {keys} \ {None}
NewestKey == \A w \in Workers : Running(w) => New(sweep[w].rot) \in {None, keys}
AllSwept  == \A w \in Workers : Sweeping(w) => Swept(w)
DoneMeans == Newest # 0 /\ rotation[Newest].state = "done" => \A r \in Rows : Fine(r)

Migrating == Few => OneActive /\ NewestKey /\ AllSwept /\ DoneMeans

IInv == TypeOK /\ Unwritten /\ TextSurvives /\ Keyed /\ Migrating

\* What a step leaves of strays: more of them.
LEMMA FewBefore ==
  ASSUME TypeOK, TypeOK', strays \subseteq strays', solo' => solo, Few'
  PROVE  Few
  <1>1. IsFiniteSet(strays') /\ IsFiniteSet(strays)
    BY BoundsAssumption, FS_Subset DEF TypeOK
  <1>2. Cardinality(strays) <= Cardinality(strays') /\ Cardinality(strays) \in Nat /\ Cardinality(strays') \in Nat
    BY <1>1, FS_Subset, FS_CardinalityType
  <1> QED BY <1>2, BoundsAssumption DEF Few

\* One sweep looked at, while no rotation begins and no row goes back under an old key.
LEMMA SweptBut ==
  ASSUME TypeOK, NewestKey, AllSwept, NEW w \in Workers, NEW a \in SweepType, sweep' = [sweep EXCEPT ![w] = a],
         keys' = keys, \A n \in DOMAIN rotation : rotation'[n].new = rotation[n].new,
         \A r \in Rows : Fine(r) => Fine(r)',
         a.at # "idle" => a.rot \in DOMAIN rotation /\ New(a.rot) \in {None, keys},
         a.at \in {"selecting", "ready"} =>
           /\ a.retired = (1 .. keys) \ {keys}
           /\ \A r \in Rows : Table[r] < a.table => Fine(r)'
           /\ \A r \in a.held : r \in a.got \/ Fine(r)'
  PROVE  NewestKey' /\ AllSwept'
  <1>1. sweep'[w] = a /\ \A v \in Workers \ {w} : sweep'[v] = sweep[v]
    BY DEF TypeOK
  <1>2. \A v \in Workers : Running(v) => sweep[v].rot \in DOMAIN rotation
    BY DEF TypeOK
  <1>3. \A v \in Workers : sweep[v] \in SweepType
    BY DEF TypeOK
  <1>4. NewestKey'
    <2>1. SUFFICES ASSUME NEW v \in Workers, sweep'[v].at # "idle"
                   PROVE  rotation'[sweep'[v].rot].new \in {None, keys}
      BY DEF NewestKey, Running, New
    <2>2. CASE v = w
      BY <1>1, <2>1, <2>2 DEF New
    <2>3. CASE v # w
      BY <1>1, <1>2, <2>1, <2>3 DEF New, NewestKey, Running
    <2> QED BY <2>2, <2>3
  <1>5. AllSwept'
    <2>1. SUFFICES ASSUME NEW v \in Workers, sweep'[v].at \in {"selecting", "ready"}
                   PROVE  /\ sweep'[v].retired = (1 .. keys) \ {keys}
                          /\ \A r \in Rows : Table[r] < sweep'[v].table => Fine(r)'
                          /\ \A r \in sweep'[v].held : r \in sweep'[v].got \/ Fine(r)'
      BY DEF AllSwept, Sweeping, Swept, Fine
    <2>2. CASE v = w
      BY <1>1, <2>1, <2>2
    <2>3. CASE v # w
      <3>1. sweep'[v] = sweep[v] /\ Swept(v) /\ sweep[v].held \subseteq Rows
        BY <1>1, <1>3, <2>1, <2>3 DEF AllSwept, Sweeping, SweepType
      <3> QED BY <3>1 DEF Swept
    <2> QED BY <2>2, <2>3
  <1> QED BY <1>4, <1>5

\* No sweep looked at.
LEMMA SweptAll ==
  ASSUME TypeOK, NewestKey, AllSwept, sweep' = sweep,
         keys' = keys, \A n \in DOMAIN rotation : rotation'[n].new = rotation[n].new,
         \A r \in Rows : Fine(r) => Fine(r)'
  PROVE  NewestKey' /\ AllSwept'
  <1>1. \A v \in Workers : sweep[v] \in SweepType /\ (Running(v) => sweep[v].rot \in DOMAIN rotation)
    BY DEF TypeOK
  <1>2. NewestKey'
    BY <1>1 DEF NewestKey, Running, New
  <1>3. ASSUME NEW v \in Workers, Sweeping(v)
        PROVE  /\ sweep[v].retired = (1 .. keys) \ {keys}
               /\ \A r \in Rows : Table[r] < sweep[v].table => Fine(r)'
               /\ \A r \in sweep[v].held : r \in sweep[v].got \/ Fine(r)'
    BY <1>1, <1>3 DEF AllSwept, Swept, SweepType
  <1> QED BY <1>2, <1>3 DEF AllSwept, Swept, Sweeping, Fine

\* Few overlaps keep one active key and every row swept, action by action.
LEMMA MigratingStep == TypeOK /\ Unwritten /\ Keyed /\ Migrating /\ [Next]_vars => Migrating'
  <1> DEFINE Goal == OneActive /\ NewestKey /\ AllSwept /\ DoneMeans
  <1> SUFFICES ASSUME TypeOK, Unwritten, Keyed, Migrating, [Next]_vars, Few' PROVE Goal'
    BY DEF Migrating
  <1> USE DEF vars, keyVars, owners, history
  <1>0. TypeOK' /\ KeyedRows /\ KeyedSweep
    BY TypeStep DEF Keyed
  <1>a. strays \subseteq strays' /\ (solo' => solo)
    <2>1. ASSUME NEW s \in Starters, Start(s) PROVE strays \subseteq strays' /\ (solo' => solo)
      <3>1. CASE StartCommitted(s)
        BY <3>1 DEF StartCommitted
      <3>2. CASE ~ StartCommitted(s)
        <4>1. strays' = strays /\ solo' = solo
          BY <2>1, <3>2 DEF Start, StartChecked, StartLoaded, StartRefused, StartDispatched, StartDies
        <4> QED BY <4>1
      <3> QED BY <3>1, <3>2
    <2>2. ASSUME NEW w \in Workers, Take(w) \/ Step(w) \/ Crash(w) PROVE strays \subseteq strays' /\ (solo' => solo)
      <3>1. CASE Take(w)
        <4>1. PICK n \in queued : Take(w)!(n)
          BY <3>1 DEF Take
        <4> QED BY <4>1
      <3>2. CASE Step(w) \/ Crash(w)
        <4>1. strays' = strays /\ solo' = solo
          <5>1. CASE Begin(w) \/ CommitBatch(w) \/ Finish(w)
            BY <5>1 DEF Begin, CommitBatch, Finish
          <5>2. CASE Select(w) \/ Fail(w) \/ Crash(w)
            BY <5>2 DEF Select, Fail, Crash
          <5> QED BY <3>2, <5>1, <5>2 DEF Step
        <4> QED BY <4>1
      <3> QED BY <2>2, <3>1, <3>2
    <2>3. ASSUME NEW n, Redispatch(n) PROVE strays \subseteq strays' /\ (solo' => solo)
      BY <2>3 DEF Redispatch
    <2>4. ASSUME NEW r, PickKey(r) \/ StoreModeA(r) \/ StoreModeB(r) PROVE strays \subseteq strays' /\ (solo' => solo)
      BY <2>4 DEF PickKey, StoreModeA, StoreModeB
    <2>5. CASE UNCHANGED vars
      BY <2>5
    <2> QED BY <2>1, <2>2, <2>3, <2>4, <2>5 DEF Next
  <1>b. OneActive /\ NewestKey /\ AllSwept /\ DoneMeans
    BY <1>0, <1>a, FewBefore DEF Migrating
  <1>c. /\ keys \in Nat /\ Newest \in Nat /\ DOMAIN rotation = 1 .. Newest
        /\ \A r \in Rows : blob[r].key \in 0 .. keys
        /\ \A w \in Workers : sweep[w] \in SweepType /\ (Running(w) => sweep[w].rot \in DOMAIN rotation)
    BY DEF TypeOK, Newest
  <1>1. CASE /\ keys' = keys /\ active' = active /\ rotation' = rotation
             /\ sweep' = sweep /\ blob' = blob /\ strays' = strays
    BY <1>1, <1>b DEF OneActive, NewestKey, AllSwept, DoneMeans, Swept, Fine, Sweeping, Running, New, Newest
  <1>2. ASSUME NEW s \in Starters, StartCommitted(s) PROVE Goal'
    <2> DEFINE first == start[s].holds = None
               a == [new |-> keys', state |-> IF first THEN "done" ELSE "pending"]
    <2>1. /\ keys' = keys + 1 /\ active' = (active \ {start[s].holds}) \cup {keys'}
          /\ rotation' = Append(rotation, a) /\ sweep' = sweep /\ blob' = blob /\ strays' = strays
      BY <1>2 DEF StartCommitted
    <2>2. active' = {keys'} /\ \A w \in Workers : ~ Running(w)
      BY <1>2 DEF StartCommitted, Few
    <2>3. a \in [new : 0 .. keys', state : States] /\ (a.state = "done" => first)
      BY <2>1, <1>c DEF States
    <2> HIDE DEF a
    <2>4. Newest' = Newest + 1 /\ rotation'[Newest + 1] = a
      BY <2>1, <2>3, Appended
    <2>5. OneActive'
      BY <2>1, <2>2, <1>c DEF OneActive, None
    <2>6. NewestKey' /\ AllSwept'
      BY <2>1, <2>2 DEF NewestKey, AllSwept, Sweeping, Running
    <2>7. CASE ~ first
      BY <2>3, <2>4, <2>5, <2>6, <2>7 DEF DoneMeans
    <2>8. CASE first
      <3>1. keys = 0
        <4>1. start[s].holds = 0
          BY <2>8 DEF None
        <4>2. keys # 0 => keys \in active /\ keys # start[s].holds
          BY <4>1, <1>b DEF OneActive, None
        <4>3. keys # 0 => keys \in {keys'}
          BY <2>1, <2>2, <4>2
        <4> QED BY <4>3, <2>1, <1>c
      <3>2. \A r \in Rows : blob'[r].key = ModeB
        BY <2>1, <3>1, <1>c DEF ModeB
      <3> QED BY <3>2, <2>5, <2>6 DEF DoneMeans, Fine
    <2> QED BY <2>7, <2>8
  <1>3. ASSUME NEW s \in Starters, StartRefused(s) PROVE Goal'
    <2> DEFINE a == [new |-> None, state |-> "failed"]
    <2>1. /\ keys' = keys /\ active' = active /\ sweep' = sweep /\ blob' = blob /\ strays' = strays
          /\ rotation' = Append(rotation, a)
      BY <1>3 DEF StartRefused
    <2>2. a \in [new : 0 .. keys', state : States] /\ a.state # "done"
      BY <2>1, <1>c DEF States, None
    <2> HIDE DEF a
    <2>3. /\ Newest' = Newest + 1 /\ rotation'[Newest + 1] = a
          /\ \A n \in DOMAIN rotation : rotation'[n] = rotation[n]
      BY <2>1, <2>2, Appended
    <2>4. NewestKey' /\ AllSwept'
      BY <2>1, <2>3, <1>b, SweptAll DEF Fine
    <2> QED BY <2>1, <2>2, <2>3, <2>4, <1>b DEF OneActive, DoneMeans
  <1>4. ASSUME NEW w \in Workers, Take(w) PROVE Goal'
    <2>1. PICK n \in queued : Take(w)!(n)
      BY <1>4 DEF Take
    <2>2. CASE rotation[n].state = "done"
      BY <2>1, <2>2, <1>1
    <2>3. CASE rotation[n].state # "done"
      <3> DEFINE a == [Asleep EXCEPT !.at = "taken", !.rot = n, !.seen = rotation[n].state]
      <3>1. n \in DOMAIN rotation /\ n \in Nat \ {0} /\ rotation[n].state \in States
        BY RotationIs DEF TypeOK
      <3>2. a \in SweepType /\ a.at = "taken" /\ a.rot = n
        BY <3>1, AsleepFits DEF SweepType, Asleep
      <3>3. /\ sweep' = [sweep EXCEPT ![w] = a] /\ keys' = keys /\ active' = active
            /\ rotation' = rotation /\ blob' = blob /\ strays' = strays
            /\ solo' = (solo /\ (n = Newest \/ New(n) = None))
        BY <2>1, <2>3
      <3> HIDE DEF a
      <3>4. New(n) \in {None, keys}
        BY <3>1, <3>3, <1>0 DEF Few, KeyedRows
      <3>5. NewestKey' /\ AllSwept'
        BY <3>1, <3>2, <3>3, <3>4, <1>b, SweptBut DEF Fine
      <3> QED BY <3>3, <3>5, <1>b DEF OneActive, DoneMeans, Newest, Fine
    <2> QED BY <2>2, <2>3
  <1>5. ASSUME NEW n \in DOMAIN rotation, NEW st \in States, st # "done",
               rotation' = [rotation EXCEPT ![n].state = st],
               keys' = keys, blob' = blob, strays' = strays
        PROVE  DoneMeans' /\ \A m \in DOMAIN rotation : rotation'[m].new = rotation[m].new
    <2>1. /\ Newest' = Newest /\ \A m \in DOMAIN rotation : rotation'[m].new = rotation[m].new
          /\ rotation'[n].state = st /\ \A m \in DOMAIN rotation \ {n} : rotation'[m] = rotation[m]
      BY <1>5, Restated
    <2>2. Newest # 0 => Newest \in DOMAIN rotation
      BY <1>c
    <2> QED BY <1>b, <1>5, <2>1, <2>2 DEF DoneMeans, Fine
  <1>6. ASSUME NEW w \in Workers, Begin(w) PROVE Goal'
    <2> DEFINE n == sweep[w].rot
               a == [sweep[w] EXCEPT !.at = "selecting", !.retired = Retired(n)]
    <2>1. /\ n \in DOMAIN rotation /\ sweep' = [sweep EXCEPT ![w] = a]
          /\ keys' = keys /\ active' = active /\ blob' = blob /\ strays' = strays
      BY <1>c, <1>6 DEF Begin, Running
    <2>2. New(n) = keys /\ Retired(n) = (1 .. keys) \ {keys}
      BY <1>b, <1>6 DEF Begin, NewestKey, Running, Retired
    <2>3. Retired(n) \in SUBSET Nat /\ sweep[w].table = 1 /\ sweep[w].held = {}
      BY <1>0, <1>6 DEF Begin, KeyedSweep, Retired
    <2>4. /\ a \in SweepType /\ a.rot = n /\ a.retired = (1 .. keys) \ {keys}
          /\ a.table = 1 /\ a.held = {}
      BY <1>c, <2>2, <2>3 DEF SweepType
    <2>5. \A r \in Rows : ~ Table[r] < 1
      BY BoundsAssumption
    <2>6. DoneMeans' /\ \A m \in DOMAIN rotation : rotation'[m].new = rotation[m].new
      <3>1. CASE rotation' = rotation
        BY <3>1, <2>1, <1>b DEF DoneMeans, Fine, Newest
      <3>2. CASE rotation' # rotation
        BY <3>2, <1>5, <1>6, <2>1 DEF Begin, States
      <3> QED BY <3>1, <3>2
    <2> HIDE DEF a, n
    <2>7. NewestKey' /\ AllSwept'
      BY <2>1, <2>2, <2>4, <2>5, <2>6, <1>b, SweptBut DEF Fine
    <2> QED BY <2>1, <2>6, <2>7, <1>b DEF OneActive
  <1>7. ASSUME NEW w \in Workers, sweep[w].at \in {"selecting", "ready"}
        PROVE  /\ sweep[w].rot \in DOMAIN rotation /\ New(sweep[w].rot) = keys /\ Swept(w)
    BY <1>0, <1>b, <1>c, <1>7 DEF NewestKey, AllSwept, Sweeping, Running, KeyedSweep
  <1>8. ASSUME NEW w \in Workers, Select(w) PROVE Goal'
    <2>1. PICK b \in Selections(w) : Select(w)!(b)
      BY <1>8 DEF Select
    <2>2. /\ b \subseteq Matching(w) /\ b \subseteq Rows
          /\ Cardinality(b) = BatchSize \/ b = Matching(w)
      BY <2>1 DEF Selections, Matching
    <2>3. sweep[w].rot \in DOMAIN rotation /\ New(sweep[w].rot) = keys /\ Swept(w)
      BY <1>7, <2>1
    <2>4. \A r \in sweep[w].held : Fine(r)
      BY <2>1, <2>3 DEF Swept, Unwritten
    <2>5. /\ keys' = keys /\ active' = active /\ rotation' = rotation
          /\ blob' = blob /\ strays' = strays
      BY <2>1
    <2>6. CASE ToReencrypt(w, b) # {}
      <3> DEFINE l == Loaded(w, b)
                 a == [sweep[w] EXCEPT !.at = "ready", !.held = b, !.got = b \ sweep[w].held, !.said = l]
      <3>1. l \in [Rows -> Nat]
        <4>1. \A r \in Rows : blob[r].text \in Nat /\ sweep[w].said[r] \in Nat
          BY <1>c DEF TypeOK, BlobType, SweepType
        <4> QED BY <2>2, <4>1 DEF Loaded
      <3>2. sweep' = [sweep EXCEPT ![w] = a]
        BY <2>1, <2>6 DEF ToReencrypt
      <3> HIDE DEF l
      <3>3. /\ a \in SweepType /\ a.rot = sweep[w].rot /\ a.retired = sweep[w].retired
            /\ a.table = sweep[w].table /\ a.held = b /\ a.got = b \ sweep[w].held
        BY <1>c, <2>2, <3>1 DEF SweepType
      <3> HIDE DEF a
      <3>4. NewestKey' /\ AllSwept'
        BY <2>3, <2>4, <2>5, <3>2, <3>3, <1>b, SweptBut DEF Swept, Fine
      <3> QED BY <2>5, <3>4, <1>b DEF OneActive, DoneMeans, Fine, Newest
    <2>7. CASE ToReencrypt(w, b) = {}
      <3>1. b \subseteq sweep[w].held
        BY <2>7 DEF ToReencrypt
      <3>2. \A r \in Rows : blob[r].key \in sweep[w].retired <=> blob[r].key \notin {ModeB, keys}
        BY <1>c, <2>3 DEF Swept, ModeB
      <3>3. b \subseteq strays
        BY <2>2, <2>4, <3>1, <3>2 DEF Matching, Fine
      <3>4. b = Matching(w)
        <4>1. IsFiniteSet(strays) /\ IsFiniteSet(b)
          BY <3>3, BoundsAssumption, FS_Subset DEF TypeOK
        <4>2. Cardinality(b) <= Cardinality(strays) /\ Cardinality(b) \in Nat /\ Cardinality(strays) \in Nat
          BY <3>3, <4>1, FS_Subset, FS_CardinalityType
        <4>3. Cardinality(strays) < BatchSize
          BY <2>5 DEF Few
        <4> QED BY <2>2, <4>2, <4>3, BoundsAssumption
      <3>5. \A r \in Rows : Table[r] = sweep[w].table => Fine(r)
        BY <3>2, <3>3, <3>4 DEF Matching, Fine
      <3>6. \A r \in Rows : Table[r] < sweep[w].table + 1 => Fine(r)
        <4>1. sweep[w].table \in Nat /\ \A r \in Rows : Table[r] \in Nat
          BY <1>c, BoundsAssumption DEF SweepType
        <4>2. \A r \in Rows : Table[r] < sweep[w].table + 1 => Table[r] < sweep[w].table \/ Table[r] = sweep[w].table
          BY <4>1
        <4> QED BY <2>3, <3>5, <4>2 DEF Swept
      <3> DEFINE a == NextTable(w)
      <3>7. /\ a \in SweepType /\ a.rot = sweep[w].rot /\ a.retired = sweep[w].retired
            /\ a.table = sweep[w].table + 1 /\ a.held = {}
        <4>1. sweep[w].table + 1 \in 1 .. Tables + 1
          BY <1>c, <2>1, BoundsAssumption DEF SweepType
        <4>2. Asleep.said \in [Rows -> Nat]
          BY DEF Asleep
        <4> QED BY <1>c, <4>1, <4>2 DEF NextTable, SweepType
      <3>8. sweep' = [sweep EXCEPT ![w] = a]
        BY <2>1, <2>7
      <3> HIDE DEF a
      <3>9. NewestKey' /\ AllSwept'
        BY <2>3, <2>5, <3>6, <3>7, <3>8, <1>b, SweptBut DEF Swept, Fine
      <3> QED BY <2>5, <3>9, <1>b DEF OneActive, DoneMeans, Fine, Newest
    <2> QED BY <2>6, <2>7
  <1>9. ASSUME NEW w \in Workers, CommitBatch(w) PROVE Goal'
    <2> DEFINE a == [sweep[w] EXCEPT !.at = "selecting", !.got = {}]
    <2>1. /\ sweep' = [sweep EXCEPT ![w] = a] /\ keys' = keys /\ active' = active
          /\ rotation' = rotation /\ strays' = strays /\ sweep[w].at = "ready"
      BY <1>9 DEF CommitBatch
    <2>2. /\ a \in SweepType /\ a.rot = sweep[w].rot /\ a.retired = sweep[w].retired
          /\ a.table = sweep[w].table /\ a.held = sweep[w].held
      BY <1>c DEF SweepType
    <2> HIDE DEF a
    <2>3. sweep[w].rot \in DOMAIN rotation /\ New(sweep[w].rot) = keys /\ Swept(w)
      BY <1>7, <2>1
    <2>4. /\ \A r \in sweep[w].got : Fine(r)'
          /\ \A r \in Rows : Fine(r) => Fine(r)'
      BY <1>9, <2>1, <2>3, WrittenBack DEF Fine
    <2>5. sweep[w].held \subseteq Rows
      BY <1>c DEF SweepType
    <2>6. NewestKey' /\ AllSwept'
      BY <2>1, <2>2, <2>3, <2>4, <2>5, <1>b, SweptBut DEF Swept
    <2> QED BY <2>1, <2>4, <2>6, <1>b DEF OneActive, DoneMeans, Newest
  <1>10. ASSUME NEW w \in Workers, Finish(w) \/ Fail(w) \/ Crash(w) PROVE Goal'
    <2>1. /\ sweep[w].rot \in DOMAIN rotation /\ sweep' = [sweep EXCEPT ![w] = Asleep]
          /\ keys' = keys /\ active' = active /\ blob' = blob /\ strays' = strays
      BY <1>10, <1>c DEF Finish, Fail, Crash, Running
    <2>2. DoneMeans' /\ \A m \in DOMAIN rotation : rotation'[m].new = rotation[m].new
      <3>1. CASE rotation' = rotation
        BY <3>1, <2>1, <1>b DEF DoneMeans, Fine, Newest
      <3>2. CASE Finish(w)
        <4>1. Swept(w) /\ sweep[w].table > Tables
          BY <1>7, <3>2 DEF Finish
        <4>2. \A r \in Rows : Table[r] < sweep[w].table
          BY <4>1, <1>c, BoundsAssumption DEF SweepType
        <4>3. \A r \in Rows : Fine(r)'
          BY <4>1, <4>2, <2>1 DEF Swept, Fine
        <4>4. \A m \in DOMAIN rotation : rotation'[m].new = rotation[m].new
          BY <3>2, <2>1, Restated DEF Finish, States
        <4> QED BY <4>3, <4>4 DEF DoneMeans
      <3>3. CASE ~ Finish(w) /\ rotation' # rotation
        BY <3>3, <2>1, <1>5, <1>10 DEF Fail, Crash, States
      <3> QED BY <3>1, <3>2, <3>3
    <2>3. NewestKey' /\ AllSwept'
      BY <2>1, <2>2, <1>b, AsleepFits, SweptBut DEF Fine
    <2> QED BY <2>1, <2>2, <2>3, <1>b DEF OneActive
  <1>11. ASSUME NEW r \in Rows, StoreModeA(r) \/ StoreModeB(r) PROVE Goal'
    <2>1. sweep' = sweep /\ keys' = keys /\ active' = active /\ rotation' = rotation
      BY <1>11 DEF StoreModeA, StoreModeB
    <2>2. PICK k \in 0 .. keys : Put(r, k) /\ (k \in {ModeB, keys} \/ r \in strays')
      <3>1. CASE StoreModeA(r)
        BY <3>1, <1>b DEF StoreModeA, TypeOK, OneActive
      <3>2. CASE StoreModeB(r)
        BY <3>2, <1>c DEF StoreModeB, ModeB
      <3> QED BY <1>11, <3>1, <3>2
    <2>3. \A q \in Rows : Fine(q) => Fine(q)'
      BY <1>a, <2>1, <2>2, Written DEF Fine
    <2>4. NewestKey' /\ AllSwept'
      BY <2>1, <2>3, <1>b, SweptAll
    <2> QED BY <2>1, <2>3, <2>4, <1>b DEF OneActive, DoneMeans, Newest
  <1>12. ASSUME NEW s \in Starters, Start(s) PROVE Goal'
    BY <1>1, <1>2, <1>3, <1>12 DEF Start, StartChecked, StartLoaded, StartDispatched, StartDies
  <1>13. ASSUME NEW n, Redispatch(n) PROVE Goal'
    BY <1>1, <1>13 DEF Redispatch
  <1>14. ASSUME NEW r, PickKey(r) PROVE Goal'
    BY <1>1, <1>14 DEF PickKey
  <1>15. CASE UNCHANGED vars
    BY <1>1, <1>15
  <1> QED BY <1>4, <1>6, <1>8, <1>9, <1>10, <1>11, <1>12, <1>13, <1>14, <1>15 DEF Next, Step

\* Nothing migrates at the start.
LEMMA MigratingInit == Init => Migrating
  BY DEF Init, Migrating, OneActive, NewestKey, AllSwept, DoneMeans, Sweeping, Running, Asleep, Newest, None

\* Each part above for its part of the invariant.
LEMMA InvStep == IInv /\ [Next]_vars => IInv'
  BY TypeStep, TextStep, KeyedStep, MigratingStep DEF IInv

\* When the newest rotation is done, nothing but strays is left under an older key
\* (DoneMeansMigrated): for any tables and batches, and whatever failed, crashed, was
\* delivered again or swept beside.
THEOREM RotationMigrates == Spec => []DoneMeansMigrated
  <1>1. Init => IInv
    BY TypeInit, TextInit, KeyedInit, MigratingInit DEF IInv
  <1>2. IInv => DoneMeansMigrated
    <2> SUFFICES ASSUME IInv, Few, Newest # 0, rotation[Newest].state = "done"
                 PROVE  \A r \in Rows \ strays : blob[r].key \in {ModeB, New(Newest)}
      BY DEF DoneMeansMigrated, Few
    <2>1. \A r \in Rows : Fine(r)
      BY DEF IInv, Migrating, DoneMeans
    <2>2. Newest \in DOMAIN rotation
      BY DEF IInv, TypeOK, Newest
    <2>3. New(Newest) = keys
      BY <2>2 DEF IInv, Keyed, KeyedRows
    <2> QED BY <2>1, <2>3 DEF Fine
  <1> QED BY <1>1, <1>2, InvStep, PTL DEF Spec

-----------------------------------------------------------------------------
(* The active key.                                                         *)

OneRequest == \A s, t \in Starters : s = t

\* A request holds the one active key there is, until it commits.
Sole ==
  /\ \A k, l \in active : k = l
  /\ \A s \in Starters : start[s].at = "loaded" => active \subseteq {start[s].holds}

\* The check, the load and the insert of one request are apart, but nobody comes between.
LEMMA SoleStep == ASSUME OneRequest PROVE TypeOK /\ Sole /\ [Next]_vars => Sole'
  <1> SUFFICES ASSUME TypeOK, Sole, [Next]_vars PROVE Sole'
    OBVIOUS
  <1> USE DEF vars, keyVars, owners, history
  <1>1. ASSUME active' = active, NEW s \in Starters, NEW a, start' = [start EXCEPT ![s] = a],
               a.at = "loaded" => active \subseteq {a.holds}
        PROVE  Sole'
    BY <1>1 DEF Sole, TypeOK
  <1>2. ASSUME NEW s \in Starters, Start(s) PROVE Sole'
    <2>1. CASE StartChecked(s)
      <3>1. start' = [start EXCEPT ![s] = [@ EXCEPT !.at = "checked"]] /\ active' = active
        BY <2>1 DEF StartChecked
      <3>2. [start[s] EXCEPT !.at = "checked"].at = "checked"
        BY DEF TypeOK
      <3> QED BY <3>1, <3>2 DEF Sole, TypeOK
    <2>2. CASE StartLoaded(s)
      <3>1. PICK k \in IF active = {} THEN {None} ELSE active :
              start' = [start EXCEPT ![s] = [at |-> "loaded", holds |-> k]]
        BY <2>2 DEF StartLoaded
      <3>2. active \subseteq {k} /\ active' = active
        BY <2>2, <3>1 DEF StartLoaded, Sole
      <3> QED BY <1>1, <3>1, <3>2
    <2>3. CASE StartCommitted(s)
      <3>1. active' = {keys'}
        BY <2>3 DEF StartCommitted, Sole
      <3>2. start'[s].at \in {"idle", "committed"}
        BY <2>3 DEF StartCommitted, Waiting, TypeOK
      <3>3. \A t \in Starters : t = s
        BY DEF OneRequest
      <3> QED BY <3>1, <3>2, <3>3 DEF Sole
    <2>4. CASE StartRefused(s) \/ StartDispatched(s) \/ StartDies(s)
      <3>1. active' = active /\ start' = [start EXCEPT ![s] = Waiting]
        BY <2>4 DEF StartRefused, StartDispatched, StartDies
      <3> QED BY <1>1, <3>1 DEF Waiting
    <2> QED BY <1>2, <2>1, <2>2, <2>3, <2>4 DEF Start
  <1>3. ASSUME active' = active, start' = start PROVE Sole'
    BY <1>3 DEF Sole
  <1>4. ASSUME NEW w \in Workers, Take(w) \/ Step(w) \/ Crash(w) PROVE active' = active /\ start' = start
    <2>1. CASE Take(w)
      BY <2>1 DEF Take
    <2>2. CASE Begin(w) \/ Select(w) \/ CommitBatch(w)
      BY <2>2 DEF Begin, Select, CommitBatch
    <2>3. CASE Finish(w) \/ Fail(w) \/ Crash(w)
      BY <2>3 DEF Finish, Fail, Crash
    <2> QED BY <1>4, <2>1, <2>2, <2>3 DEF Step
  <1>5. ASSUME NEW n, Redispatch(n) PROVE active' = active /\ start' = start
    BY <1>5 DEF Redispatch
  <1>6. ASSUME NEW r, PickKey(r) \/ StoreModeA(r) \/ StoreModeB(r) PROVE active' = active /\ start' = start
    BY <1>6 DEF PickKey, StoreModeA, StoreModeB
  <1>7. ASSUME UNCHANGED vars PROVE active' = active /\ start' = start
    BY <1>7
  <1> QED BY <1>2, <1>3, <1>4, <1>5, <1>6, <1>7 DEF Next

\* While requests to rotate come one after another, at most one key is active
\* (OneActiveKey), through requests that die or are refused at any of their steps.
THEOREM OneRequestOneKey == OneRequest => (Spec => []OneActiveKey)
  <1> SUFFICES ASSUME OneRequest PROVE Spec => []OneActiveKey
    OBVIOUS
  <1>1. Init => Sole
    <2> SUFFICES ASSUME Init PROVE Sole
      OBVIOUS
    <2>1. keys \in {0, 1} /\ active = 1 .. keys
      BY DEF Init
    <2>2. \A k, l \in active : k = l
      BY <2>1
    <2>3. \A s \in Starters : start[s].at # "loaded"
      BY DEF Init, Waiting
    <2> QED BY <2>2, <2>3 DEF Sole
  <1>2. Sole => OneActiveKey
    <2> SUFFICES ASSUME Sole PROVE Cardinality(active) <= 1
      BY DEF OneActiveKey
    <2>1. CASE active = {}
      BY <2>1, FS_EmptySet
    <2>2. ASSUME NEW k \in active PROVE Cardinality(active) <= 1
      <3>1. active = {k}
        BY <2>2 DEF Sole
      <3> QED BY <3>1, FS_Singleton
    <2> QED BY <2>1, <2>2
  <1> QED BY <1>1, <1>2, TypeInit, TypeStep, SoleStep, PTL DEF Spec
=============================================================================
