------------------------ MODULE AgentRunsLedgerProofs ------------------------
(***************************************************************************)
(* The control plane of a patient vault, for every number of installs,     *)
(* wakes, requests, readers, stops and exceptions: a run id leads to the   *)
(* process that runs under it, a supervisor settles its own run's row, and *)
(* the whole implements RunLedger.                                         *)
(*                                                                         *)
(* Order is what patience buys, that of two wakes of an install only one   *)
(* is ever under way; Track says what the rows and the requests may rely   *)
(* on meanwhile.  Both are inductive over the invariants of                *)
(* AgentRunsProofs.                                                        *)
(***************************************************************************)
EXTENDS AgentRunsProofs

-----------------------------------------------------------------------------
(* One run at a time.                                                      *)

\* Wakes are taken in their order, and of two of one install the earlier one is over.
InOrder == \A v, w \in Wakes : v < w /\ wake[w].phase # "idle" => wake[v].phase # "idle"

Orderly == \A v, w \in Wakes :
  v < w /\ wake[v].phase # "idle" /\ wake[w].phase # "idle" /\ KeyOf(v) = KeyOf(w) => Over(v)

RowsKept == \A w \in Wakes : row[w].outcome # "none" => wake[w].phase # "idle"

\* A supervisor is of a launched run, and stays with it until its process is over.
Supervised == \A w \in Wakes : handle[w].supervisor # "none" => wake[w].phase = "launched"

Gripped(w) == wake[w].phase = "spawned" \/ (wake[w].phase = "launched" /\ Running(w) /\ up)

Watched == \A w \in Wakes : wake[w].phase = "launched" /\ Running(w) /\ up =>
    handle[w].supervisor = "waiting"

Grip == \A w \in Wakes : Gripped(w) => registry[KeyOf(w)] = w

\* Without exceptions a supervisor past the process knows the outcome.
Clean == faults = 0 => \A w \in Wakes :
  handle[w].broken = FALSE /\ (handle[w].supervisor \in {"closing", "emitting"} => handle[w].status \in Outcomes)

Order == InOrder /\ Orderly /\ RowsKept /\ Supervised /\ Watched /\ Grip /\ Clean /\ DoneMeansSettled

\* Two wakes of one install are not both under way.
LEMMA OneUnderWay ==
  ASSUME Orderly, NEW v \in Wakes, NEW w \in Wakes, wake[v].phase # "idle", wake[w].phase # "idle",
         KeyOf(v) = KeyOf(w), ~ Over(v), ~ Over(w)
  PROVE  v = w
<1>1. v < w \/ w < v \/ v = w
  BY BoundsAssumption DEF Wakes
<1> QED
  BY <1>1 DEF Orderly

\* Every step of a patient vault keeps all of it.
LEMMA OrderStep ==
  ASSUME Patient
  PROVE  TypeOK /\ Links /\ Control /\ Order /\ [Next]_vars => Order'
<1> SUFFICES ASSUME TypeOK, Links, Control, Order, [Next]_vars PROVE Order'
  OBVIOUS
<1> USE NoWakeIsNoWake DEF Order, Links, Control, TypeOK
<1>1. ASSUME NEW k \in Installs, CreateInstall(k) PROVE Order'
  BY <1>1 DEF CreateInstall, InOrder, Orderly, KeyOf, Over, RowsKept, Supervised, Watched,
     Running, Grip, Gripped, Clean, DoneMeansSettled
<1>2. ASSUME NEW k \in Installs, NEW s \in SettableStates, UpdateInstallState(k, s) PROVE Order'
  BY <1>2 DEF UpdateInstallState, InOrder, Orderly, KeyOf, Over, RowsKept, Supervised,
     Watched, Running, Grip, Gripped, Clean, DoneMeansSettled
<1>3. ASSUME NEW k \in Installs, DeleteInstall(k) PROVE Order'
  <2>1. RowsKept'
    BY <1>3 DEF DeleteInstall, NoRow, RowsKept, DbOK, RowType
  <2>2. DoneMeansSettled'
    BY <1>3 DEF DeleteInstall, NoRow, DoneMeansSettled, DbOK, RowType
  <2> QED
    BY <1>3, <2>1, <2>2 DEF DeleteInstall, InOrder, Orderly, KeyOf, Over, Supervised,
       Watched, Running, Grip, Gripped, Clean
<1>4. ASSUME NEW w \in Wakes, NEW k \in Installs, NEW d \in Decisions, PlanLaunch(w, k, d) PROVE Order'
  <2>1. \A v \in Wakes : KeyOf(v) = k => Over(v)
    BY <1>4 DEF PlanLaunch, Quiet
  <2>2. \A v \in Wakes \ {w} : wake'[v] = wake[v]
    BY <1>4 DEF PlanLaunch, WakeOK
  <2>3. wake'[w].phase \in {"refused", "planned"} /\ wake'[w].key = k /\ handle' = handle
    BY <1>4 DEF PlanLaunch, WakeOK
  <2>4. \A v \in Wakes : (v < w => wake[v].phase # "idle") /\ (w < v => wake[v].phase = "idle")
    BY <1>4, BoundsAssumption DEF PlanLaunch, InOrder, Wakes
  <2>5. InOrder'
    BY <2>2, <2>3, <2>4 DEF InOrder
  <2>6. Orderly'
    BY <2>1, <2>2, <2>3, <2>4 DEF Orderly, KeyOf, Over
  <2>7. RowsKept'
    BY <1>4, <2>2, <2>3 DEF PlanLaunch, RowsKept
  <2>8. Supervised'
    BY <1>4, <2>2, <2>3 DEF PlanLaunch, Supervised
  <2>9. Watched'
    BY <1>4, <2>2, <2>3 DEF PlanLaunch, Watched, Running
  <2>10. Grip'
    BY <1>4, <2>2, <2>3 DEF PlanLaunch, Grip, Gripped, Running, KeyOf
  <2> QED
    BY <1>4, <2>1, <2>2, <2>3, <2>4, <2>5, <2>6, <2>7, <2>8, <2>9, <2>10 DEF PlanLaunch,
       Clean, DoneMeansSettled
<1>5. ASSUME NEW w \in Wakes, CheckInstall(w) PROVE Order'
  <2>1. InOrder'
    BY <1>5 DEF CheckInstall, InOrder, WakeOK, WakeType
  <2>2. Orderly'
    BY <1>5 DEF CheckInstall, Orderly, KeyOf, Over, WakeOK, WakeType
  <2>3. RowsKept'
    BY <1>5 DEF CheckInstall, RowsKept, WakeOK, WakeType
  <2>4. Supervised'
    BY <1>5 DEF CheckInstall, Supervised, WakeOK, WakeType
  <2>5. Watched'
    BY <1>5 DEF CheckInstall, Watched, Running, WakeOK, WakeType
  <2>6. Grip'
    BY <1>5 DEF CheckInstall, Grip, Gripped, Running, KeyOf, WakeOK, WakeType
  <2> QED
    BY <1>5, <2>1, <2>2, <2>3, <2>4, <2>5, <2>6 DEF CheckInstall, Clean, DoneMeansSettled
<1>6. ASSUME NEW w \in Wakes, InsertRow(w) PROVE Order'
  <2>1. \A v \in Wakes \ {w} : row'[v] = row[v] /\ wake'[v] = wake[v]
    BY <1>6 DEF InsertRow, DbOK, WakeOK
  <2>2. wake[w].phase = "checked" /\ wake'[w].phase \in {"recorded", "failed"}
    BY <1>6 DEF InsertRow, WakeOK, WakeType
  <2>3. InOrder'
    BY <2>1, <2>2 DEF InOrder
  <2>4. Orderly'
    <3>1. \A v \in Wakes : KeyOf(v)' = KeyOf(v) /\ (wake'[v].phase # "idle" => wake[v].phase # "idle")
      BY <1>6 DEF InsertRow, KeyOf, WakeOK, WakeType
    <3>2. \A v \in Wakes : Over(v) => Over(v)'
      <4>1. ~ Over(w)
        BY <1>6 DEF InsertRow, Over, Unborn, Unstarted, Unwatched, NoHandle
      <4>2. \A v \in Wakes \ {w} : wake'[v] = wake[v] /\ handle'[v] = handle[v]
        BY <1>6 DEF InsertRow, WakeOK, HandleOK
      <4> QED
        BY <4>1, <4>2 DEF Over
    <3> QED
      BY <3>1, <3>2 DEF Orderly
  <2>5. RowsKept'
    BY <2>1, <2>2 DEF RowsKept
  <2>6. Supervised'
    BY <1>6, <2>1, <2>2 DEF InsertRow, Supervised, DbOK, RowType, WakeOK, WakeType
  <2>7. Watched'
    BY <1>6, <2>1, <2>2 DEF InsertRow, Watched, Running, DbOK, RowType, WakeOK, WakeType
  <2>8. Grip'
    BY <1>6, <2>1, <2>2 DEF InsertRow, Grip, Gripped, Running, KeyOf, DbOK, RowType, WakeOK,
       WakeType
  <2>9. DoneMeansSettled'
    <3>1. handle[w].supervisor = "none"
      BY <1>6 DEF InsertRow, Unborn, Unstarted, NoHandle
    <3> QED
      BY <1>6, <3>1 DEF InsertRow, DoneMeansSettled, DbOK
  <2> QED
    BY <1>6, <2>1, <2>2, <2>3, <2>4, <2>5, <2>6, <2>7, <2>8, <2>9 DEF InsertRow, Clean
<1>7. ASSUME NEW w \in Wakes, Spawn(w) PROVE Order'
  <2>1. ~ Over(w) /\ wake[w].phase = "recorded" /\ handle[w] = NoHandle /\ proc[w].state = "none"
    BY <1>7 DEF Spawn, Accounted, Over, Unborn, Unstarted, NoHandle
  <2>2. \A u \in Wakes : Gripped(u) => ~ Over(u)
    BY DEF Gripped, Over, Unwatched, Watched
  <2>3. InOrder'
    BY <1>7, <2>1, <2>2 DEF Spawn, Accounted, InOrder, ProcOK, ProcType, HandleOK,
       HandleType, DaemonOK, WakeOK, WakeType
  <2>4. Orderly'
    BY <1>7, <2>1, <2>2 DEF Spawn, Accounted, Orderly, KeyOf, Over, ProcOK, ProcType,
       HandleOK, HandleType, DaemonOK, WakeOK, WakeType
  <2>5. RowsKept'
    BY <1>7, <2>1, <2>2 DEF Spawn, Accounted, RowsKept, ProcOK, ProcType, HandleOK,
       HandleType, DaemonOK, WakeOK, WakeType
  <2>6. Supervised'
    BY <1>7, <2>1, <2>2 DEF Spawn, Accounted, Supervised, ProcOK, ProcType, HandleOK,
       HandleType, DaemonOK, WakeOK, WakeType
  <2>7. Watched'
    BY <1>7, <2>1, <2>2 DEF Spawn, Accounted, Watched, Running, ProcOK, ProcType, HandleOK,
       HandleType, DaemonOK, WakeOK, WakeType
  <2>8. Grip'
    <3>1. \A u \in Wakes \ {w} : Gripped(u)' => Gripped(u) /\ KeyOf(u)' = KeyOf(u)
      BY <1>7 DEF Spawn, Gripped, Running, KeyOf, WakeOK, ProcOK
    <3>2. \A u \in Wakes \ {w} : Gripped(u) => KeyOf(u) # KeyOf(w)
      BY <2>1, <2>2, OneUnderWay DEF Gripped
    <3>3. KeyOf(w)' = KeyOf(w) /\ KeyOf(w) \in Installs
      BY <1>7, <2>1 DEF Spawn, KeyOf, Keyed, WakeOK, WakeType
    <3> QED
      BY <1>7, <3>1, <3>2, <3>3 DEF Spawn, Grip, DaemonOK
  <2>9. Clean'
    <3>1. \A v \in Wakes \ {w} : handle'[v] = handle[v]
      BY <1>7 DEF Spawn, HandleOK
    <3>2. handle'[w].broken = FALSE /\ handle'[w].supervisor = "none"
      BY <1>7, <2>1 DEF Spawn, NoHandle, HandleOK
    <3> QED
      BY <1>7, <3>1, <3>2 DEF Spawn, Clean
  <2>10. DoneMeansSettled'
    BY <1>7, <2>1, <2>2 DEF Spawn, Accounted, DoneMeansSettled, ProcOK, ProcType, HandleOK,
       HandleType, DaemonOK, WakeOK, WakeType
  <2> QED
    BY <1>7, <2>1, <2>2, <2>3, <2>4, <2>5, <2>6, <2>7, <2>8, <2>9, <2>10 DEF Spawn
<1>8. ASSUME NEW w \in Wakes, EmitRunStarted(w) PROVE Order'
  <2>1. InOrder'
    BY <1>8 DEF EmitRunStarted, InOrder, HandleOK, HandleType, WakeOK, WakeType
  <2>2. Orderly'
    <3>1. \A v \in Wakes : KeyOf(v)' = KeyOf(v) /\ (wake'[v].phase # "idle" => wake[v].phase # "idle")
      BY <1>8 DEF EmitRunStarted, KeyOf, WakeOK, WakeType
    <3>2. \A v \in Wakes : Over(v) => Over(v)'
      <4>1. ~ Over(w)
        BY <1>8 DEF EmitRunStarted, Over, Unborn, Unstarted, Unwatched, NoHandle
      <4>2. \A v \in Wakes \ {w} : wake'[v] = wake[v] /\ handle'[v] = handle[v]
        BY <1>8 DEF EmitRunStarted, WakeOK, HandleOK
      <4> QED
        BY <4>1, <4>2 DEF Over
    <3> QED
      BY <3>1, <3>2 DEF Orderly
  <2>3. RowsKept'
    BY <1>8 DEF EmitRunStarted, RowsKept, HandleOK, HandleType, WakeOK, WakeType
  <2>4. Supervised'
    BY <1>8 DEF EmitRunStarted, Supervised, HandleOK, HandleType, WakeOK, WakeType
  <2>5. Watched'
    BY <1>8 DEF EmitRunStarted, Watched, Running, HandleOK, HandleType, WakeOK, WakeType
  <2>6. Grip'
    BY <1>8 DEF EmitRunStarted, Grip, Gripped, Running, KeyOf, HandleOK, HandleType, WakeOK,
       WakeType
  <2>7. Clean'
    BY <1>8 DEF EmitRunStarted, Clean, HandleOK, HandleType, WakeOK, WakeType
  <2>8. DoneMeansSettled'
    BY <1>8 DEF EmitRunStarted, DoneMeansSettled, HandleOK, HandleType, WakeOK, WakeType
  <2> QED
    BY <1>8, <2>1, <2>2, <2>3, <2>4, <2>5, <2>6, <2>7, <2>8 DEF EmitRunStarted
<1>9. ASSUME NEW w \in Wakes, StartRaises(w) PROVE Order'
  <2>1. InOrder'
    BY <1>9 DEF StartRaises, Raise, Starting, InOrder, WakeOK, WakeType, DaemonOK
  <2>2. Orderly'
    BY <1>9 DEF StartRaises, Raise, Starting, Orderly, KeyOf, Over, WakeOK, WakeType,
       DaemonOK
  <2>3. RowsKept'
    BY <1>9 DEF StartRaises, Raise, Starting, RowsKept, WakeOK, WakeType, DaemonOK
  <2>4. Supervised'
    BY <1>9 DEF StartRaises, Raise, Starting, Supervised, WakeOK, WakeType, DaemonOK
  <2>5. Watched'
    BY <1>9 DEF StartRaises, Raise, Starting, Watched, Running, WakeOK, WakeType, DaemonOK
  <2>6. Grip'
    BY <1>9 DEF StartRaises, Raise, Starting, Grip, Gripped, Running, KeyOf, WakeOK,
       WakeType, DaemonOK
  <2>7. Clean'
    BY <1>9 DEF StartRaises, Raise, Starting, Clean, WakeOK, WakeType, DaemonOK
  <2>8. DoneMeansSettled'
    BY <1>9 DEF StartRaises, Raise, Starting, DoneMeansSettled, WakeOK, WakeType, DaemonOK
  <2> QED
    BY <1>9, <2>1, <2>2, <2>3, <2>4, <2>5, <2>6, <2>7, <2>8 DEF StartRaises
<1>10. ASSUME NEW w \in Wakes, WriteLine(w) PROVE Order'
  <2>1. Watched'
    BY <1>10 DEF WriteLine, Watched, Running, ProcOK, ProcType
  <2>2. Grip'
    BY <1>10 DEF WriteLine, Grip, Gripped, Running, KeyOf, ProcOK, ProcType
  <2> QED
    BY <1>10, <2>1, <2>2 DEF WriteLine, InOrder, Orderly, KeyOf, Over, RowsKept, Supervised,
       Clean, DoneMeansSettled
<1>11. ASSUME NEW w \in Wakes, NEW c \in {"zero", "nonzero"}, ExitProcess(w, c) PROVE Order'
  <2>1. Watched'
    BY <1>11 DEF ExitProcess, Watched, Running, ProcOK, ProcType
  <2>2. Grip'
    BY <1>11 DEF ExitProcess, Grip, Gripped, Running, KeyOf, ProcOK, ProcType
  <2> QED
    BY <1>11, <2>1, <2>2 DEF ExitProcess, InOrder, Orderly, KeyOf, Over, RowsKept,
       Supervised, Clean, DoneMeansSettled
<1>12. ASSUME NEW w \in Wakes, Pump(w) PROVE Order'
  <2>1. Watched'
    BY <1>12 DEF Pump, Watched, Running, ProcOK, ProcType
  <2>2. Grip'
    BY <1>12 DEF Pump, Grip, Gripped, Running, KeyOf, ProcOK, ProcType
  <2> QED
    BY <1>12, <2>1, <2>2 DEF Pump, InOrder, Orderly, KeyOf, Over, RowsKept, Supervised,
       Clean, DoneMeansSettled
<1>13. ASSUME NEW w \in Wakes, PumpRaises(w) PROVE Order'
  <2>1. Orderly'
    BY <1>13 DEF PumpRaises, Raise, Orderly, KeyOf, Over, ProcOK, ProcType, HandleOK,
       HandleType, DaemonOK
  <2>2. Supervised'
    BY <1>13 DEF PumpRaises, Raise, Supervised, ProcOK, ProcType, HandleOK, HandleType,
       DaemonOK
  <2>3. Watched'
    BY <1>13 DEF PumpRaises, Raise, Watched, Running, ProcOK, ProcType, HandleOK,
       HandleType, DaemonOK
  <2>4. Grip'
    BY <1>13 DEF PumpRaises, Raise, Grip, Gripped, Running, KeyOf, ProcOK, ProcType,
       HandleOK, HandleType, DaemonOK
  <2>5. Clean'
    BY <1>13 DEF PumpRaises, Raise, Clean, ProcOK, ProcType, HandleOK, HandleType, DaemonOK
  <2>6. DoneMeansSettled'
    BY <1>13 DEF PumpRaises, Raise, DoneMeansSettled, ProcOK, ProcType, HandleOK,
       HandleType, DaemonOK
  <2> QED
    BY <1>13, <2>1, <2>2, <2>3, <2>4, <2>5, <2>6 DEF PumpRaises, InOrder, RowsKept
<1>14. ASSUME NEW w \in Wakes, FinishRun(w) PROVE Order'
  <2>1. Orderly'
    BY <1>14 DEF FinishRun, RunEnded, ExitStatus, Exited, Orderly, KeyOf, Over, HandleOK,
       HandleType
  <2>2. Supervised'
    BY <1>14 DEF FinishRun, RunEnded, ExitStatus, Exited, Supervised, HandleOK, HandleType
  <2>3. Watched'
    BY <1>14 DEF FinishRun, RunEnded, ExitStatus, Exited, Watched, Running, HandleOK,
       HandleType
  <2>4. Clean'
    BY <1>14 DEF FinishRun, RunEnded, ExitStatus, Exited, Clean, HandleOK, HandleType
  <2>5. DoneMeansSettled'
    BY <1>14 DEF FinishRun, RunEnded, ExitStatus, Exited, DoneMeansSettled, HandleOK,
       HandleType
  <2> QED
    BY <1>14, <2>1, <2>2, <2>3, <2>4, <2>5 DEF FinishRun, InOrder, RowsKept, Grip, Gripped,
       Running, KeyOf
<1>15. ASSUME NEW w \in Wakes, CloseTranscript(w) PROVE Order'
  <2>1. Orderly'
    BY <1>15 DEF CloseTranscript, Orderly, KeyOf, Over, HandleOK, HandleType
  <2>2. Supervised'
    BY <1>15 DEF CloseTranscript, Supervised, HandleOK, HandleType
  <2>3. Watched'
    BY <1>15 DEF CloseTranscript, Watched, Running, HandleOK, HandleType
  <2>4. Clean'
    BY <1>15 DEF CloseTranscript, Clean, HandleOK, HandleType
  <2>5. DoneMeansSettled'
    BY <1>15 DEF CloseTranscript, DoneMeansSettled, HandleOK, HandleType
  <2> QED
    BY <1>15, <2>1, <2>2, <2>3, <2>4, <2>5 DEF CloseTranscript, InOrder, RowsKept, Grip,
       Gripped, Running, KeyOf
<1>16. ASSUME NEW w \in Wakes, EmitTerminal(w) PROVE Order'
  <2>1. Orderly'
    BY <1>16 DEF EmitTerminal, Orderly, KeyOf, Over, HandleOK, HandleType
  <2>2. Supervised'
    BY <1>16 DEF EmitTerminal, Supervised, HandleOK, HandleType
  <2>3. Watched'
    BY <1>16 DEF EmitTerminal, Watched, Running, HandleOK, HandleType
  <2>4. Clean'
    BY <1>16 DEF EmitTerminal, Clean, HandleOK, HandleType
  <2>5. DoneMeansSettled'
    BY <1>16 DEF EmitTerminal, DoneMeansSettled, Clean, HandleOK, HandleType
  <2> QED
    BY <1>16, <2>1, <2>2, <2>3, <2>4, <2>5 DEF EmitTerminal, InOrder, RowsKept, Grip,
       Gripped, Running, KeyOf
<1>17. ASSUME NEW w \in Wakes, PersistCost(w) PROVE Order'
  <2>1. \A v \in Wakes : row'[v].outcome = row[v].outcome
    BY <1>17, CostKeepsOutcome DEF PersistCost
  <2>2. Orderly'
    BY <1>17, <2>1 DEF PersistCost, Orderly, KeyOf, Over, DbOK, RowType, HandleOK,
       HandleType
  <2>3. RowsKept'
    BY <1>17, <2>1 DEF PersistCost, RowsKept
  <2>4. Supervised'
    BY <1>17, <2>1 DEF PersistCost, Supervised, DbOK, RowType, HandleOK, HandleType
  <2>5. Watched'
    BY <1>17, <2>1 DEF PersistCost, Watched, Running, DbOK, RowType, HandleOK, HandleType
  <2>6. Clean'
    BY <1>17, <2>1 DEF PersistCost, Clean, DbOK, RowType, HandleOK, HandleType
  <2>7. DoneMeansSettled'
    BY <1>17, <2>1 DEF PersistCost, DoneMeansSettled, DbOK, RowType, HandleOK, HandleType
  <2> QED
    BY <1>17, <2>1, <2>2, <2>3, <2>4, <2>5, <2>6, <2>7 DEF PersistCost, InOrder, Grip,
       Gripped, Running, KeyOf
<1>18. ASSUME NEW w \in Wakes, PersistOutcome(w) PROVE Order'
  <2>1. handle[w].status \in Outcomes /\ wake[w].phase = "launched" /\ ~ Over(w)
    BY <1>18 DEF PersistOutcome, Concluded, Supervised, Over
  <2>2. \A v \in Rows(KeyOf(w)) : v <= w
    <3>1. \A v \in Rows(KeyOf(w)) : v \in Wakes /\ ~(w < v)
      BY <2>1 DEF Rows, RowsKept, Orderly
    <3> QED
      BY <3>1, BoundsAssumption DEF Wakes
  <2>3. \A v \in Wakes : row'[v].outcome \in {row[v].outcome, handle[w].status}
    BY <1>18 DEF PersistOutcome, LatestRowGets, DbOK, RowType
  <2>4. row'[w].outcome \in {"none", handle[w].status}
    <3>1. CASE w \in Rows(KeyOf(w))
      BY <1>18, <2>2, <3>1 DEF PersistOutcome, LatestRowGets, IsLatest, DbOK, RowType
    <3>2. CASE w \notin Rows(KeyOf(w))
      BY <1>18, <3>2 DEF PersistOutcome, LatestRowGets, IsLatest, Rows
    <3> QED
      BY <3>1, <3>2
  <2>5. Orderly'
    BY <1>18, <2>1, <2>2, <2>3, <2>4 DEF PersistOutcome, Orderly, KeyOf, Over, DbOK,
       RowType, HandleOK, HandleType
  <2>6. RowsKept'
    BY <1>18 DEF PersistOutcome, RowsKept, LatestRowGets, IsLatest, Rows
  <2>7. Supervised'
    BY <1>18, <2>1, <2>2, <2>3, <2>4 DEF PersistOutcome, Supervised, DbOK, RowType,
       HandleOK, HandleType
  <2>8. Watched'
    BY <1>18, <2>1, <2>2, <2>3, <2>4 DEF PersistOutcome, Watched, Running, DbOK, RowType,
       HandleOK, HandleType
  <2>9. Clean'
    BY <1>18, <2>1, <2>2, <2>3, <2>4 DEF PersistOutcome, Clean, DbOK, RowType, HandleOK,
       HandleType
  <2>10. DoneMeansSettled'
    BY <1>18, <2>1, <2>3, <2>4 DEF PersistOutcome, DoneMeansSettled, Outcomes, HandleOK
  <2> QED
    BY <1>18, <2>1, <2>2, <2>3, <2>4, <2>5, <2>6, <2>7, <2>8, <2>9, <2>10 DEF
       PersistOutcome, InOrder, Grip, Gripped, Running, KeyOf
<1>19. ASSUME NEW w \in Wakes, SuperviseRaises(w) PROVE Order'
  <2>1. Orderly'
    BY <1>19 DEF SuperviseRaises, Raise, Orderly, KeyOf, Over, HandleOK, HandleType,
       DaemonOK
  <2>2. Supervised'
    BY <1>19 DEF SuperviseRaises, Raise, Supervised, HandleOK, HandleType, DaemonOK
  <2>3. Watched'
    BY <1>19 DEF SuperviseRaises, Raise, Watched, Running, HandleOK, HandleType, DaemonOK
  <2>4. Clean'
    BY <1>19 DEF SuperviseRaises, Raise, Clean, HandleOK, HandleType, DaemonOK
  <2>5. DoneMeansSettled'
    BY <1>19 DEF SuperviseRaises, Raise, DoneMeansSettled, HandleOK, HandleType, DaemonOK
  <2> QED
    BY <1>19, <2>1, <2>2, <2>3, <2>4, <2>5 DEF SuperviseRaises, InOrder, RowsKept, Grip,
       Gripped, Running, KeyOf
<1>20. ASSUME NEW q \in Requests, NEW o \in Wakes, NEW a \in Samples, ReportCost(q, o, a) PROVE Order'
  <2>1. Orderly'
    BY <1>20 DEF ReportCost, Live, Idle, Orderly, KeyOf, Over, HandleOK, HandleType,
       RequestOK, RequestType, SeenOK, SeenType
  <2>2. Supervised'
    BY <1>20 DEF ReportCost, Live, Idle, Supervised, HandleOK, HandleType, RequestOK,
       RequestType, SeenOK, SeenType
  <2>3. Watched'
    BY <1>20 DEF ReportCost, Live, Idle, Watched, Running, HandleOK, HandleType, RequestOK,
       RequestType, SeenOK, SeenType
  <2>4. Clean'
    BY <1>20 DEF ReportCost, Live, Idle, Clean, HandleOK, HandleType, RequestOK,
       RequestType, SeenOK, SeenType
  <2>5. DoneMeansSettled'
    BY <1>20 DEF ReportCost, Live, Idle, DoneMeansSettled, HandleOK, HandleType, RequestOK,
       RequestType, SeenOK, SeenType
  <2> QED
    BY <1>20, <2>1, <2>2, <2>3, <2>4, <2>5 DEF ReportCost, InOrder, RowsKept, Grip, Gripped,
       Running, KeyOf
<1>21. ASSUME NEW q \in Requests, WriteTotals(q) PROVE Order'
  <2>1. \A v \in Wakes : row'[v].outcome = row[v].outcome
    BY <1>21, CostKeepsOutcome DEF WriteTotals
  <2>2. RowsKept'
    BY <1>21, <2>1 DEF WriteTotals, RowsKept
  <2>3. DoneMeansSettled'
    BY <1>21, <2>1 DEF WriteTotals, DoneMeansSettled
  <2> QED
    BY <1>21, <2>1, <2>2, <2>3 DEF WriteTotals, InOrder, Orderly, KeyOf, Over, Supervised,
       Watched, Running, Grip, Gripped, Clean
<1>22. ASSUME NEW q \in Requests, WriteOverrun(q) PROVE Order'
  <2>1. \A v \in Wakes : row'[v].outcome = row[v].outcome
    BY <1>22, CostKeepsOutcome DEF WriteOverrun
  <2>2. RowsKept'
    BY <1>22, <2>1 DEF WriteOverrun, RowsKept
  <2>3. DoneMeansSettled'
    BY <1>22, <2>1 DEF WriteOverrun, DoneMeansSettled
  <2> QED
    BY <1>22, <2>1, <2>2, <2>3 DEF WriteOverrun, InOrder, Orderly, KeyOf, Over, Supervised,
       Watched, Running, Grip, Gripped, Clean
<1>23. ASSUME NEW q \in Requests, EmitCapHalt(q) PROVE Order'
  <2>1. \A v \in Wakes : proc'[v].state = proc[v].state
    BY <1>23 DEF EmitCapHalt, Terminate, ProcOK, ProcType
  <2>2. Watched'
    BY <1>23, <2>1 DEF EmitCapHalt, Watched, Running
  <2>3. Grip'
    BY <1>23, <2>1 DEF EmitCapHalt, Grip, Gripped, Running, KeyOf
  <2> QED
    BY <1>23, <2>1, <2>2, <2>3 DEF EmitCapHalt, InOrder, Orderly, KeyOf, Over, RowsKept,
       Supervised, Clean, DoneMeansSettled
<1>24. ASSUME NEW q \in Requests, GraceEnds(q) PROVE Order'
  BY <1>24 DEF GraceEnds, InOrder, Orderly, KeyOf, Over, RowsKept, Supervised, Watched,
     Running, Grip, Gripped, Clean, DoneMeansSettled
<1>25. ASSUME NEW q \in Requests, GraceExpires(q) PROVE Order'
  <2>1. Watched'
    BY <1>25 DEF GraceExpires, NoRequest, Exited, Watched, Running, ProcOK, ProcType,
       RequestOK, RequestType
  <2>2. Grip'
    BY <1>25 DEF GraceExpires, NoRequest, Exited, Grip, Gripped, Running, KeyOf, ProcOK,
       ProcType, RequestOK, RequestType
  <2> QED
    BY <1>25, <2>1, <2>2 DEF GraceExpires, InOrder, Orderly, KeyOf, Over, RowsKept,
       Supervised, Clean, DoneMeansSettled
<1>26. ASSUME NEW q \in Requests, NEW k \in Installs, DeleteLive(q, k) PROVE Order'
  <2>1. \A v \in Wakes : proc'[v].state = proc[v].state
    BY <1>26 DEF DeleteLive, Terminate, ProcOK, ProcType
  <2>2. Watched'
    BY <1>26, <2>1 DEF DeleteLive, Watched, Running
  <2>3. Grip'
    BY <1>26, <2>1 DEF DeleteLive, Grip, Gripped, Running, KeyOf
  <2> QED
    BY <1>26, <2>1, <2>2, <2>3 DEF DeleteLive, InOrder, Orderly, KeyOf, Over, RowsKept,
       Supervised, Clean, DoneMeansSettled
<1>27. ASSUME NEW q \in Requests, NEW k \in Installs, DeleteMiss(q, k) PROVE Order'
  BY <1>27 DEF DeleteMiss, InOrder, Orderly, KeyOf, Over, RowsKept, Supervised, Watched,
     Running, Grip, Gripped, Clean, DoneMeansSettled
<1>28. ASSUME NEW q \in Requests, ReadOrphan(q) PROVE Order'
  BY <1>28 DEF ReadOrphan, InOrder, Orderly, KeyOf, Over, RowsKept, Supervised, Watched,
     Running, Grip, Gripped, Clean, DoneMeansSettled
<1>29. ASSUME NEW q \in Requests, HaltOrphan(q) PROVE Order'
  <2>1. RowsKept'
    BY <1>29 DEF HaltOrphan, RowsKept, LatestRowGets, IsLatest, Rows
  <2>2. DoneMeansSettled'
    BY <1>29 DEF HaltOrphan, LatestRowGets, NoRequest, DoneMeansSettled, DbOK, RowType,
       RequestOK, RequestType
  <2> QED
    BY <1>29, <2>1, <2>2 DEF HaltOrphan, InOrder, Orderly, KeyOf, Over, Supervised, Watched,
       Running, Grip, Gripped, Clean
<1>30. ASSUME NEW q \in Requests, RequestRaises(q) PROVE Order'
  <2>1. Clean'
    BY <1>30 DEF RequestRaises, NoRequest, Raise, Clean, RequestOK, RequestType, DaemonOK
  <2>2. DoneMeansSettled'
    BY <1>30 DEF RequestRaises, NoRequest, Raise, DoneMeansSettled, RequestOK, RequestType,
       DaemonOK
  <2> QED
    BY <1>30, <2>1, <2>2 DEF RequestRaises, InOrder, Orderly, KeyOf, Over, RowsKept,
       Supervised, Watched, Running, Grip, Gripped
<1>31. ASSUME NEW k \in Installs, OpenStream(k) PROVE Order'
  BY <1>31 DEF OpenStream, InOrder, Orderly, KeyOf, Over, RowsKept, Supervised, Watched,
     Running, Grip, Gripped, Clean, DoneMeansSettled
<1>32. ASSUME NEW w \in Wakes, ReadStream(w) PROVE Order'
  BY <1>32 DEF ReadStream, InOrder, Orderly, KeyOf, Over, RowsKept, Supervised, Watched,
     Running, Grip, Gripped, Clean, DoneMeansSettled
<1>33. ASSUME NEW w \in Wakes, DropStream(w) PROVE Order'
  BY <1>33 DEF DropStream, InOrder, Orderly, KeyOf, Over, RowsKept, Supervised, Watched,
     Running, Grip, Gripped, Clean, DoneMeansSettled
<1>34. ASSUME Shutdown PROVE Order'
  <2>1. Orderly'
    BY <1>34 DEF Shutdown, Cancelled, Starting, Orderly, KeyOf, Over, HandleOK, HandleType,
       DaemonOK
  <2>2. Supervised'
    BY <1>34 DEF Shutdown, Cancelled, Starting, Supervised, HandleOK, HandleType, DaemonOK
  <2>3. Watched'
    BY <1>34 DEF Shutdown, Cancelled, Starting, Watched, Running, HandleOK, HandleType,
       DaemonOK
  <2>4. Grip'
    BY <1>34 DEF Shutdown, Cancelled, Starting, Grip, Gripped, Running, KeyOf, HandleOK,
       HandleType, DaemonOK
  <2>5. Clean'
    <3>1. \A v \in Wakes : /\ Cancelled(v).broken = handle[v].broken
                           /\ Cancelled(v).supervisor \in {"closing", "emitting"} =>
                                Cancelled(v).status = "halted"
      BY DEF Cancelled, HandleOK, HandleType
    <3> QED
      BY <1>34, <3>1 DEF Shutdown, Clean, Outcomes
  <2>6. DoneMeansSettled'
    BY <1>34 DEF Shutdown, Cancelled, Starting, DoneMeansSettled, HandleOK, HandleType,
       DaemonOK
  <2> QED
    BY <1>34, <2>1, <2>2, <2>3, <2>4, <2>5, <2>6 DEF Shutdown, InOrder, RowsKept
<1>35. ASSUME Restart PROVE Order'
  <2>1. \A v \in Wakes : /\ wake'[v].phase \in {"idle", "refused", "rejected", "lost"}
                          /\ wake'[v].key = wake[v].key /\ (wake'[v].phase = "idle" <=> wake[v].phase = "idle")
    BY <1>35 DEF Restart, Forgotten, WakeOK, WakeType
  <2>2. InOrder'
    BY <2>1 DEF InOrder
  <2>3. Orderly'
    BY <2>1 DEF Orderly, Over
  <2>4. RowsKept'
    BY <1>35, <2>1 DEF Restart, RowsKept
  <2>5. Supervised'
    BY <1>35 DEF Restart, Supervised, NoHandle
  <2>6. Watched'
    BY <2>1 DEF Watched
  <2>7. Grip'
    BY <2>1 DEF Grip, Gripped
  <2>8. Clean'
    BY <1>35 DEF Restart, Clean, NoHandle
  <2>9. DoneMeansSettled'
    BY <1>35 DEF Restart, DoneMeansSettled, NoHandle
  <2> QED
    BY <1>35, <2>1, <2>2, <2>3, <2>4, <2>5, <2>6, <2>7, <2>8, <2>9 DEF Restart
<1>36. ASSUME UNCHANGED vars PROVE Order'
  BY <1>36 DEF vars, InOrder, Orderly, KeyOf, Over, RowsKept, Supervised, Watched, Running,
     Grip, Gripped, Clean, DoneMeansSettled
<1> QED
  BY <1>1, <1>2, <1>3, <1>4, <1>5, <1>6, <1>7, <1>8, <1>9, <1>10, <1>11, <1>12, <1>13,
     <1>14, <1>15, <1>16, <1>17, <1>18, <1>19, <1>20, <1>21, <1>22, <1>23, <1>24, <1>25,
     <1>26, <1>27, <1>28, <1>29, <1>30, <1>31, <1>32, <1>33, <1>34, <1>35, <1>36 DEF Next,
     Vault, Launch, Agent, Supervise, Serve, Raises

\* No wake is under way yet.
LEMMA OrderInitially == Init => Order
BY NoWakeIsNoWake DEF Init, Order, InOrder, Orderly, RowsKept, Supervised, Watched, Grip, Gripped, Clean,
   DoneMeansSettled, NoRow, NoHandle

\* With a vault that awaits one answer and one run's end per install, a run id leads to the
\* process that runs under it, so DELETE and cost reports reach it (EveryRunIsGripped).
THEOREM RunsAreGripped == Patient => (Spec => []EveryRunIsGripped)
<1> SUFFICES ASSUME Patient PROVE Spec => []EveryRunIsGripped
  OBVIOUS
<1> DEFINE J == TypeOK /\ Links /\ Control
<1>1. J /\ Order /\ [Next]_vars => Order'
  BY OrderStep
<1>2. Order => EveryRunIsGripped
  BY DEF Order, Grip, Gripped, EveryRunIsGripped
<1>3. Spec => []J
  BY Invariant, PTL
<1> QED
  BY <1>1, <1>2, <1>3, OrderInitially, PTL DEF Spec

\* With such a vault, and as long as no await raises, a supervisor that is done has settled the
\* row of its own run, and no later wake's (DoneMeansSettled).
THEOREM DoneRunsAreSettled == Patient => (Spec => []DoneMeansSettled)
<1> SUFFICES ASSUME Patient PROVE Spec => []DoneMeansSettled
  OBVIOUS
<1> DEFINE J == TypeOK /\ Links /\ Control
<1>1. J /\ Order /\ [Next]_vars => Order'
  BY OrderStep
<1>2. Order => DoneMeansSettled
  BY DEF Order
<1>3. Spec => []J
  BY Invariant, PTL
<1> QED
  BY <1>1, <1>2, <1>3, OrderInitially, PTL DEF Spec

-----------------------------------------------------------------------------
(* The ledger, which such a vault's daemon keeps.                          *)

\* A row is written by the launch, goes with its install, and stays as it is until its run is over.
Unwritten == \A w \in Wakes : wake[w].phase \in {"planned", "checked"} => row[w].outcome = "none"

Gone == \A w \in Wakes : wake[w].phase # "idle" /\ install[KeyOf(w)] = "deleted" =>
    row[w].outcome = "none"

Unsettled == \A w \in Wakes : wake[w].phase # "idle" /\ ~ Over(w) =>
    row[w].outcome \in {"none", "running"}

StartingUp == \A w \in Wakes : Starting(w) => up

\* The key of a process under way has a handle, so no DELETE takes it for an orphan.
Led == \A w \in Wakes : (Running(w) /\ up) \/ wake[w].phase \in {"spawned", "launched"} =>
    registry[KeyOf(w)] # NoWake

\* The process of a handle that a key or a request leads to has been started.
Born ==
  /\ \A k \in Installs : registry[k] # NoWake => proc[registry[k]].state # "none"
  /\ \A q \in Requests : req[q].at \in {"writing", "overrun", "auditing", "grace"} =>
       proc[req[q].wake].state # "none"

\* While a DELETE looks for an orphan, its key has no handle and no launch.
Orphans == \A q \in Requests : req[q].at \in {"looking", "halting"} =>
  /\ req[q].key \in Installs /\ registry[req[q].key] = NoWake
  /\ \A w \in Wakes : KeyOf(w) = req[q].key => ~ Starting(w)

Halting == \A q \in Requests : req[q].at = "halting" =>
  \A w \in Wakes : IsLatest(w, req[q].key) => row[w].outcome \in {"running", "halted"}

Track == Unwritten /\ Gone /\ Unsettled /\ StartingUp /\ Led /\ Born /\ Orphans /\ Halting

\* A request that is about to halt a row may still do so when the rows of its key are the same
\* but for what other requests halted.
LEMMA HaltingSame ==
  ASSUME Halting,
         \A p \in Requests : req'[p].at = "halting" =>
           /\ req[p].at = "halting" /\ req'[p].key = req[p].key
           /\ \A w \in Wakes :
                /\ row'[w].outcome # "none" /\ KeyOf(w)' = req[p].key
                     <=> row[w].outcome # "none" /\ KeyOf(w) = req[p].key
                /\ KeyOf(w) = req[p].key => row'[w].outcome \in {row[w].outcome, "halted"}
  PROVE  Halting'
<1> SUFFICES ASSUME NEW p \in Requests, req'[p].at = "halting", NEW w \in Wakes, IsLatest(w, req[p].key)'
             PROVE  row'[w].outcome \in {"running", "halted"}
  BY DEF Halting
<1>1. req[p].at = "halting" /\ IsLatest(w, req[p].key)
  BY DEF IsLatest, Rows
<1>2. row[w].outcome \in {"running", "halted"} /\ KeyOf(w) = req[p].key
  BY <1>1 DEF Halting, IsLatest, Rows
<1> QED
  BY <1>2

\* The outcome that a supervisor writes is of its own run, and the first.
LEMMA OutcomeIsOwn ==
  ASSUME TypeOK, Concluded, Recorded, Order, Gone, Unsettled, NEW w \in Wakes, PersistOutcome(w)
  PROVE  /\ wake[w].phase = "launched" /\ ~ Over(w) /\ handle[w].status \in Outcomes
         /\ \A v \in Wakes : \/ row'[v] = row[v]
                             \/ v = w /\ row[v].outcome = "running" /\ row'[v].outcome = handle[w].status
<1>1. handle[w].status \in Outcomes /\ wake[w].phase = "launched" /\ ~ Over(w)
  BY DEF PersistOutcome, Concluded, Order, Supervised, Over
<1>2. ASSUME NEW v \in Rows(KeyOf(w)) PROVE v \in Wakes /\ ~(w < v) /\ row[w].outcome # "none"
  <2>1. v \in Wakes /\ row[v].outcome # "none" /\ KeyOf(v) = KeyOf(w) /\ wake[v].phase # "idle"
    BY <1>2 DEF Rows, Order, RowsKept
  <2>2. install[KeyOf(w)] # "deleted"
    BY <2>1 DEF Gone
  <2> QED
    BY <1>1, <2>1, <2>2 DEF Recorded, Order, Orderly
<1>3. ASSUME NEW v \in Wakes, IsLatest(v, KeyOf(w)) PROVE v = w
  <2>1. v \in Rows(KeyOf(w)) /\ w \in Rows(KeyOf(w))
    BY <1>2, <1>3 DEF IsLatest, Rows
  <2>2. w <= v /\ ~(w < v)
    BY <1>2, <1>3, <2>1 DEF IsLatest
  <2> QED
    BY <2>2, BoundsAssumption DEF Wakes
<1>4. row[w].outcome \in {"none", "running"}
  BY <1>1 DEF Unsettled
<1>5. ASSUME NEW v \in Wakes
      PROVE  row'[v] = row[v] \/ (v = w /\ row[v].outcome = "running" /\
               row'[v].outcome = handle[w].status)
  <2>1. CASE IsLatest(v, KeyOf(w))
    <3>1. v = w /\ row[w].outcome = "running"
      BY <1>3, <1>4, <2>1 DEF IsLatest, Rows
    <3> QED
      BY <2>1, <3>1 DEF PersistOutcome, LatestRowGets, TypeOK, DbOK, RowType
  <2>2. CASE ~ IsLatest(v, KeyOf(w))
    BY <2>2 DEF PersistOutcome, LatestRowGets
  <2> QED
    BY <2>1, <2>2
<1> QED
  BY <1>1, <1>5

\* A key without a handle, and without a launch, has no run under way.
LEMMA OrphansAreOver ==
  ASSUME TypeOK, Order, Led, NEW k, registry[k] = NoWake, NEW w \in Wakes, KeyOf(w) = k, ~ Starting(w)
  PROVE  wake[w].phase = "idle" \/ Over(w)
BY DEF Led, Over, Starting, TypeOK, WakeOK, WakeType

\* Every step keeps that too.
LEMMA TrackStep ==
  ASSUME Patient
  PROVE  TypeOK /\ Links /\ Control /\ Order /\ Track /\ [Next]_vars => Track'
<1> SUFFICES ASSUME TypeOK, Links, Control, Order, Track, [Next]_vars PROVE Track'
  OBVIOUS
<1> USE NoWakeIsNoWake DEF Track, Order, Links, Control, TypeOK
<1>1. ASSUME NEW k \in Installs, CreateInstall(k) PROVE Track'
  <2>1. Gone'
    BY <1>1 DEF CreateInstall, Gone, KeyOf
  <2> QED
    BY <1>1, <2>1 DEF CreateInstall, Unwritten, Unsettled, Over, StartingUp, Starting, Led,
       Running, KeyOf, Born, Live, Orphans, Halting, IsLatest, Rows
<1>2. ASSUME NEW k \in Installs, NEW s \in SettableStates, UpdateInstallState(k, s) PROVE Track'
  <2>1. Gone'
    BY <1>2, StatesAssumption DEF UpdateInstallState, Exists, InstallStates, Gone, KeyOf, DbOK
  <2> QED
    BY <1>2, <2>1 DEF UpdateInstallState, Unwritten, Unsettled, Over, StartingUp, Starting,
       Led, Running, KeyOf, Born, Live, Orphans, Halting, IsLatest, Rows
<1>3. ASSUME NEW k \in Installs, DeleteInstall(k) PROVE Track'
  <2>1. Unwritten'
    BY <1>3 DEF DeleteInstall, NoRow, Unwritten, DbOK, RowType
  <2>2. Gone'
    BY <1>3 DEF DeleteInstall, NoRow, Gone, KeyOf, DbOK, RowType
  <2>3. Unsettled'
    BY <1>3 DEF DeleteInstall, NoRow, Unsettled, Over, DbOK, RowType
  <2>4. Halting'
    BY <1>3 DEF DeleteInstall, NoRow, Halting, IsLatest, Rows, KeyOf, DbOK, RowType
  <2> QED
    BY <1>3, <2>1, <2>2, <2>3, <2>4 DEF DeleteInstall, StartingUp, Starting, Led, Running,
       KeyOf, Born, Live, Orphans
<1>4. ASSUME NEW w \in Wakes, NEW k \in Installs, NEW d \in Decisions, PlanLaunch(w, k, d) PROVE Track'
  <2>1. /\ \A v \in Wakes \ {w} : wake'[v] = wake[v]
        /\ wake'[w].phase \in {"refused", "planned"} /\ wake'[w].key = k
    BY <1>4 DEF PlanLaunch, WakeOK
  <2>2. wake[w].phase = "idle" /\ row[w].outcome = "none" /\ ~ Running(w)
    BY <1>4 DEF PlanLaunch, RowsKept, Unborn, Unstarted, Running
  <2>3. up /\ \A q \in Requests : req[q].key # k
    BY <1>4 DEF PlanLaunch, Quiet
  <2>4. Unwritten'
    BY <1>4, <2>1, <2>2, <2>3 DEF PlanLaunch, Unwritten
  <2>5. Gone'
    BY <1>4, <2>1, <2>2, <2>3 DEF PlanLaunch, Gone, KeyOf
  <2>6. Unsettled'
    BY <1>4, <2>1, <2>2, <2>3 DEF PlanLaunch, Unsettled, Over
  <2>7. StartingUp'
    BY <1>4, <2>1, <2>2, <2>3 DEF PlanLaunch, StartingUp, Starting
  <2>8. Led'
    BY <1>4, <2>1, <2>2, <2>3 DEF PlanLaunch, Led, KeyOf, Running
  <2>9. Orphans'
    BY <1>4, <2>1, <2>2, <2>3 DEF PlanLaunch, Orphans, Starting, KeyOf
  <2>10. Halting'
    <3>1. UNCHANGED <<req, row>>
      BY <1>4 DEF PlanLaunch
    <3>2. \A v \in Wakes \ {w} : KeyOf(v)' = KeyOf(v)
      BY <2>1 DEF KeyOf
    <3>3. KeyOf(w)' = k
      BY <2>1 DEF KeyOf
    <3>4. \A p \in Requests, v \in Wakes : row'[v].outcome # "none" /\ KeyOf(v)' = req[p].key
                                               <=> row[v].outcome # "none" /\ KeyOf(v) = req[p].key
      BY <2>2, <2>3, <3>1, <3>2, <3>3
    <3> QED
      BY <3>1, <3>4, HaltingSame
  <2> QED
    BY <1>4, <2>1, <2>2, <2>3, <2>4, <2>5, <2>6, <2>7, <2>8, <2>9, <2>10 DEF PlanLaunch,
       Born, Live
<1>5. ASSUME NEW w \in Wakes, CheckInstall(w) PROVE Track'
  <2>1. Unwritten'
    BY <1>5 DEF CheckInstall, Unwritten, WakeOK, WakeType
  <2>2. Gone'
    BY <1>5 DEF CheckInstall, Gone, KeyOf, WakeOK, WakeType
  <2>3. Unsettled'
    BY <1>5 DEF CheckInstall, Unsettled, Over, WakeOK, WakeType
  <2>4. StartingUp'
    BY <1>5 DEF CheckInstall, StartingUp, Starting, WakeOK, WakeType
  <2>5. Led'
    BY <1>5 DEF CheckInstall, Led, Running, KeyOf, WakeOK, WakeType
  <2>6. Orphans'
    BY <1>5 DEF CheckInstall, Orphans, Starting, KeyOf, WakeOK, WakeType
  <2>7. Halting'
    BY <1>5 DEF CheckInstall, Halting, IsLatest, Rows, KeyOf, WakeOK, WakeType
  <2> QED
    BY <1>5, <2>1, <2>2, <2>3, <2>4, <2>5, <2>6, <2>7 DEF CheckInstall, Born, Live
<1>6. ASSUME NEW w \in Wakes, InsertRow(w) PROVE Track'
  <2>1. \A v \in Wakes \ {w} : row'[v] = row[v] /\ wake'[v] = wake[v]
    BY <1>6 DEF InsertRow, DbOK, WakeOK
  <2>2. Starting(w) /\ wake'[w].key = wake[w].key /\ UNCHANGED req
    BY <1>6 DEF InsertRow, Starting, WakeOK, WakeType
  <2>3. row'[w] # row[w] => install[KeyOf(w)] # "deleted"
    BY <1>6 DEF InsertRow, Exists, InstallStates
  <2>4. wake[w].phase = "checked" /\ wake'[w].phase \in {"recorded", "failed"}
    BY <1>6 DEF InsertRow, WakeOK, WakeType
  <2>5. Unwritten'
    BY <2>1, <2>4 DEF Unwritten
  <2>6. Gone'
    BY <1>6, <2>1, <2>2, <2>3, <2>4 DEF InsertRow, Gone, KeyOf
  <2>7. Unsettled'
    BY <1>6, <2>1, <2>2, <2>3, <2>4 DEF InsertRow, Unsettled, Over, DbOK, RowType, WakeOK,
       WakeType
  <2>8. StartingUp'
    BY <1>6, <2>1, <2>2, <2>3, <2>4 DEF InsertRow, StartingUp, Starting, DbOK, RowType,
       WakeOK, WakeType
  <2>9. Led'
    <3>1. \A v \in Wakes : KeyOf(v)' = KeyOf(v) /\ (wake'[v].phase \in {"spawned", "launched"} => wake[v].phase \in {"spawned", "launched"})
      BY <2>1, <2>2, <2>4 DEF KeyOf
    <3> QED
      BY <1>6, <3>1 DEF InsertRow, Led, Running
  <2>10. Orphans'
    <3>1. \A v \in Wakes : KeyOf(v)' = KeyOf(v) /\ (Starting(v)' => Starting(v))
      BY <2>1, <2>2 DEF KeyOf, Starting
    <3> QED
      BY <1>6, <2>2, <3>1 DEF InsertRow, Orphans
  <2>11. Halting'
    <3>1. \A p \in Requests : req'[p].at = "halting" => KeyOf(w) # req[p].key
      BY <2>2 DEF Orphans
    <3>2. \A v \in Wakes : KeyOf(v)' = KeyOf(v)
      BY <2>1, <2>2 DEF KeyOf
    <3> QED
      BY <2>1, <2>2, <3>1, <3>2, HaltingSame
  <2> QED
    BY <1>6, <2>1, <2>2, <2>3, <2>4, <2>5, <2>6, <2>7, <2>8, <2>9, <2>10, <2>11 DEF
       InsertRow, Born, Live
<1>7. ASSUME NEW w \in Wakes, Spawn(w) PROVE Track'
  <2>1. Unwritten'
    BY <1>7 DEF Spawn, Accounted, Unwritten, ProcOK, ProcType, HandleOK, HandleType,
       DaemonOK, WakeOK, WakeType
  <2>2. Gone'
    BY <1>7 DEF Spawn, Accounted, Gone, KeyOf, ProcOK, ProcType, HandleOK, HandleType,
       DaemonOK, WakeOK, WakeType
  <2>3. Unsettled'
    BY <1>7 DEF Spawn, Accounted, Unsettled, Over, ProcOK, ProcType, HandleOK, HandleType,
       DaemonOK, WakeOK, WakeType
  <2>4. StartingUp'
    BY <1>7 DEF Spawn, Accounted, StartingUp, Starting, ProcOK, ProcType, HandleOK,
       HandleType, DaemonOK, WakeOK, WakeType
  <2>5. Led'
    <3>1. KeyOf(w) \in Installs /\ w # NoWake
      BY <1>7 DEF Spawn, Accounted, Keyed
    <3>2. \A v \in Wakes \ {w} : wake'[v] = wake[v] /\ proc'[v] = proc[v]
      BY <1>7 DEF Spawn, WakeOK, ProcOK
    <3>3. KeyOf(w)' = KeyOf(w)
      BY <1>7 DEF Spawn, KeyOf, WakeOK, WakeType
    <3>4. \A j : registry[j] # NoWake /\ j \in Installs => registry'[j] # NoWake
      BY <1>7, <3>1 DEF Spawn, DaemonOK
    <3>5. registry'[KeyOf(w)] # NoWake
      BY <1>7, <3>1 DEF Spawn, DaemonOK
    <3>6. ASSUME NEW v \in Wakes \ {w}, (Running(v) /\ up) \/ wake[v].phase \in {"spawned", "launched"}
          PROVE  KeyOf(v) \in Installs
      BY <3>6, ProcessKeyed DEF Running, Keyed
    <3> QED
      BY <1>7, <3>2, <3>3, <3>4, <3>5, <3>6 DEF Spawn, Led, Running, KeyOf
  <2>6. Born'
    BY <1>7 DEF Spawn, Accounted, Born, Live, ProcOK, ProcType, HandleOK, HandleType,
       DaemonOK, WakeOK, WakeType
  <2>7. Orphans'
    BY <1>7 DEF Spawn, Accounted, Orphans, Starting, KeyOf, ProcOK, ProcType, HandleOK,
       HandleType, DaemonOK, WakeOK, WakeType
  <2>8. Halting'
    BY <1>7 DEF Spawn, Accounted, Halting, IsLatest, Rows, KeyOf, ProcOK, ProcType,
       HandleOK, HandleType, DaemonOK, WakeOK, WakeType
  <2> QED
    BY <1>7, <2>1, <2>2, <2>3, <2>4, <2>5, <2>6, <2>7, <2>8 DEF Spawn
<1>8. ASSUME NEW w \in Wakes, EmitRunStarted(w) PROVE Track'
  <2>1. Unwritten'
    BY <1>8 DEF EmitRunStarted, Unwritten, HandleOK, HandleType, WakeOK, WakeType
  <2>2. Gone'
    BY <1>8 DEF EmitRunStarted, Gone, KeyOf, HandleOK, HandleType, WakeOK, WakeType
  <2>3. Unsettled'
    <3>1. wake[w].phase # "idle" /\ ~ Over(w)
      BY <1>8 DEF EmitRunStarted, Over, Unwatched
    <3>2. \A v \in Wakes \ {w} : wake'[v] = wake[v] /\ handle'[v] = handle[v]
      BY <1>8 DEF EmitRunStarted, WakeOK, HandleOK
    <3> QED
      BY <1>8, <3>1, <3>2 DEF EmitRunStarted, Unsettled, Over
  <2>4. StartingUp'
    BY <1>8 DEF EmitRunStarted, StartingUp, Starting, HandleOK, HandleType, WakeOK, WakeType
  <2>5. Led'
    BY <1>8 DEF EmitRunStarted, Led, Running, KeyOf, HandleOK, HandleType, WakeOK, WakeType
  <2>6. Orphans'
    BY <1>8 DEF EmitRunStarted, Orphans, Starting, KeyOf, HandleOK, HandleType, WakeOK,
       WakeType
  <2>7. Halting'
    BY <1>8 DEF EmitRunStarted, Halting, IsLatest, Rows, KeyOf, HandleOK, HandleType,
       WakeOK, WakeType
  <2> QED
    BY <1>8, <2>1, <2>2, <2>3, <2>4, <2>5, <2>6, <2>7 DEF EmitRunStarted, Born, Live
<1>9. ASSUME NEW w \in Wakes, StartRaises(w) PROVE Track'
  <2>1. Unwritten'
    BY <1>9 DEF StartRaises, Raise, Starting, Unwritten, WakeOK, WakeType, DaemonOK
  <2>2. Gone'
    BY <1>9 DEF StartRaises, Raise, Starting, Gone, KeyOf, WakeOK, WakeType, DaemonOK
  <2>3. Unsettled'
    BY <1>9 DEF StartRaises, Raise, Starting, Unsettled, Over, WakeOK, WakeType, DaemonOK
  <2>4. StartingUp'
    BY <1>9 DEF StartRaises, Raise, Starting, StartingUp, WakeOK, WakeType, DaemonOK
  <2>5. Led'
    BY <1>9 DEF StartRaises, Raise, Starting, Led, Running, KeyOf, WakeOK, WakeType,
       DaemonOK
  <2>6. Orphans'
    BY <1>9 DEF StartRaises, Raise, Starting, Orphans, KeyOf, WakeOK, WakeType, DaemonOK
  <2>7. Halting'
    BY <1>9 DEF StartRaises, Raise, Starting, Halting, IsLatest, Rows, KeyOf, WakeOK,
       WakeType, DaemonOK
  <2> QED
    BY <1>9, <2>1, <2>2, <2>3, <2>4, <2>5, <2>6, <2>7 DEF StartRaises, Born, Live
<1>10. ASSUME NEW w \in Wakes, WriteLine(w) PROVE Track'
  <2>1. Led'
    BY <1>10 DEF WriteLine, Led, Running, KeyOf, ProcOK, ProcType
  <2>2. Born'
    <3>1. \A v \in Wakes : proc[v].state # "none" => proc'[v].state # "none"
      BY <1>10 DEF WriteLine, Terminate, ProcOK, ProcType
    <3>2. UNCHANGED <<registry, req>>
      BY <1>10 DEF WriteLine
    <3> QED
      BY <3>1, <3>2, LiveWake DEF Born, Live, Owned
  <2> QED
    BY <1>10, <2>1, <2>2 DEF WriteLine, Unwritten, Gone, KeyOf, Unsettled, Over, StartingUp,
       Starting, Orphans, Halting, IsLatest, Rows
<1>11. ASSUME NEW w \in Wakes, NEW c \in {"zero", "nonzero"}, ExitProcess(w, c) PROVE Track'
  <2>1. Led'
    BY <1>11 DEF ExitProcess, Led, Running, KeyOf, ProcOK, ProcType
  <2>2. Born'
    <3>1. \A v \in Wakes : proc[v].state # "none" => proc'[v].state # "none"
      BY <1>11 DEF ExitProcess, Terminate, ProcOK, ProcType
    <3>2. UNCHANGED <<registry, req>>
      BY <1>11 DEF ExitProcess
    <3> QED
      BY <3>1, <3>2, LiveWake DEF Born, Live, Owned
  <2> QED
    BY <1>11, <2>1, <2>2 DEF ExitProcess, Unwritten, Gone, KeyOf, Unsettled, Over,
       StartingUp, Starting, Orphans, Halting, IsLatest, Rows
<1>12. ASSUME NEW w \in Wakes, Pump(w) PROVE Track'
  <2>1. Led'
    BY <1>12 DEF Pump, Led, Running, KeyOf, ProcOK, ProcType
  <2>2. Born'
    <3>1. \A v \in Wakes : proc[v].state # "none" => proc'[v].state # "none"
      BY <1>12 DEF Pump, Terminate, ProcOK, ProcType
    <3>2. UNCHANGED <<registry, req>>
      BY <1>12 DEF Pump
    <3> QED
      BY <3>1, <3>2, LiveWake DEF Born, Live, Owned
  <2> QED
    BY <1>12, <2>1, <2>2 DEF Pump, Unwritten, Gone, KeyOf, Unsettled, Over, StartingUp,
       Starting, Orphans, Halting, IsLatest, Rows
<1>13. ASSUME NEW w \in Wakes, PumpRaises(w) PROVE Track'
  <2>1. Unsettled'
    BY <1>13 DEF PumpRaises, Raise, Unsettled, Over, ProcOK, ProcType, HandleOK, HandleType,
       DaemonOK
  <2>2. Led'
    BY <1>13 DEF PumpRaises, Raise, Led, Running, KeyOf, ProcOK, ProcType, HandleOK,
       HandleType, DaemonOK
  <2>3. Born'
    <3>1. \A v \in Wakes : proc[v].state # "none" => proc'[v].state # "none"
      BY <1>13 DEF PumpRaises, Terminate, ProcOK, ProcType
    <3>2. UNCHANGED <<registry, req>>
      BY <1>13 DEF PumpRaises
    <3> QED
      BY <3>1, <3>2, LiveWake DEF Born, Live, Owned
  <2> QED
    BY <1>13, <2>1, <2>2, <2>3 DEF PumpRaises, Unwritten, Gone, KeyOf, StartingUp, Starting,
       Orphans, Halting, IsLatest, Rows
<1>14. ASSUME NEW w \in Wakes, FinishRun(w) PROVE Track'
  <2>1. Unsettled'
    BY <1>14 DEF FinishRun, RunEnded, ExitStatus, Exited, Unsettled, Over, HandleOK,
       HandleType
  <2> QED
    BY <1>14, <2>1 DEF FinishRun, Unwritten, Gone, KeyOf, StartingUp, Starting, Led,
       Running, Born, Live, Orphans, Halting, IsLatest, Rows
<1>15. ASSUME NEW w \in Wakes, CloseTranscript(w) PROVE Track'
  <2>1. Unsettled'
    BY <1>15 DEF CloseTranscript, Unsettled, Over, HandleOK, HandleType
  <2> QED
    BY <1>15, <2>1 DEF CloseTranscript, Unwritten, Gone, KeyOf, StartingUp, Starting, Led,
       Running, Born, Live, Orphans, Halting, IsLatest, Rows
<1>16. ASSUME NEW w \in Wakes, EmitTerminal(w) PROVE Track'
  <2>1. Unsettled'
    BY <1>16 DEF EmitTerminal, Unsettled, Over, HandleOK, HandleType
  <2> QED
    BY <1>16, <2>1 DEF EmitTerminal, Unwritten, Gone, KeyOf, StartingUp, Starting, Led,
       Running, Born, Live, Orphans, Halting, IsLatest, Rows
<1>17. ASSUME NEW w \in Wakes, PersistCost(w) PROVE Track'
  <2>1. \A v \in Wakes : row'[v].outcome = row[v].outcome
    BY <1>17, CostKeepsOutcome DEF PersistCost
  <2>2. Unwritten'
    BY <1>17, <2>1 DEF PersistCost, Unwritten
  <2>3. Gone'
    BY <1>17, <2>1 DEF PersistCost, Gone, KeyOf
  <2>4. Unsettled'
    <3>1. \A v \in Wakes : Over(v)' <=> Over(v)
      BY <1>17 DEF PersistCost, Over, HandleOK, HandleType
    <3> QED
      BY <1>17, <2>1, <3>1 DEF PersistCost, Unsettled
  <2>5. Halting'
    <3>1. \A p \in Requests : req'[p].at = "halting" => req[p].at = "halting" /\ req'[p].key = req[p].key
      BY <1>17 DEF PersistCost, RequestOK, RequestType, NoRequest
    <3>2. \A v \in Wakes : KeyOf(v)' = KeyOf(v)
      BY <1>17 DEF PersistCost, KeyOf
    <3> QED
      BY <2>1, <3>1, <3>2, HaltingSame
  <2> QED
    BY <1>17, <2>1, <2>2, <2>3, <2>4, <2>5 DEF PersistCost, StartingUp, Starting, Led,
       Running, KeyOf, Born, Live, Orphans
<1>18. ASSUME NEW w \in Wakes, PersistOutcome(w) PROVE Track'
  <2>1. \A v \in Wakes : row'[v] = row[v]
                         \/ (v = w /\ row[v].outcome = "running" /\ row'[v].outcome = handle[w].status)
    BY <1>18, OutcomeIsOwn
  <2>2. wake[w].phase = "launched" /\ ~ Over(w) /\ handle[w].status \in Outcomes
    BY <1>18, OutcomeIsOwn
  <2>3. Over(w)' /\ \A v \in Wakes \ {w} : Over(v)' = Over(v)
    BY <1>18 DEF PersistOutcome, Over, HandleOK, HandleType
  <2>4. Unwritten'
    BY <1>18, <2>1, <2>2 DEF PersistOutcome, Unwritten
  <2>5. Gone'
    BY <1>18, <2>1, <2>2 DEF PersistOutcome, Gone, KeyOf
  <2>6. Unsettled'
    BY <1>18, <2>1, <2>2, <2>3 DEF PersistOutcome, Unsettled
  <2>7. Halting'
    <3>1. \A p \in Requests : req[p].at = "halting" => KeyOf(w) # req[p].key
      BY <2>2 DEF Orphans, Led
    <3>2. UNCHANGED req /\ \A v \in Wakes : KeyOf(v)' = KeyOf(v)
      BY <1>18 DEF PersistOutcome, KeyOf
    <3> QED
      BY <2>1, <3>1, <3>2, HaltingSame
  <2> QED
    BY <1>18, <2>1, <2>2, <2>3, <2>4, <2>5, <2>6, <2>7 DEF PersistOutcome, StartingUp,
       Starting, Led, Running, KeyOf, Born, Live, Orphans
<1>19. ASSUME NEW w \in Wakes, SuperviseRaises(w) PROVE Track'
  <2>1. Unsettled'
    BY <1>19 DEF SuperviseRaises, Raise, Unsettled, Over, HandleOK, HandleType, DaemonOK
  <2> QED
    BY <1>19, <2>1 DEF SuperviseRaises, Unwritten, Gone, KeyOf, StartingUp, Starting, Led,
       Running, Born, Live, Orphans, Halting, IsLatest, Rows
<1>20. ASSUME NEW q \in Requests, NEW o \in Wakes, NEW a \in Samples, ReportCost(q, o, a) PROVE Track'
  <2>1. Unsettled'
    BY <1>20 DEF ReportCost, Live, Idle, Unsettled, Over, HandleOK, HandleType, RequestOK,
       RequestType, SeenOK, SeenType
  <2>2. Born'
    <3>1. proc[registry[KeyOf(o)]].state # "none"
      BY <1>20, ProcessKeyed DEF ReportCost, Live, Born
    <3>2. UNCHANGED <<proc, registry>> /\ \A p \in Requests : req'[p] = req[p] \/
            req'[p].wake = registry[KeyOf(o)]
      BY <1>20 DEF ReportCost, RequestOK
    <3> QED
      BY <3>1, <3>2 DEF Born
  <2>3. Orphans'
    BY <1>20 DEF ReportCost, Live, Idle, Orphans, Starting, KeyOf, HandleOK, HandleType,
       RequestOK, RequestType, SeenOK, SeenType
  <2>4. Halting'
    BY <1>20 DEF ReportCost, Live, Idle, Halting, IsLatest, Rows, KeyOf, HandleOK,
       HandleType, RequestOK, RequestType, SeenOK, SeenType
  <2> QED
    BY <1>20, <2>1, <2>2, <2>3, <2>4 DEF ReportCost, Unwritten, Gone, KeyOf, StartingUp,
       Starting, Led, Running
<1>21. ASSUME NEW q \in Requests, WriteTotals(q) PROVE Track'
  <2>1. \A v \in Wakes : row'[v].outcome = row[v].outcome
    BY <1>21, CostKeepsOutcome DEF WriteTotals
  <2>2. Unwritten'
    BY <1>21, <2>1 DEF WriteTotals, Unwritten
  <2>3. Gone'
    BY <1>21, <2>1 DEF WriteTotals, Gone, KeyOf
  <2>4. Unsettled'
    BY <1>21, <2>1 DEF WriteTotals, Unsettled, Over
  <2>5. Born'
    BY <1>21, <2>1 DEF WriteTotals, NoRequest, Born, Live, DbOK, RowType, RequestOK,
       RequestType
  <2>6. Orphans'
    BY <1>21, <2>1 DEF WriteTotals, NoRequest, Orphans, Starting, KeyOf, DbOK, RowType,
       RequestOK, RequestType
  <2>7. Halting'
    <3>1. \A p \in Requests : req'[p].at = "halting" => req[p].at = "halting" /\ req'[p].key = req[p].key
      BY <1>21 DEF WriteTotals, RequestOK, RequestType, NoRequest
    <3>2. \A v \in Wakes : KeyOf(v)' = KeyOf(v)
      BY <1>21 DEF WriteTotals, KeyOf
    <3> QED
      BY <2>1, <3>1, <3>2, HaltingSame
  <2> QED
    BY <1>21, <2>1, <2>2, <2>3, <2>4, <2>5, <2>6, <2>7 DEF WriteTotals, StartingUp,
       Starting, Led, Running, KeyOf
<1>22. ASSUME NEW q \in Requests, WriteOverrun(q) PROVE Track'
  <2>1. \A v \in Wakes : row'[v].outcome = row[v].outcome
    BY <1>22, CostKeepsOutcome DEF WriteOverrun
  <2>2. Unwritten'
    BY <1>22, <2>1 DEF WriteOverrun, Unwritten
  <2>3. Gone'
    BY <1>22, <2>1 DEF WriteOverrun, Gone, KeyOf
  <2>4. Unsettled'
    BY <1>22, <2>1 DEF WriteOverrun, Unsettled, Over
  <2>5. Born'
    BY <1>22, <2>1 DEF WriteOverrun, Born, Live, DbOK, RowType, RequestOK, RequestType
  <2>6. Orphans'
    BY <1>22, <2>1 DEF WriteOverrun, Orphans, Starting, KeyOf, DbOK, RowType, RequestOK,
       RequestType
  <2>7. Halting'
    <3>1. \A p \in Requests : req'[p].at = "halting" => req[p].at = "halting" /\ req'[p].key = req[p].key
      BY <1>22 DEF WriteOverrun, RequestOK, RequestType, NoRequest
    <3>2. \A v \in Wakes : KeyOf(v)' = KeyOf(v)
      BY <1>22 DEF WriteOverrun, KeyOf
    <3> QED
      BY <2>1, <3>1, <3>2, HaltingSame
  <2> QED
    BY <1>22, <2>1, <2>2, <2>3, <2>4, <2>5, <2>6, <2>7 DEF WriteOverrun, StartingUp,
       Starting, Led, Running, KeyOf
<1>23. ASSUME NEW q \in Requests, EmitCapHalt(q) PROVE Track'
  <2>1. Led'
    BY <1>23 DEF EmitCapHalt, Terminate, NoRequest, Led, Running, KeyOf, ProcOK, ProcType,
       RequestOK, RequestType
  <2>2. Born'
    <3>1. \A v \in Wakes : proc[v].state # "none" => proc'[v].state # "none"
      BY <1>23 DEF EmitCapHalt, Terminate, ProcOK, ProcType
    <3>2. UNCHANGED registry /\ \A p \in Requests : req'[p] = req[p] \/ req'[p].at = "idle" \/
            (req'[p].wake = req[p].wake /\ req[p].at = "auditing")
      BY <1>23 DEF EmitCapHalt, Terminate, NoRequest, RequestOK, RequestType
    <3> QED
      BY <3>1, <3>2, LiveWake DEF Born, Live, Owned
  <2>3. Orphans'
    <3>1. \A p \in Requests : req'[p].at \in {"looking", "halting"} => req'[p] = req[p]
      BY <1>23 DEF EmitCapHalt, Terminate, NoRequest, RequestOK
    <3> QED
      BY <1>23, <3>1 DEF EmitCapHalt, Orphans, Starting, KeyOf
  <2>4. Halting'
    BY <1>23 DEF EmitCapHalt, Terminate, NoRequest, Halting, IsLatest, Rows, KeyOf, ProcOK,
       ProcType, RequestOK, RequestType
  <2> QED
    BY <1>23, <2>1, <2>2, <2>3, <2>4 DEF EmitCapHalt, Unwritten, Gone, KeyOf, Unsettled,
       Over, StartingUp, Starting
<1>24. ASSUME NEW q \in Requests, GraceEnds(q) PROVE Track'
  <2>1. Born'
    BY <1>24 DEF GraceEnds, NoRequest, Born, Live, RequestOK, RequestType
  <2>2. Orphans'
    BY <1>24 DEF GraceEnds, NoRequest, Orphans, Starting, KeyOf, RequestOK, RequestType
  <2>3. Halting'
    BY <1>24 DEF GraceEnds, NoRequest, Halting, IsLatest, Rows, KeyOf, RequestOK,
       RequestType
  <2> QED
    BY <1>24, <2>1, <2>2, <2>3 DEF GraceEnds, Unwritten, Gone, KeyOf, Unsettled, Over,
       StartingUp, Starting, Led, Running
<1>25. ASSUME NEW q \in Requests, GraceExpires(q) PROVE Track'
  <2>1. Led'
    BY <1>25 DEF GraceExpires, NoRequest, Exited, Led, Running, KeyOf, ProcOK, ProcType,
       RequestOK, RequestType
  <2>2. Born'
    <3>1. \A v \in Wakes : proc[v].state # "none" => proc'[v].state # "none"
      BY <1>25 DEF GraceExpires, Terminate, ProcOK, ProcType
    <3>2. UNCHANGED registry /\ \A p \in Requests : req'[p] = req[p] \/ req'[p].at = "idle" \/
            (req'[p].wake = req[p].wake /\ req[p].at = "auditing")
      BY <1>25 DEF GraceExpires, Terminate, NoRequest, RequestOK, RequestType
    <3> QED
      BY <3>1, <3>2, LiveWake DEF Born, Live, Owned
  <2>3. Orphans'
    BY <1>25 DEF GraceExpires, NoRequest, Exited, Orphans, Starting, KeyOf, ProcOK,
       ProcType, RequestOK, RequestType
  <2>4. Halting'
    BY <1>25 DEF GraceExpires, NoRequest, Exited, Halting, IsLatest, Rows, KeyOf, ProcOK,
       ProcType, RequestOK, RequestType
  <2> QED
    BY <1>25, <2>1, <2>2, <2>3, <2>4 DEF GraceExpires, Unwritten, Gone, KeyOf, Unsettled,
       Over, StartingUp, Starting
<1>26. ASSUME NEW q \in Requests, NEW k \in Installs, DeleteLive(q, k) PROVE Track'
  <2>1. Led'
    BY <1>26 DEF DeleteLive, Terminate, NoRequest, Led, Running, KeyOf, ProcOK, ProcType,
       RequestOK, RequestType
  <2>2. Born'
    <3>1. \A v \in Wakes : proc[v].state # "none" => proc'[v].state # "none"
      BY <1>26 DEF DeleteLive, Terminate, ProcOK, ProcType
    <3>2. UNCHANGED registry /\ \A p \in Requests : req'[p] = req[p] \/ req'[p].at = "idle" \/
            (req'[p].wake = registry[k] /\ registry[k] # NoWake)
      BY <1>26 DEF DeleteLive, Live, Terminate, NoRequest, RequestOK, RequestType
    <3> QED
      BY <3>1, <3>2, LiveWake DEF Born, Live, Owned
  <2>3. Orphans'
    <3>1. \A p \in Requests : req'[p].at \in {"looking", "halting"} => req'[p] = req[p]
      BY <1>26 DEF DeleteLive, Terminate, NoRequest, RequestOK
    <3> QED
      BY <1>26, <3>1 DEF DeleteLive, Orphans, Starting, KeyOf
  <2>4. Halting'
    BY <1>26 DEF DeleteLive, Terminate, NoRequest, Halting, IsLatest, Rows, KeyOf, ProcOK,
       ProcType, RequestOK, RequestType
  <2> QED
    BY <1>26, <2>1, <2>2, <2>3, <2>4 DEF DeleteLive, Unwritten, Gone, KeyOf, Unsettled,
       Over, StartingUp, Starting
<1>27. ASSUME NEW q \in Requests, NEW k \in Installs, DeleteMiss(q, k) PROVE Track'
  <2>1. Born'
    BY <1>27 DEF DeleteMiss, Born, Live, RequestOK, RequestType
  <2>2. Orphans'
    <3>1. registry[k] = NoWake /\ \A w \in Wakes : KeyOf(w) = k => ~ Starting(w)
      BY <1>27 DEF DeleteMiss, Live, Answered
    <3>2. req'[q].key = k /\ \A p \in Requests \ {q} : req'[p] = req[p]
      BY <1>27 DEF DeleteMiss, RequestOK
    <3>3. UNCHANGED <<wake, registry>>
      BY <1>27 DEF DeleteMiss
    <3> QED
      BY <3>1, <3>2, <3>3 DEF Orphans, Starting, KeyOf
  <2>3. Halting'
    BY <1>27 DEF DeleteMiss, Halting, IsLatest, Rows, KeyOf, RequestOK, RequestType
  <2> QED
    BY <1>27, <2>1, <2>2, <2>3 DEF DeleteMiss, Unwritten, Gone, KeyOf, Unsettled, Over,
       StartingUp, Starting, Led, Running
<1>28. ASSUME NEW q \in Requests, ReadOrphan(q) PROVE Track'
  <2>1. Born'
    BY <1>28 DEF ReadOrphan, NoRequest, Born, Live, RequestOK, RequestType
  <2>2. Orphans'
    BY <1>28 DEF ReadOrphan, NoRequest, Orphans, Starting, KeyOf, RequestOK, RequestType
  <2>3. Halting'
    <3>1. req'[q].at = "halting" => Orphaned(req[q].key) /\ req'[q].key = req[q].key
      BY <1>28 DEF ReadOrphan, NoRequest, RequestOK, RequestType
    <3>2. \A p \in Requests \ {q} : req'[p] = req[p]
      BY <1>28 DEF ReadOrphan, RequestOK
    <3>3. \A w \in Wakes : Orphaned(req[q].key) /\ IsLatest(w, req[q].key) => row[w].outcome = "running"
      <4>1. \A v, w \in Wakes : v <= w /\ w <= v => v = w
        BY BoundsAssumption DEF Wakes
      <4> QED
        BY <4>1 DEF Orphaned, IsLatest, Rows
    <3>4. UNCHANGED <<row, wake>>
      BY <1>28 DEF ReadOrphan
    <3> QED
      BY <3>1, <3>2, <3>3, <3>4 DEF Halting, IsLatest, Rows, KeyOf
  <2> QED
    BY <1>28, <2>1, <2>2, <2>3 DEF ReadOrphan, Unwritten, Gone, KeyOf, Unsettled, Over,
       StartingUp, Starting, Led, Running
<1>29. ASSUME NEW q \in Requests, HaltOrphan(q) PROVE Track'
  <2>1. \A v \in Wakes : \/ row'[v] = row[v]
                         \/ KeyOf(v) = req[q].key /\ row[v].outcome # "none" /\ row'[v].outcome = "halted"
    BY <1>29 DEF HaltOrphan, LatestRowGets, IsLatest, Rows, DbOK, RowType
  <2>2. \A v \in Wakes : KeyOf(v) = req[q].key => wake[v].phase = "idle" \/ Over(v)
    BY <1>29, OrphansAreOver DEF HaltOrphan, Orphans
  <2>3. Unwritten'
    BY <1>29, <2>1 DEF HaltOrphan, Unwritten
  <2>4. Gone'
    BY <1>29, <2>1 DEF HaltOrphan, Gone, KeyOf
  <2>5. Unsettled'
    BY <1>29, <2>1, <2>2 DEF HaltOrphan, Unsettled, Over
  <2>6. Born'
    BY <1>29, <2>1, <2>2 DEF HaltOrphan, LatestRowGets, NoRequest, Born, Live, DbOK,
       RowType, RequestOK, RequestType
  <2>7. Orphans'
    BY <1>29, <2>1, <2>2 DEF HaltOrphan, LatestRowGets, NoRequest, Orphans, Starting, KeyOf,
       DbOK, RowType, RequestOK, RequestType
  <2>8. Halting'
    BY <1>29, <2>1, <2>2 DEF HaltOrphan, LatestRowGets, NoRequest, Halting, IsLatest, Rows,
       KeyOf, DbOK, RowType, RequestOK, RequestType
  <2> QED
    BY <1>29, <2>1, <2>2, <2>3, <2>4, <2>5, <2>6, <2>7, <2>8 DEF HaltOrphan, StartingUp,
       Starting, Led, Running, KeyOf
<1>30. ASSUME NEW q \in Requests, RequestRaises(q) PROVE Track'
  <2>1. Born'
    BY <1>30 DEF RequestRaises, NoRequest, Raise, Born, Live, RequestOK, RequestType,
       DaemonOK
  <2>2. Orphans'
    BY <1>30 DEF RequestRaises, NoRequest, Raise, Orphans, Starting, KeyOf, RequestOK,
       RequestType, DaemonOK
  <2>3. Halting'
    BY <1>30 DEF RequestRaises, NoRequest, Raise, Halting, IsLatest, Rows, KeyOf, RequestOK,
       RequestType, DaemonOK
  <2> QED
    BY <1>30, <2>1, <2>2, <2>3 DEF RequestRaises, Unwritten, Gone, KeyOf, Unsettled, Over,
       StartingUp, Starting, Led, Running
<1>31. ASSUME NEW k \in Installs, OpenStream(k) PROVE Track'
  BY <1>31 DEF OpenStream, Unwritten, Gone, KeyOf, Unsettled, Over, StartingUp, Starting,
     Led, Running, Born, Live, Orphans, Halting, IsLatest, Rows
<1>32. ASSUME NEW w \in Wakes, ReadStream(w) PROVE Track'
  BY <1>32 DEF ReadStream, Unwritten, Gone, KeyOf, Unsettled, Over, StartingUp, Starting,
     Led, Running, Born, Live, Orphans, Halting, IsLatest, Rows
<1>33. ASSUME NEW w \in Wakes, DropStream(w) PROVE Track'
  BY <1>33 DEF DropStream, Unwritten, Gone, KeyOf, Unsettled, Over, StartingUp, Starting,
     Led, Running, Born, Live, Orphans, Halting, IsLatest, Rows
<1>34. ASSUME Shutdown PROVE Track'
  <2>1. Unsettled'
    BY <1>34 DEF Shutdown, Cancelled, Starting, Unsettled, Over, HandleOK, HandleType,
       DaemonOK
  <2>2. StartingUp'
    BY <1>34 DEF Shutdown, Cancelled, Starting, StartingUp, HandleOK, HandleType, DaemonOK
  <2>3. Led'
    BY <1>34 DEF Shutdown, Cancelled, Starting, Led, Running, KeyOf, HandleOK, HandleType,
       DaemonOK
  <2> QED
    BY <1>34, <2>1, <2>2, <2>3 DEF Shutdown, Unwritten, Gone, KeyOf, Born, Live, Orphans,
       Starting, Halting, IsLatest, Rows
<1>35. ASSUME Restart PROVE Track'
  <2>1. \A v \in Wakes : /\ wake'[v].phase \in {"idle", "refused", "rejected", "lost"}
                         /\ wake'[v].key = wake[v].key /\ (wake'[v].phase = "idle" <=> wake[v].phase = "idle")
    BY <1>35 DEF Restart, Forgotten, WakeOK, WakeType
  <2>2. \A v \in Wakes : ~ Running(v)'
    BY <1>35 DEF Restart, Reaped, Running, ProcOK, ProcType
  <2>3. Unwritten'
    BY <2>1, <2>2 DEF Unwritten
  <2>4. Gone'
    BY <1>35, <2>1 DEF Restart, Gone, KeyOf
  <2>5. Unsettled'
    BY <2>1, <2>2 DEF Unsettled, Over
  <2>6. StartingUp'
    BY <2>1, <2>2 DEF StartingUp, Starting
  <2>7. Led'
    BY <2>1, <2>2 DEF Led
  <2>8. Born'
    BY <1>35, <2>1, <2>2 DEF Restart, Forgotten, Reaped, NoHandle, NoRequest, Born, Live,
       WakeOK, WakeType, DaemonOK, HandleOK, HandleType, ProcOK, ProcType, RequestOK,
       RequestType
  <2>9. Orphans'
    BY <1>35 DEF Restart, Orphans, NoRequest
  <2>10. Halting'
    BY <1>35 DEF Restart, Halting, NoRequest
  <2> QED
    BY <1>35, <2>1, <2>2, <2>3, <2>4, <2>5, <2>6, <2>7, <2>8, <2>9, <2>10 DEF Restart
<1>36. ASSUME UNCHANGED vars PROVE Track'
  BY <1>36 DEF vars, Unwritten, Gone, KeyOf, Unsettled, Over, StartingUp, Starting, Led,
     Running, Born, Live, Orphans, Halting, IsLatest, Rows
<1> QED
  BY <1>1, <1>2, <1>3, <1>4, <1>5, <1>6, <1>7, <1>8, <1>9, <1>10, <1>11, <1>12, <1>13,
     <1>14, <1>15, <1>16, <1>17, <1>18, <1>19, <1>20, <1>21, <1>22, <1>23, <1>24, <1>25,
     <1>26, <1>27, <1>28, <1>29, <1>30, <1>31, <1>32, <1>33, <1>34, <1>35, <1>36 DEF Next,
     Vault, Launch, Agent, Supervise, Serve, Raises

\* No wake, no row and no request is there yet.
LEMMA TrackInitially == Init => Track
BY NoWakeIsNoWake DEF Init, Track, Unwritten, Gone, Unsettled, StartingUp, Led, Born, Orphans,
   Halting, Starting,
   Running, NoRow, NoRequest

\* What leaves the ledger's view of a wake as it is.
LEMMA SameOutcome ==
  ASSUME NEW w \in Wakes, row'[w].outcome = row[w].outcome, KeyOf(w)' = KeyOf(w),
         wake'[w].phase = "idle" <=> wake[w].phase = "idle",
         install'[KeyOf(w)] = "deleted" <=> install[KeyOf(w)] = "deleted"
  PROVE  LedgerOutcome(w)' = LedgerOutcome(w)
BY DEF LedgerOutcome

\* A process keeps its life with its state, while the daemon stays up or down.
LEMMA SameLife ==
  ASSUME NEW w \in Wakes, proc'[w].state = proc[w].state, up' = up
  PROVE  LedgerLife(w)' = LedgerLife(w)
BY DEF LedgerLife, Running

\* A wake keeps its outcome through the phases of its launch.
LEMMA SameWake ==
  ASSUME NEW w \in Wakes, wake'[w].key = wake[w].key, wake'[w].phase = "idle" <=> wake[w].phase = "idle",
         UNCHANGED <<row, install>>
  PROVE  LedgerOutcome(w)' = LedgerOutcome(w)
BY SameOutcome DEF KeyOf

\* The steps of the ledger, wake by wake.
OutcomeStays(w) == LedgerOutcome(w)' = LedgerOutcome(w)
LifeStays(w)    == LedgerLife(w)' = LedgerLife(w)

\* No wake changes.
LEMMA LedgerStutters ==
  ASSUME \A w \in Wakes : OutcomeStays(w) /\ LifeStays(w)
  PROVE  UNCHANGED Ledger!vars
BY DEF Ledger!vars, OutcomeStays, LifeStays

\* Processes end.
LEMMA LedgerDies ==
  ASSUME NEW R \in SUBSET Wakes, \A w \in Wakes : OutcomeStays(w),
         \A w \in Wakes : LedgerLife(w)' = IF w \in R /\ LedgerLife(w) = "alive" THEN "dead" ELSE LedgerLife(w)
  PROVE  Ledger!Die(R)
BY DEF Ledger!Die, OutcomeStays

\* Rows go with their install.
LEMMA LedgerErases ==
  ASSUME NEW R \in SUBSET Wakes, \A w \in Wakes : LifeStays(w),
         \A w \in Wakes : LedgerOutcome(w)' = IF w \in R THEN "erased" ELSE LedgerOutcome(w)
  PROVE  Ledger!Erase(R)
BY DEF Ledger!Erase, LifeStays

\* A run is settled.
LEMMA LedgerSettles ==
  ASSUME NEW w \in Wakes, NEW o, LedgerOutcome(w) = "running", LedgerLife(w) # "alive",
           LedgerOutcome(w)' = o,
         \A v \in Wakes \ {w} : OutcomeStays(v), \A v \in Wakes : LifeStays(v)
  PROVE  Ledger!Settle(w, o)
BY DEF Ledger!Settle, OutcomeStays, LifeStays

\* A run is recorded.
LEMMA LedgerRecords ==
  ASSUME NEW w \in Wakes, LedgerOutcome(w) = "none", LedgerOutcome(w)' = "running",
         \A v \in Wakes \ {w} : OutcomeStays(v), \A v \in Wakes : LifeStays(v)
  PROVE  Ledger!Record(w)
BY DEF Ledger!Record, OutcomeStays, LifeStays

\* A process starts.
LEMMA LedgerAwakens ==
  ASSUME NEW w \in Wakes, LedgerOutcome(w) \in {"running", "erased"}, LedgerLife(w) = "unborn",
         LedgerLife(w)' = "alive", \A v \in Wakes \ {w} : LifeStays(v), \A v \in Wakes : OutcomeStays(v)
  PROVE  Ledger!Awaken(w)
BY DEF Ledger!Awaken, OutcomeStays, LifeStays

\* Every step of the daemon is a step of the ledger, or none.
LEMMA LedgerStep ==
  ASSUME Patient
  PROVE  TypeOK /\ Links /\ Control /\ Order /\ Track /\ [Next]_vars => [Ledger!Next]_(Ledger!vars)
<1> SUFFICES ASSUME TypeOK, Links, Control, Order, Track, [Next]_vars PROVE [Ledger!Next]_(Ledger!vars)
  OBVIOUS
<1> USE DEF Track, Order, Links, Control, TypeOK
<1> DEFINE Goal == [Ledger!Next]_(Ledger!vars)
<1>a. UNCHANGED Ledger!vars => Goal
  OBVIOUS
<1>b. ASSUME NEW R \in SUBSET Wakes, Ledger!Die(R) \/ Ledger!Erase(R) PROVE Goal
  BY <1>b DEF Ledger!Next
<1>c. ASSUME NEW w \in Wakes, NEW x \in Outcomes, Ledger!Settle(w, x) PROVE Goal
  BY <1>c DEF Ledger!Next, Outcomes
<1>d. ASSUME NEW w \in Wakes, Ledger!Record(w) \/ Ledger!Awaken(w) PROVE Goal
  BY <1>d DEF Ledger!Next
<1> SUFFICES Goal
  OBVIOUS
<1> HIDE DEF Goal
<1>1. ASSUME UNCHANGED <<install, row, wake, proc, up>> PROVE Goal
  <2>1. \A w \in Wakes : OutcomeStays(w)
    BY <1>1, SameWake DEF OutcomeStays
  <2>2. \A w \in Wakes : LifeStays(w)
    BY <1>1, SameLife DEF LifeStays
  <2> QED
    BY <1>a, <2>1, <2>2, LedgerStutters
<1>2. ASSUME UNCHANGED <<install, row, proc, up>>,
             \A w \in Wakes : wake'[w].key = wake[w].key /\ (wake'[w].phase = "idle" <=> wake[w].phase = "idle")
      PROVE  Goal
  <2>1. \A w \in Wakes : OutcomeStays(w)
    BY <1>2, SameWake DEF OutcomeStays
  <2>2. \A w \in Wakes : LifeStays(w)
    BY <1>2, SameLife DEF LifeStays
  <2> QED
    BY <1>a, <2>1, <2>2, LedgerStutters
<1>3. ASSUME UNCHANGED <<install, row, wake, up>>, \A w \in Wakes : proc'[w].state = proc[w].state
      PROVE  Goal
  <2>1. \A w \in Wakes : OutcomeStays(w)
    BY <1>3, SameWake DEF OutcomeStays
  <2>2. \A w \in Wakes : LifeStays(w)
    BY <1>3, SameLife DEF LifeStays
  <2> QED
    BY <1>a, <2>1, <2>2, LedgerStutters
<1>4. ASSUME UNCHANGED <<install, wake, proc, up>>, \A w \in Wakes : row'[w].outcome = row[w].outcome
      PROVE  Goal
  <2>1. \A w \in Wakes : OutcomeStays(w)
    BY <1>4, SameOutcome DEF OutcomeStays, KeyOf
  <2>2. \A w \in Wakes : LifeStays(w)
    BY <1>4, SameLife DEF LifeStays
  <2> QED
    BY <1>a, <2>1, <2>2, LedgerStutters
<1>5. ASSUME UNCHANGED <<row, wake, proc, up>>, \A k \in Installs : install'[k] = "deleted" <=>
               install[k] = "deleted"
      PROVE  Goal
  <2>1. \A w \in Wakes : OutcomeStays(w)
    BY <1>5 DEF OutcomeStays, LedgerOutcome, KeyOf, Keyed
  <2>2. \A w \in Wakes : LifeStays(w)
    BY <1>5, SameLife DEF LifeStays
  <2> QED
    BY <1>a, <2>1, <2>2, LedgerStutters
\* The process of a wake exits, or those of all.
<1>6. ASSUME UNCHANGED <<install, row>>, NEW R \in SUBSET Wakes,
             \A w \in Wakes : wake'[w].key = wake[w].key /\ (wake'[w].phase = "idle" <=> wake[w].phase = "idle"),
             \A w \in Wakes : proc'[w].state = "none" <=> proc[w].state = "none",
             \A w \in R : ~ (Running(w)' /\ up'), \A w \in Wakes \ R : proc'[w] = proc[w] /\ up' = up
      PROVE  Goal
  <2>1. \A w \in Wakes : OutcomeStays(w)
    BY <1>6, SameWake DEF OutcomeStays
  <2>2. \A w \in Wakes : LedgerLife(w)' = IF w \in R /\ LedgerLife(w) = "alive" THEN "dead" ELSE LedgerLife(w)
    BY <1>6 DEF LedgerLife, Running
  <2> QED
    BY <1>b, <2>1, <2>2, LedgerDies
<1>10. CASE Vault
  <2>1. PICK k \in Installs : Vault!(k)
    BY <1>10 DEF Vault
  <2>2. CASE CreateInstall(k)
    BY <1>5, <2>2 DEF CreateInstall, DbOK
  <2>3. ASSUME NEW s \in SettableStates, UpdateInstallState(k, s) PROVE Goal
    BY <1>5, <2>3, StatesAssumption DEF UpdateInstallState, Exists, InstallStates, DbOK
  <2>4. CASE DeleteInstall(k)
    <3> DEFINE R == {w \in Wakes : wake[w].phase # "idle" /\ KeyOf(w) = k}
    <3>1. \A w \in Wakes : LifeStays(w)
      BY <2>4, SameLife DEF DeleteInstall, LifeStays
    <3>2. \A w \in Wakes : LedgerOutcome(w)' = IF w \in R THEN "erased" ELSE LedgerOutcome(w)
      <4>1. ASSUME NEW w \in R PROVE LedgerOutcome(w)' = "erased"
        BY <2>4, <4>1 DEF DeleteInstall, LedgerOutcome, NoRow, KeyOf, DbOK
      <4>2. ASSUME NEW w \in Wakes \ R PROVE LedgerOutcome(w)' = LedgerOutcome(w)
        <5>1. row'[w].outcome = row[w].outcome
          BY <2>4, <4>2 DEF DeleteInstall, NoRow, RowsKept
        <5>2. UNCHANGED wake /\ (wake[w].phase # "idle" => install'[KeyOf(w)] = install[KeyOf(w)])
          BY <2>4, <4>2 DEF DeleteInstall, DbOK
        <5> QED
          BY <5>1, <5>2 DEF LedgerOutcome, KeyOf
      <4> QED
        BY <4>1, <4>2
    <3> HIDE DEF R
    <3>3. R \in SUBSET Wakes
      BY DEF R
    <3> QED
      BY <1>b, <3>1, <3>2, <3>3, LedgerErases
  <2>5. CASE OpenStream(k)
    BY <1>1, <2>5 DEF OpenStream
  <2>6. ASSUME NEW w \in Wakes, NEW d \in Decisions, PlanLaunch(w, k, d) PROVE Goal
    <3>1. wake[w].phase = "idle" /\ row[w].outcome = "none" /\ UNCHANGED <<install, row, proc, up>>
      BY <2>6 DEF PlanLaunch, RowsKept
    <3>2. wake'[w].phase # "idle" /\ KeyOf(w)' = k /\ \A v \in Wakes \ {w} : wake'[v] = wake[v]
      BY <2>6 DEF PlanLaunch, WakeOK, KeyOf
    <3>3. \A v \in Wakes : LifeStays(v)
      BY <3>1, SameLife DEF LifeStays
    <3>4. \A v \in Wakes \ {w} : OutcomeStays(v)
      BY <3>1, <3>2, SameWake DEF OutcomeStays
    <3>5. LedgerOutcome(w) = "none" /\ LedgerOutcome(w)' = IF install[k] = "deleted" THEN "erased" ELSE "none"
      BY <3>1, <3>2 DEF LedgerOutcome
    <3>6. CASE install[k] = "deleted"
      <4>1. \A v \in Wakes : LedgerOutcome(v)' = IF v \in {w} THEN "erased" ELSE LedgerOutcome(v)
        BY <3>4, <3>5, <3>6 DEF OutcomeStays
      <4> QED
        BY <1>b, <3>3, <4>1, LedgerErases
    <3>7. CASE install[k] # "deleted"
      <4>1. \A v \in Wakes : OutcomeStays(v)
        BY <3>4, <3>5, <3>7 DEF OutcomeStays
      <4> QED
        BY <1>a, <3>3, <4>1, LedgerStutters
    <3> QED
      BY <3>6, <3>7
  <2>7. ASSUME NEW q \in Requests, DeleteLive(q, k) PROVE Goal
    <3>1. \A v \in Wakes : proc'[v].state = proc[v].state
      BY <2>7 DEF DeleteLive, Terminate, ProcOK, ProcType
    <3> QED
      BY <1>3, <2>7, <3>1 DEF DeleteLive
  <2>8. ASSUME NEW q \in Requests, DeleteMiss(q, k) PROVE Goal
    BY <1>1, <2>8 DEF DeleteMiss
  <2> QED
    BY <2>1, <2>2, <2>3, <2>4, <2>5, <2>6, <2>7, <2>8
<1>11. ASSUME NEW w \in Wakes, CheckInstall(w) \/ EmitRunStarted(w) \/ StartRaises(w) PROVE Goal
  <2>1. /\ UNCHANGED <<install, row, proc, up>>
        /\ \A v \in Wakes : wake'[v].key = wake[v].key /\ (wake'[v].phase = "idle" <=> wake[v].phase = "idle")
    <3>1. CASE CheckInstall(w)
      BY <3>1 DEF CheckInstall, WakeOK, WakeType
    <3>2. CASE EmitRunStarted(w)
      BY <3>2 DEF EmitRunStarted, WakeOK, WakeType
    <3>3. CASE StartRaises(w)
      BY <3>3 DEF StartRaises, Starting, WakeOK, WakeType
    <3> QED
      BY <1>11, <3>1, <3>2, <3>3
  <2> QED
    BY <1>2, <2>1
<1>12. ASSUME NEW w \in Wakes, InsertRow(w) PROVE Goal
  <2>1. /\ \A v \in Wakes : wake'[v].key = wake[v].key /\ (wake'[v].phase = "idle" <=> wake[v].phase = "idle")
        /\ UNCHANGED <<install, proc, up>> /\ wake[w].phase # "idle" /\ row[w].outcome = "none"
    BY <1>12 DEF InsertRow, Unwritten, WakeOK, WakeType
  <2>2. CASE ~ Exists(KeyOf(w))
    BY <1>2, <1>12, <2>1, <2>2 DEF InsertRow
  <2>3. CASE Exists(KeyOf(w))
    <3>1. \A v \in Wakes \ {w} : OutcomeStays(v)
      <4>1. \A v \in Wakes \ {w} : row'[v].outcome = row[v].outcome /\ KeyOf(v)' = KeyOf(v)
        BY <1>12, <2>1, <2>3 DEF InsertRow, DbOK, KeyOf
      <4> QED
        BY <2>1, <4>1, SameOutcome DEF OutcomeStays
    <3>2. LedgerOutcome(w) = "none"
      BY <2>1, <2>3 DEF LedgerOutcome, Exists, InstallStates
    <3>3. LedgerOutcome(w)' = "running"
      BY <1>12, <2>3 DEF InsertRow, LedgerOutcome, DbOK
    <3>4. \A v \in Wakes : LifeStays(v)
      BY <2>1, SameLife DEF LifeStays
    <3> QED
      BY <1>d, <3>1, <3>2, <3>3, <3>4, LedgerRecords
  <2> QED
    BY <2>2, <2>3
<1>13. ASSUME NEW w \in Wakes, Spawn(w) PROVE Goal
  <2>1. /\ \A v \in Wakes : wake'[v].key = wake[v].key /\ (wake'[v].phase = "idle" <=> wake[v].phase = "idle")
        /\ UNCHANGED <<install, row, up>> /\ wake[w].phase = "recorded" /\ proc[w].state = "none" /\ up
    BY <1>13 DEF Spawn, Accounted, Unborn, Unstarted, StartingUp, Starting, WakeOK, WakeType
  <2>2. \A v \in Wakes : OutcomeStays(v)
    BY <2>1, SameWake DEF OutcomeStays
  <2>3. LedgerOutcome(w) \in {"running", "erased"}
    BY <2>1 DEF LedgerOutcome, Recorded, Unsettled, Unborn, Unstarted, Over, NoHandle
  <2>4. LedgerLife(w) = "unborn" /\ LedgerLife(w)' = "alive"
    BY <1>13, <2>1 DEF Spawn, LedgerLife, Running, ProcOK, ProcType
  <2>5. \A v \in Wakes \ {w} : LifeStays(v)
    BY <1>13, <2>1, SameLife DEF Spawn, LifeStays, ProcOK
  <2> QED
    BY <1>d, <2>2, <2>3, <2>4, <2>5, LedgerAwakens
<1>14. ASSUME NEW w \in Wakes, WriteLine(w) \/ Pump(w) \/ PumpRaises(w) PROVE Goal
  <2>1. UNCHANGED <<install, row, wake, up>> /\ \A v \in Wakes : proc'[v].state = proc[v].state
    <3>1. CASE WriteLine(w)
      BY <3>1 DEF WriteLine, ProcOK, ProcType
    <3>2. CASE Pump(w)
      BY <3>2 DEF Pump, ProcOK, ProcType
    <3>3. CASE PumpRaises(w)
      BY <3>3 DEF PumpRaises, ProcOK, ProcType
    <3> QED
      BY <1>14, <3>1, <3>2, <3>3
  <2> QED
    BY <1>3, <2>1
<1>15. ASSUME NEW w \in Wakes, proc[w].state = "running", proc'[w].state \in {"zero", "nonzero"},
              \A v \in Wakes \ {w} : proc'[v] = proc[v], UNCHANGED <<install, row, wake, up>>
       PROVE  Goal
  <2>1. /\ \A v \in Wakes : proc'[v].state = "none" <=> proc[v].state = "none"
        /\ \A v \in {w} : ~ (Running(v)' /\ up')
    BY <1>15 DEF Running
  <2> QED
    BY <1>6, <1>15, <2>1
<1>16. ASSUME NEW w \in Wakes, NEW c \in {"zero", "nonzero"}, ExitProcess(w, c) PROVE Goal
  BY <1>15, <1>16 DEF ExitProcess, ProcOK, ProcType
<1>17. ASSUME NEW w \in Wakes, FinishRun(w) \/ CloseTranscript(w) \/ EmitTerminal(w) \/ SuperviseRaises(w)
                               \/ ReadStream(w) \/ DropStream(w)
       PROVE  Goal
  BY <1>1, <1>17 DEF FinishRun, CloseTranscript, EmitTerminal, SuperviseRaises, ReadStream, DropStream
<1>18. ASSUME NEW w \in Wakes, PersistCost(w) PROVE Goal
  <2>1. \A v \in Wakes : row'[v].outcome = row[v].outcome
    BY <1>18, CostKeepsOutcome DEF PersistCost
  <2> QED
    BY <1>4, <1>18, <2>1 DEF PersistCost
<1>19. ASSUME NEW w \in Wakes, PersistOutcome(w) PROVE Goal
  <2>1. /\ wake[w].phase = "launched" /\ handle[w].status \in Outcomes
        /\ \A v \in Wakes : \/ row'[v] = row[v]
                            \/ v = w /\ row[v].outcome = "running" /\ row'[v].outcome = handle[w].status
    BY <1>19, OutcomeIsOwn
  <2>2. UNCHANGED <<install, wake, proc, up>> /\ ~ (Running(w) /\ up)
    BY <1>19, <2>1 DEF PersistOutcome, Watched
  <2>3. CASE row'[w] = row[w]
    <3>1. \A v \in Wakes : row'[v].outcome = row[v].outcome
      BY <2>1, <2>3
    <3> QED
      BY <1>4, <2>2, <3>1
  <2>4. CASE row'[w] # row[w]
    <3>1. row[w].outcome = "running" /\ row'[w].outcome = handle[w].status
      BY <2>1, <2>4
    <3>2. LedgerOutcome(w) = "running" /\ LedgerOutcome(w)' = handle[w].status
      BY <2>1, <3>1 DEF LedgerOutcome, Outcomes
    <3>3. \A v \in Wakes \ {w} : OutcomeStays(v)
      BY <2>1, <2>2, SameOutcome DEF OutcomeStays, KeyOf
    <3>4. \A v \in Wakes : LifeStays(v)
      BY <2>2, SameLife DEF LifeStays
    <3>5. LedgerLife(w) # "alive"
      BY <2>2 DEF LedgerLife
    <3> QED
      BY <1>c, <2>1, <3>2, <3>3, <3>4, <3>5, LedgerSettles
  <2> QED
    BY <2>3, <2>4
<1>20. ASSUME NEW q \in Requests, NEW w \in Wakes, NEW a \in Samples, ReportCost(q, w, a) PROVE Goal
  BY <1>1, <1>20 DEF ReportCost
<1>21. ASSUME NEW q \in Requests, WriteTotals(q) \/ WriteOverrun(q) PROVE Goal
  <2>1. UNCHANGED <<install, wake, proc, up>> /\ \A v \in Wakes : row'[v].outcome = row[v].outcome
    BY <1>21, CostKeepsOutcome DEF WriteTotals, WriteOverrun
  <2> QED
    BY <1>4, <2>1
<1>22. ASSUME NEW q \in Requests, EmitCapHalt(q) PROVE Goal
  <2>1. \A v \in Wakes : proc'[v].state = proc[v].state
    BY <1>22 DEF EmitCapHalt, Terminate, ProcOK, ProcType
  <2> QED
    BY <1>3, <1>22, <2>1 DEF EmitCapHalt
<1>23. ASSUME NEW q \in Requests, GraceEnds(q) \/ ReadOrphan(q) \/ RequestRaises(q) PROVE Goal
  BY <1>1, <1>23 DEF GraceEnds, ReadOrphan, RequestRaises
<1>24. ASSUME NEW q \in Requests, GraceExpires(q) PROVE Goal
  <2> DEFINE w == req[q].wake
  <2>1. w \in Wakes
    BY <1>24 DEF GraceExpires, Owned
  <2>2. proc[w].state \in {"none", "running"}
    BY <1>24, <2>1 DEF GraceExpires, Exited, ProcOK, ProcType
  <2>3. proc[w].state # "none"
    BY <1>24 DEF GraceExpires, Born
  <2>4. /\ proc'[w].state = "nonzero" /\ \A v \in Wakes \ {w} : proc'[v] = proc[v]
        /\ UNCHANGED <<install, row, wake, up>>
    BY <1>24, <2>1 DEF GraceExpires, ProcOK, ProcType
  <2> HIDE DEF w
  <2> QED
    BY <1>15, <2>1, <2>2, <2>3, <2>4
<1>25. ASSUME NEW q \in Requests, HaltOrphan(q) PROVE Goal
  <2> DEFINE k == req[q].key
  <2>1. UNCHANGED <<install, wake, proc, up>>
    BY <1>25 DEF HaltOrphan
  <2>2. \A v \in Wakes : row'[v] = row[v] \/ (IsLatest(v, k) /\ row'[v].outcome = "halted")
    BY <1>25 DEF HaltOrphan, LatestRowGets, IsLatest, Rows, DbOK, RowType
  <2>3. CASE \A v \in Wakes : row'[v].outcome = row[v].outcome
    BY <1>4, <2>1, <2>3
  <2>4. ASSUME NEW w \in Wakes, row'[w].outcome # row[w].outcome PROVE Goal
    <3>1. IsLatest(w, k) /\ row'[w].outcome = "halted"
      BY <2>2, <2>4
    <3>2. row[w].outcome = "running"
      BY <1>25, <2>4, <3>1 DEF HaltOrphan, Halting
    <3>3. \A v \in Wakes \ {w} : row'[v] = row[v]
      <4>1. \A v \in Wakes : IsLatest(v, k) => v = w
        BY <3>1, BoundsAssumption DEF IsLatest, Rows, Wakes
      <4> QED
        BY <2>2, <4>1
    <3>4. LedgerOutcome(w) = "running" /\ LedgerOutcome(w)' = "halted"
      BY <3>1, <3>2 DEF LedgerOutcome
    <3>5. \A v \in Wakes \ {w} : OutcomeStays(v)
      BY <2>1, <3>3, SameOutcome DEF OutcomeStays, KeyOf
    <3>6. \A v \in Wakes : LifeStays(v)
      BY <2>1, SameLife DEF LifeStays
    <3>7. ~ (Running(w) /\ up)
      BY <1>25, <3>1 DEF HaltOrphan, Orphans, Led, IsLatest, Rows
    <3>8. LedgerLife(w) # "alive"
      BY <3>7 DEF LedgerLife
    <3> QED
      BY <1>c, <3>4, <3>5, <3>6, <3>8, LedgerSettles DEF Outcomes
  <2> QED
    BY <2>3, <2>4
<1>26. CASE Shutdown
  <2>1. /\ UNCHANGED <<install, row, wake, proc>> /\ up' = FALSE /\ up
    BY <1>26 DEF Shutdown
  <2>2. \A w \in Wakes : ~ (Running(w)' /\ up')
    BY <2>1
  <2> QED
    BY <1>6, <2>1, <2>2
<1>27. CASE Restart
  <2>1. /\ UNCHANGED <<install, row>>
        /\ \A w \in Wakes : wake'[w].key = wake[w].key /\ (wake'[w].phase = "idle" <=> wake[w].phase = "idle")
    BY <1>27 DEF Restart, Forgotten, WakeOK, WakeType
  <2>2. \A w \in Wakes : ~ Running(w)' /\ (proc'[w].state = "none" <=> proc[w].state = "none")
    BY <1>27 DEF Restart, Reaped, Running, ProcOK, ProcType
  <2> QED
    BY <1>6, <2>1, <2>2
<1>28. CASE UNCHANGED vars
  BY <1>1, <1>28 DEF vars
<1> HIDE DEF Track, Order, Links, Control, TypeOK
<1>29. ASSUME NEW w \in Wakes, Launch(w) \/ Agent(w) \/ Supervise(w) PROVE Goal
  BY <1>11, <1>12, <1>13, <1>14, <1>16, <1>17, <1>18, <1>19, <1>20, <1>29 DEF Launch, Agent, Supervise
<1>30. ASSUME NEW q \in Requests, Serve(q) PROVE Goal
  BY <1>21, <1>22, <1>23, <1>24, <1>25, <1>30 DEF Serve
<1>31. CASE Raises
  BY <1>11, <1>14, <1>17, <1>23, <1>31 DEF Raises
<1> QED
  BY <1>10, <1>17, <1>26, <1>27, <1>28, <1>29, <1>30, <1>31 DEF Next

\* The control plane implements the ledger for every number of wakes, stops and exceptions, as
\* long as the vault is patient (ImplementsLedger).
THEOREM RunsImplementTheLedger == Patient => (Spec => ImplementsLedger)
<1> SUFFICES ASSUME Patient PROVE Spec => ImplementsLedger
  OBVIOUS
<1> DEFINE J == TypeOK /\ Links /\ Control
           I == Order /\ Track
<1>1. Init => Ledger!Init
  <2> SUFFICES ASSUME Init PROVE Ledger!Init
    OBVIOUS
  <2>1. \A w \in Wakes : LedgerOutcome(w) = "none" /\ LedgerLife(w) = "unborn"
    <3> SUFFICES ASSUME NEW w \in Wakes PROVE LedgerOutcome(w) = "none" /\ LedgerLife(w) = "unborn"
      OBVIOUS
    <3>1. row[w].outcome = "none" /\ wake[w].phase = "idle" /\ proc[w].state = "none"
      BY DEF Init, NoRow
    <3>2. LedgerOutcome(w) = "none"
      BY <3>1 DEF LedgerOutcome
    <3>3. LedgerLife(w) = "unborn"
      BY <3>1 DEF LedgerLife, Running
    <3> QED
      BY <3>2, <3>3
  <2> QED
    BY <2>1 DEF Ledger!Init
<1>2. J /\ I /\ [Next]_vars => I'
  BY OrderStep, TrackStep
<1>3. J /\ I /\ [Next]_vars => [Ledger!Next]_(Ledger!vars)
  BY LedgerStep
<1>4. Spec => []J
  BY Invariant, PTL
<1>5. Init => I
  BY OrderInitially, TrackInitially
<1> QED
  BY <1>1, <1>2, <1>3, <1>4, <1>5, PTL DEF Spec, ImplementsLedger, Ledger!Spec

Verdicts == {"completed", "halted", "errored"}

SettledIsOver == \A w \in Wakes : LedgerOutcome(w) \in Verdicts => LedgerLife(w) # "alive"
VerdictsStay  == \A w \in Wakes : LedgerOutcome(w) \in Verdicts =>
                   LedgerOutcome(w)' \in {LedgerOutcome(w), "erased"}

\* What the ledger promises of a step: no process starts under a settled row, no row is
\* settled twice.
LEMMA VerdictStep ==
  ASSUME SettledIsOver, [Ledger!Next]_(Ledger!vars)
  PROVE  SettledIsOver' /\ VerdictsStay
<1> DEFINE outcome == [w \in Wakes |-> LedgerOutcome(w)]
           life    == [w \in Wakes |-> LedgerLife(w)]
           Good(r) == /\ outcome'[r] \in Verdicts => life'[r] # "alive"
                      /\ outcome[r] \in Verdicts => outcome'[r] \in {outcome[r], "erased"}
<1> SUFFICES ASSUME NEW r \in Wakes PROVE Good(r)
  BY DEF SettledIsOver, VerdictsStay
<1>0. outcome[r] \in Verdicts => life[r] # "alive"
  BY DEF SettledIsOver
<1> HIDE DEF SettledIsOver
<1>1. CASE UNCHANGED Ledger!vars
  BY <1>0, <1>1 DEF Ledger!vars
<1>2. ASSUME NEW w \in Wakes, Ledger!Record(w) PROVE Good(r)
  BY <1>0, <1>2 DEF Ledger!Record, Verdicts
<1>3. ASSUME NEW w \in Wakes, Ledger!Awaken(w) PROVE Good(r)
  BY <1>0, <1>3 DEF Ledger!Awaken, Verdicts
<1>4. ASSUME NEW w \in Wakes, NEW o \in Verdicts, Ledger!Settle(w, o) PROVE Good(r)
  BY <1>0, <1>4 DEF Ledger!Settle, Verdicts
<1>5. ASSUME NEW R \in SUBSET Wakes, Ledger!Die(R) PROVE Good(r)
  BY <1>0, <1>5 DEF Ledger!Die, Verdicts
<1>6. ASSUME NEW R \in SUBSET Wakes, Ledger!Erase(R) PROVE Good(r)
  BY <1>0, <1>6 DEF Ledger!Erase, Verdicts
<1> QED BY <1>1, <1>2, <1>3, <1>4, <1>5, <1>6 DEF Ledger!Next, Verdicts

\* With a patient vault the row of a run says completed, halted or errored only once its
\* process is gone, and no process starts under it later; and that is what the row says
\* until its install is deleted (supervise, start_run, DELETE's orphans), whatever raises,
\* stops or restarts.
THEOREM SettledRunsAreOver ==
  Patient => (Spec => []SettledIsOver /\ [][VerdictsStay]_vars)
<1> SUFFICES ASSUME Patient PROVE Spec => []SettledIsOver /\ [][VerdictsStay]_vars
  OBVIOUS
<1> DEFINE J == TypeOK /\ Links /\ Control
           I == Order /\ Track
<1>1. Init => SettledIsOver
  <2> SUFFICES ASSUME Init, NEW w \in Wakes PROVE LedgerOutcome(w) = "none"
    BY DEF SettledIsOver, Verdicts
  <2> QED
    BY DEF Init, NoRow, LedgerOutcome
<1>2. J /\ I /\ [Next]_vars => I'
  BY OrderStep, TrackStep
<1>3. J /\ I /\ [Next]_vars => [Ledger!Next]_(Ledger!vars)
  BY LedgerStep
<1>4. J /\ I /\ SettledIsOver /\ [Next]_vars => SettledIsOver' /\ [VerdictsStay]_vars
  BY <1>3, VerdictStep
<1>5. Spec => []J
  BY Invariant, PTL
<1>6. Init => I
  BY OrderInitially, TrackInitially
<1> QED
  BY <1>1, <1>2, <1>4, <1>5, <1>6, PTL DEF Spec
=============================================================================
