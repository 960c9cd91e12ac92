--------------------------- MODULE AgentRunsProofs ---------------------------
(***************************************************************************)
(* Safety of the run control plane for every number of installs, wakes,    *)
(* requests, readers, stops and exceptions.                                *)
(*                                                                         *)
(* TypeOK and Links are inductive together: Links says which wakes the     *)
(* registry and the requests may point at, and that a wake without a       *)
(* handle has neither a process nor a supervisor.  On top of them stands   *)
(* Control, whose parts carry each property through the steps at which it  *)
(* is still only being prepared.                                           *)
(*                                                                         *)
(* The second part is about what the readers of a run and of its row are   *)
(* told: a transcript that ended was complete, and where an install is     *)
(* woken once, its row says of the run what was so.                        *)
(***************************************************************************)
EXTENDS AgentRuns, FiniteSetTheorems, TLAPS

Unstarted == {"idle", "planned", "checked", "recorded", "refused", "rejected"}
HasHandle == {"spawned", "launched", "failed"}

Keyed == \A w \in Wakes : wake[w].phase # "idle" => KeyOf(w) \in Installs

Unborn == \A w \in Wakes : wake[w].phase \in Unstarted =>
            proc[w].state = "none" /\ handle[w] = NoHandle

Owned == \A q \in Requests : req[q].at \in {"writing", "overrun", "auditing", "grace"} =>
           req[q].wake \in Wakes /\ wake[req[q].wake].phase \in HasHandle

Registered == \A k \in Installs : registry[k] # NoWake => wake[registry[k]].phase \in HasHandle

Unwatched == \A w \in Wakes : wake[w].phase = "spawned" => handle[w].supervisor = "none"

Links == Keyed /\ Unborn /\ Unwatched /\ Owned /\ Registered

\* What prepares each property: a wake that may still get a process has its
\* row and its session, and an ended run knows how it ended.
Recorded == \A w \in Wakes : wake[w].phase \in {"recorded", "spawned", "launched"} \/ Running(w) =>
              row[w].outcome # "none" \/ install[KeyOf(w)] = "deleted"

Admitted == \A w \in Wakes : Starting(w) => w \in session

Concluded == \A w \in Wakes :
  handle[w].supervisor \in {"costing", "settling"} => handle[w].status \in Outcomes

Control == Recorded /\ Admitted /\ Concluded /\ SessionScope /\ OverrunIsHalting /\ NoRunUnsupervised

-----------------------------------------------------------------------------
(* What the operators shared by several actions do to the types.           *)

\* The empty register points at no wake.
LEMMA NoWakeIsNoWake == NoWake \notin Wakes
BY DEF NoWake, Wakes

\* Writing a cost or an outcome to the latest row of a key leaves rows.
LEMMA CostRowType ==
  ASSUME DbOK, NEW k, NEW c \in Nat, LatestRowGets(k, "cost", c)
  PROVE  row' \in [Wakes -> RowType]
BY DEF DbOK, RowType, LatestRowGets

\* The same of an outcome.
LEMMA OutcomeRowType ==
  ASSUME DbOK, NEW k, NEW o \in {"none", "running"} \cup Outcomes, LatestRowGets(k, "outcome", o)
  PROVE  row' \in [Wakes -> RowType]
BY DEF DbOK, RowType, LatestRowGets

\* A cost written leaves every outcome.
LEMMA CostKeepsOutcome ==
  ASSUME DbOK, NEW k, NEW c, LatestRowGets(k, "cost", c), NEW v \in Wakes
  PROVE  row'[v].outcome = row[v].outcome
<1>1. row[v] \in RowType
  BY DEF DbOK
<1>2. row'[v] = row[v] \/ row'[v] = [row[v] EXCEPT !.cost = c]
  BY DEF LatestRowGets
<1> QED
  BY <1>1, <1>2 DEF RowType

\* An outcome written leaves every cost.
LEMMA OutcomeKeepsCost ==
  ASSUME DbOK, NEW k, NEW o, LatestRowGets(k, "outcome", o), NEW v \in Wakes
  PROVE  row'[v].cost = row[v].cost
<1>1. row[v] \in RowType
  BY DEF DbOK
<1>2. row'[v] = row[v] \/ row'[v] = [row[v] EXCEPT !.outcome = o]
  BY DEF LatestRowGets
<1> QED
  BY <1>1, <1>2 DEF RowType

\* terminate() leaves processes and requests.
LEMMA TerminateType ==
  ASSUME ProcOK, RequestOK, WakeOK, NEW q \in Requests, NEW w \in Wakes, Terminate(q, w)
  PROVE  ProcOK' /\ RequestOK'
<1>1. CASE Exited(w)
  BY <1>1 DEF Terminate, ProcOK, RequestOK, RequestType, NoRequest
<1>2. CASE ~Exited(w)
  <2>1. KeyOf(w) \in Installs \cup {"none"}
    BY DEF KeyOf, WakeOK, WakeType
  <2>2. ProcOK'
    BY ZenonT(30), <1>2 DEF Terminate, ProcOK, ProcType
  <2>3. RequestOK'
    BY <1>2, <2>1 DEF Terminate, RequestOK, RequestType
  <2> QED
    BY <2>2, <2>3
<1> QED
  BY <1>1, <1>2

\* A registered key leads to a wake.
LEMMA LiveWake ==
  ASSUME DaemonOK, NEW k \in Installs, Live(k)
  PROVE  registry[k] \in Wakes
BY DEF DaemonOK, Live

\* A wake with a supervisor is past the phases that have no handle.
LEMMA SupervisedIsBorn ==
  ASSUME Links, NEW w \in Wakes, handle[w].supervisor # "none"
  PROVE  wake[w].phase \notin Unstarted
BY DEF Links, Unborn, NoHandle

\* A wake with a process has the key of an install.
LEMMA ProcessKeyed ==
  ASSUME Links, WakeOK, NEW o \in Wakes, proc[o].state # "none"
  PROVE  KeyOf(o) \in Installs
BY DEF Links, Keyed, Unborn, Unstarted, WakeOK, WakeType

-----------------------------------------------------------------------------
\* Every step keeps the types.
LEMMA TypeStep == TypeOK /\ Links /\ [Next]_vars => TypeOK'
<1> SUFFICES ASSUME TypeOK, Links, [Next]_vars PROVE TypeOK'
  OBVIOUS
<1> USE BoundsAssumption, MoneyAssumption, StatesAssumption DEF TypeOK
<1>1. ASSUME NEW k \in Installs, CreateInstall(k) PROVE TypeOK'
  <2>1. DbOK'
    BY <1>1 DEF CreateInstall, Exists, DbOK, RowType, InstallStates, Outcomes
  <2> QED
    BY <1>1, <2>1 DEF CreateInstall, WakeOK, HandleOK, StreamOK, ProcOK,
       RequestOK, SeenOK, DaemonOK
<1>2. ASSUME NEW k \in Installs, NEW s \in SettableStates, UpdateInstallState(k, s) PROVE TypeOK'
  <2>1. DbOK'
    BY <1>2 DEF UpdateInstallState, Exists, DbOK, RowType, InstallStates,
       Outcomes
  <2> QED
    BY <1>2, <2>1 DEF UpdateInstallState, WakeOK, HandleOK, StreamOK, ProcOK,
       RequestOK, SeenOK, DaemonOK
<1>3. ASSUME NEW k \in Installs, DeleteInstall(k) PROVE TypeOK'
  <2>1. DbOK'
    BY <1>3 DEF DeleteInstall, Exists, KeyOf, NoRow, DbOK, RowType,
       InstallStates, Outcomes
  <2> QED
    BY <1>3, <2>1 DEF DeleteInstall, WakeOK, HandleOK, StreamOK, ProcOK,
       RequestOK, SeenOK, DaemonOK
<1>4. ASSUME NEW w \in Wakes, NEW k \in Installs, NEW d \in Decisions, PlanLaunch(w, k, d) PROVE TypeOK'
  <2>1. WakeOK'
    BY <1>4 DEF PlanLaunch, WakeOK, WakeType
  <2>2. DaemonOK'
    BY <1>4 DEF PlanLaunch, DaemonOK
  <2> QED
    BY <1>4, <2>1, <2>2 DEF PlanLaunch, DbOK, HandleOK, StreamOK, ProcOK,
       RequestOK, SeenOK
<1>5. ASSUME NEW w \in Wakes, CheckInstall(w) PROVE TypeOK'
  <2>1. WakeOK'
    BY <1>5 DEF CheckInstall, WakeOK, WakeType
  <2>2. DaemonOK'
    BY <1>5 DEF CheckInstall, DaemonOK
  <2> QED
    BY <1>5, <2>1, <2>2 DEF CheckInstall, DbOK, HandleOK, StreamOK, ProcOK,
       RequestOK, SeenOK
<1>6. ASSUME NEW w \in Wakes, InsertRow(w) PROVE TypeOK'
  <2>1. DbOK'
    BY <1>6 DEF InsertRow, Exists, KeyOf, DbOK, RowType, InstallStates, Outcomes
  <2>2. WakeOK'
    BY <1>6 DEF InsertRow, Exists, KeyOf, WakeOK, WakeType
  <2> QED
    BY <1>6, <2>1, <2>2 DEF InsertRow, HandleOK, StreamOK, ProcOK, RequestOK,
       SeenOK, DaemonOK
<1>7. ASSUME NEW w \in Wakes, Spawn(w) PROVE TypeOK'
  <2>1. ProcOK'
    BY <1>7 DEF Spawn, Accounted, KeyOf, ProcOK, ProcType
  <2>2. HandleOK'
    BY <1>7 DEF Spawn, Accounted, KeyOf, HandleOK, HandleType, Outcomes
  <2>3. DaemonOK'
    BY <1>7 DEF Spawn, Accounted, KeyOf, DaemonOK
  <2>4. WakeOK'
    BY <1>7 DEF Spawn, Accounted, KeyOf, WakeOK, WakeType
  <2> QED
    BY <1>7, <2>1, <2>2, <2>3, <2>4 DEF Spawn, DbOK, StreamOK, RequestOK, SeenOK
<1>8. ASSUME NEW w \in Wakes, EmitRunStarted(w) PROVE TypeOK'
  <2>1. HandleOK'
    BY <1>8 DEF EmitRunStarted, HandleOK, HandleType, Outcomes
  <2>2. WakeOK'
    BY <1>8 DEF EmitRunStarted, WakeOK, WakeType
  <2> QED
    BY <1>8, <2>1, <2>2 DEF EmitRunStarted, DbOK, StreamOK, ProcOK, RequestOK,
       SeenOK, DaemonOK
<1>9. ASSUME NEW w \in Wakes, StartRaises(w) PROVE TypeOK'
  <2>1. WakeOK'
    BY <1>9 DEF StartRaises, Starting, Raise, WakeOK, WakeType
  <2>2. DaemonOK'
    BY <1>9 DEF StartRaises, Starting, Raise, DaemonOK
  <2> QED
    BY <1>9, <2>1, <2>2 DEF StartRaises, DbOK, HandleOK, StreamOK, ProcOK,
       RequestOK, SeenOK
<1>10. ASSUME NEW w \in Wakes, WriteLine(w) PROVE TypeOK'
  <2>1. ProcOK'
    BY <1>10 DEF WriteLine, ProcOK, ProcType
  <2> QED
    BY <1>10, <2>1 DEF WriteLine, DbOK, WakeOK, HandleOK, StreamOK, RequestOK,
       SeenOK, DaemonOK
<1>11. ASSUME NEW w \in Wakes, NEW c \in {"zero", "nonzero"}, ExitProcess(w, c) PROVE TypeOK'
  <2>1. ProcOK'
    BY <1>11 DEF ExitProcess, ProcOK, ProcType
  <2> QED
    BY <1>11, <2>1 DEF ExitProcess, DbOK, WakeOK, HandleOK, StreamOK, RequestOK,
       SeenOK, DaemonOK
<1>12. ASSUME NEW w \in Wakes, Pump(w) PROVE TypeOK'
  <2>1. ProcOK'
    <3>1. proc[w] \in ProcType /\ proc[w].pipe - 1 \in Nat
      BY <1>12 DEF Pump, ProcOK, ProcType
    <3> QED
      BY <1>12, <3>1 DEF Pump, ProcOK, ProcType
  <2>2. StreamOK'
    BY <1>12 DEF Pump, Pumping, QueueFull, StreamOK
  <2> QED
    BY <1>12, <2>1, <2>2 DEF Pump, DbOK, WakeOK, HandleOK, RequestOK, SeenOK,
       DaemonOK
<1>13. ASSUME NEW w \in Wakes, PumpRaises(w) PROVE TypeOK'
  <2>1. ProcOK'
    BY <1>13 DEF PumpRaises, Raise, ProcOK, ProcType
  <2>2. HandleOK'
    BY ZenonT(30), <1>13 DEF PumpRaises, Raise, HandleOK, HandleType, Outcomes
  <2>3. DaemonOK'
    BY <1>13 DEF PumpRaises, Raise, DaemonOK
  <2> QED
    BY <1>13, <2>1, <2>2, <2>3 DEF PumpRaises, DbOK, WakeOK, StreamOK,
       RequestOK, SeenOK
<1>14. ASSUME NEW w \in Wakes, FinishRun(w) PROVE TypeOK'
  <2>1. HandleOK'
    BY <1>14 DEF FinishRun, RunEnded, ExitStatus, Exited, HandleOK, HandleType,
       Outcomes
  <2>2. DaemonOK'
    BY <1>14 DEF FinishRun, RunEnded, ExitStatus, Exited, DaemonOK
  <2> QED
    BY <1>14, <2>1, <2>2 DEF FinishRun, DbOK, WakeOK, StreamOK, ProcOK,
       RequestOK, SeenOK
<1>15. ASSUME NEW w \in Wakes, CloseTranscript(w) PROVE TypeOK'
  <2>1. StreamOK'
    BY <1>15 DEF CloseTranscript, StreamOK
  <2>2. HandleOK'
    BY ZenonT(30), <1>15 DEF CloseTranscript, HandleOK, HandleType, Outcomes
  <2> QED
    BY <1>15, <2>1, <2>2 DEF CloseTranscript, DbOK, WakeOK, ProcOK, RequestOK,
       SeenOK, DaemonOK
<1>16. ASSUME NEW w \in Wakes, EmitTerminal(w) PROVE TypeOK'
  <2>1. HandleOK'
    <3> DEFINE next == IF handle[w].status \in Outcomes THEN "costing" ELSE "done"
    <3>1. handle[w] \in HandleType /\ next \in {"costing", "done"}
      BY DEF HandleOK
    <3> HIDE DEF next
    <3>2. [handle[w] EXCEPT !.supervisor = next, !.snap = handle[w].cost] \in HandleType
      BY <3>1 DEF HandleType
    <3>3. handle' = [handle EXCEPT
                       ![w] = [handle[w] EXCEPT !.supervisor = next, !.snap = handle[w].cost]]
      BY <1>16 DEF EmitTerminal, HandleOK, next
    <3> QED
      BY <3>2, <3>3 DEF HandleOK
  <2> QED
    BY <1>16, <2>1 DEF EmitTerminal, DbOK, WakeOK, StreamOK, ProcOK, RequestOK,
       SeenOK, DaemonOK
<1>17. ASSUME NEW w \in Wakes, PersistCost(w) PROVE TypeOK'
  <2>1. DbOK'
    BY <1>17, CostRowType DEF PersistCost, DbOK, HandleOK, HandleType
  <2>2. HandleOK'
    BY <1>17 DEF PersistCost, LatestRowGets, HandleOK, HandleType, Outcomes
  <2> QED
    BY <1>17, <2>1, <2>2 DEF PersistCost, WakeOK, StreamOK, ProcOK, RequestOK,
       SeenOK, DaemonOK
<1>18. ASSUME NEW w \in Wakes, PersistOutcome(w) PROVE TypeOK'
  <2>1. DbOK'
    BY <1>18, OutcomeRowType DEF PersistOutcome, DbOK, HandleOK, HandleType
  <2>2. HandleOK'
    BY <1>18 DEF PersistOutcome, LatestRowGets, HandleOK, HandleType, Outcomes
  <2> QED
    BY <1>18, <2>1, <2>2 DEF PersistOutcome, WakeOK, StreamOK, ProcOK,
       RequestOK, SeenOK, DaemonOK
<1>19. ASSUME NEW w \in Wakes, SuperviseRaises(w) PROVE TypeOK'
  <2>1. HandleOK'
    BY <1>19 DEF SuperviseRaises, Raise, HandleOK, HandleType, Outcomes
  <2>2. DaemonOK'
    BY <1>19 DEF SuperviseRaises, Raise, DaemonOK
  <2> QED
    BY <1>19, <2>1, <2>2 DEF SuperviseRaises, DbOK, WakeOK, StreamOK, ProcOK,
       RequestOK, SeenOK
<1>20. ASSUME NEW q \in Requests, NEW o \in Wakes, NEW a \in Samples, ReportCost(q, o, a) PROVE TypeOK'
  <2>1. HandleOK'
    <3>1. KeyOf(o) \in Installs /\ Live(KeyOf(o)) /\ registry[KeyOf(o)] \in Wakes
      BY <1>20, ProcessKeyed, LiveWake DEF ReportCost
    <3>2. handle[registry[KeyOf(o)]].cost + a \in Nat
      BY <3>1 DEF HandleOK, HandleType
    <3> QED
      BY <1>20, <3>1, <3>2 DEF ReportCost, HandleOK, HandleType
  <2>2. RequestOK'
    <3>1. KeyOf(o) \in Installs /\ Live(KeyOf(o)) /\ registry[KeyOf(o)] \in Wakes
      BY <1>20, ProcessKeyed, LiveWake DEF ReportCost
    <3>2. handle[registry[KeyOf(o)]].cost + a \in Nat
      BY <3>1 DEF HandleOK, HandleType
    <3> QED
      BY <1>20, <3>1, <3>2 DEF ReportCost, RequestOK, RequestType
  <2>3. SeenOK'
    BY <1>20 DEF ReportCost, Idle, Live, KeyOf, Overrun, SeenOK, SeenType
  <2> QED
    BY <1>20, <2>1, <2>2, <2>3 DEF ReportCost, DbOK, WakeOK, StreamOK, ProcOK,
       DaemonOK
<1>21. ASSUME NEW q \in Requests, WriteTotals(q) PROVE TypeOK'
  <2>1. DbOK'
    BY <1>21, CostRowType DEF WriteTotals, DbOK, RequestOK, RequestType
  <2>2. SeenOK'
    BY <1>21 DEF WriteTotals, RequestOK, RequestType, SeenOK, SeenType
  <2>3. RequestOK'
    BY <1>21 DEF WriteTotals, LatestRowGets, NoRequest, RequestOK, RequestType
  <2> QED
    BY <1>21, <2>1, <2>2, <2>3 DEF WriteTotals, WakeOK, HandleOK, StreamOK,
       ProcOK, DaemonOK
<1>22. ASSUME NEW q \in Requests, WriteOverrun(q) PROVE TypeOK'
  <2>1. DbOK'
    BY <1>22, CostRowType DEF WriteOverrun, DbOK, RequestOK, RequestType
  <2>2. RequestOK'
    BY <1>22 DEF WriteOverrun, LatestRowGets, RequestOK, RequestType
  <2> QED
    BY <1>22, <2>1, <2>2 DEF WriteOverrun, WakeOK, HandleOK, StreamOK, ProcOK,
       SeenOK, DaemonOK
<1>23. ASSUME NEW q \in Requests, EmitCapHalt(q) PROVE TypeOK'
  <2>1. ProcOK'
    <3>1. req[q].wake \in Wakes
      BY <1>23 DEF EmitCapHalt, Links, Owned
    <3> QED
      BY <1>23, <3>1, TerminateType DEF EmitCapHalt
  <2>2. RequestOK'
    <3>1. req[q].wake \in Wakes
      BY <1>23 DEF EmitCapHalt, Links, Owned
    <3> QED
      BY <1>23, <3>1, TerminateType DEF EmitCapHalt
  <2> QED
    BY <1>23, <2>1, <2>2 DEF EmitCapHalt, DbOK, WakeOK, HandleOK, StreamOK,
       SeenOK, DaemonOK
<1>24. ASSUME NEW q \in Requests, GraceEnds(q) PROVE TypeOK'
  <2>1. RequestOK'
    BY <1>24 DEF GraceEnds, Exited, NoRequest, RequestOK, RequestType
  <2> QED
    BY <1>24, <2>1 DEF GraceEnds, DbOK, WakeOK, HandleOK, StreamOK, ProcOK,
       SeenOK, DaemonOK
<1>25. ASSUME NEW q \in Requests, GraceExpires(q) PROVE TypeOK'
  <2>1. ProcOK'
    BY ZenonT(30), <1>25 DEF GraceExpires, Exited, NoRequest, ProcOK, ProcType
  <2>2. RequestOK'
    BY <1>25 DEF GraceExpires, Exited, NoRequest, RequestOK, RequestType
  <2> QED
    BY <1>25, <2>1, <2>2 DEF GraceExpires, DbOK, WakeOK, HandleOK, StreamOK,
       SeenOK, DaemonOK
<1>26. ASSUME NEW q \in Requests, NEW k \in Installs, DeleteLive(q, k) PROVE TypeOK'
  <2>1. ProcOK'
    BY <1>26, LiveWake, TerminateType DEF DeleteLive
  <2>2. RequestOK'
    BY <1>26, LiveWake, TerminateType DEF DeleteLive
  <2> QED
    BY <1>26, <2>1, <2>2 DEF DeleteLive, DbOK, WakeOK, HandleOK, StreamOK, SeenOK,
       DaemonOK
<1>27. ASSUME NEW q \in Requests, NEW k \in Installs, DeleteMiss(q, k) PROVE TypeOK'
  <2>1. RequestOK'
    BY <1>27 DEF DeleteMiss, Idle, Live, RequestOK, RequestType
  <2> QED
    BY <1>27, <2>1 DEF DeleteMiss, DbOK, WakeOK, HandleOK, StreamOK, ProcOK,
       SeenOK, DaemonOK
<1>28. ASSUME NEW q \in Requests, ReadOrphan(q) PROVE TypeOK'
  <2>1. RequestOK'
    BY <1>28 DEF ReadOrphan, NoRequest, RequestOK, RequestType
  <2> QED
    BY <1>28, <2>1 DEF ReadOrphan, DbOK, WakeOK, HandleOK, StreamOK, ProcOK,
       SeenOK, DaemonOK
<1>29. ASSUME NEW q \in Requests, HaltOrphan(q) PROVE TypeOK'
  <2>1. DbOK'
    BY <1>29, OutcomeRowType DEF HaltOrphan, DbOK, Outcomes
  <2>2. RequestOK'
    BY <1>29 DEF HaltOrphan, LatestRowGets, NoRequest, RequestOK, RequestType
  <2> QED
    BY <1>29, <2>1, <2>2 DEF HaltOrphan, WakeOK, HandleOK, StreamOK, ProcOK,
       SeenOK, DaemonOK
<1>30. ASSUME NEW q \in Requests, RequestRaises(q) PROVE TypeOK'
  <2>1. RequestOK'
    BY <1>30 DEF RequestRaises, Raise, NoRequest, RequestOK, RequestType
  <2>2. DaemonOK'
    BY <1>30 DEF RequestRaises, Raise, NoRequest, DaemonOK
  <2> QED
    BY <1>30, <2>1, <2>2 DEF RequestRaises, DbOK, WakeOK, HandleOK, StreamOK,
       ProcOK, SeenOK
<1>31. ASSUME NEW k \in Installs, OpenStream(k) PROVE TypeOK'
  <2>1. StreamOK'
    <3>1. registry[k] \in Wakes /\ readers[registry[k]] + 1 \in Nat
      BY <1>31, LiveWake DEF OpenStream, StreamOK
    <3> QED
      BY <1>31, <3>1 DEF OpenStream, StreamOK
  <2> QED
    BY <1>31, <2>1 DEF OpenStream, DbOK, WakeOK, HandleOK, ProcOK, RequestOK,
       SeenOK, DaemonOK
<1>32. ASSUME NEW w \in Wakes, ReadStream(w) PROVE TypeOK'
  <2>1. StreamOK'
    <3>1. queue' \in [Wakes -> Seq({"chunk", "end"})]
      BY <1>32 DEF ReadStream, StreamOK
    <3>2. readers' \in [Wakes -> Nat]
      <4>1. readers[w] - 1 \in Nat
        BY <1>32 DEF ReadStream, StreamOK
      <4> QED
        BY <1>32, <4>1 DEF ReadStream, StreamOK
    <3> QED
      BY <3>1, <3>2 DEF StreamOK
  <2>2. SeenOK'
    <3>1. CASE seen' = [seen EXCEPT ![w].ended = TRUE]
      BY <3>1 DEF SeenOK, SeenType
    <3>2. CASE seen' = [seen EXCEPT ![w].chunks = @ + 1]
      BY <3>2 DEF SeenOK, SeenType
    <3> QED
      BY <1>32, <3>1, <3>2 DEF ReadStream
  <2> QED
    BY <1>32, <2>1, <2>2 DEF ReadStream, DbOK, WakeOK, HandleOK, ProcOK,
       RequestOK, DaemonOK
<1>33. ASSUME NEW w \in Wakes, DropStream(w) PROVE TypeOK'
  <2>1. StreamOK'
    BY <1>33 DEF DropStream, StreamOK
  <2> QED
    BY <1>33, <2>1 DEF DropStream, DbOK, WakeOK, HandleOK, ProcOK, RequestOK,
       SeenOK, DaemonOK
<1>34. ASSUME Shutdown PROVE TypeOK'
  <2>1. DaemonOK'
    <3>1. session' \subseteq Wakes
      BY <1>34 DEF Shutdown, DaemonOK
    <3>2. up' \in BOOLEAN
      BY <1>34 DEF Shutdown
    <3>3. stops' \in Nat
      <4>1. stops \in Nat /\ stops' = stops + 1
        BY <1>34 DEF Shutdown, DaemonOK
      <4> QED
        BY <4>1
    <3>4. registry' = registry /\ faults' = faults
      BY <1>34 DEF Shutdown
    <3> QED
      BY <3>1, <3>2, <3>3, <3>4 DEF DaemonOK
  <2>2. HandleOK'
    <3>1. \A w \in Wakes : Cancelled(w) \in HandleType
      <4> SUFFICES ASSUME NEW w \in Wakes PROVE Cancelled(w) \in HandleType
        OBVIOUS
      <4>1. handle[w] \in HandleType
        BY DEF HandleOK
      <4>2. CASE handle[w].supervisor = "waiting"
        BY <4>1, <4>2 DEF Cancelled, HandleType, Outcomes
      <4>3. CASE handle[w].supervisor \in {"closing", "emitting", "costing", "settling"}
        BY <4>1, <4>3 DEF Cancelled, HandleType, Outcomes
      <4>4. CASE handle[w].supervisor \notin {"waiting", "closing", "emitting", "costing", "settling"}
        BY <4>1, <4>4 DEF Cancelled
      <4> QED
        BY <4>2, <4>3, <4>4
    <3> QED
      BY <1>34, <3>1 DEF Shutdown, HandleOK
  <2> QED
    BY <1>34, <2>1, <2>2 DEF Shutdown, DbOK, WakeOK, StreamOK, ProcOK,
       RequestOK, SeenOK
<1>35. ASSUME Restart PROVE TypeOK'
  <2>1. DaemonOK'
    BY <1>35 DEF Restart, NoHandle, NoRequest, DaemonOK
  <2>2. WakeOK'
    <3>1. \A w \in Wakes : Forgotten(w) \in WakeType
      BY DEF Forgotten, WakeOK, WakeType
    <3> QED
      BY <1>35, <3>1 DEF Restart, WakeOK
  <2>3. HandleOK'
    BY <1>35 DEF Restart, NoHandle, NoRequest, HandleOK, HandleType, Outcomes
  <2>4. StreamOK'
    BY <1>35 DEF Restart, NoHandle, NoRequest, StreamOK
  <2>5. ProcOK'
    <3>1. \A w \in Wakes : Reaped(w) \in ProcType
      BY DEF Reaped, ProcOK, ProcType
    <3> QED
      BY <1>35, <3>1 DEF Restart, ProcOK
  <2>6. RequestOK'
    BY <1>35 DEF Restart, NoHandle, NoRequest, RequestOK, RequestType
  <2> QED
    BY <1>35, <2>1, <2>2, <2>3, <2>4, <2>5, <2>6 DEF Restart, DbOK, SeenOK
<1>36. ASSUME UNCHANGED vars PROVE TypeOK'
  BY <1>36 DEF vars, DbOK, WakeOK, HandleOK, StreamOK, ProcOK, RequestOK,
     SeenOK, DaemonOK
<1> QED
  BY <1>1, <1>2, <1>3, <1>4, <1>5, <1>6, <1>7, <1>8, <1>9, <1>10, <1>11, <1>12,
     <1>13, <1>14, <1>15, <1>16, <1>17, <1>18, <1>19, <1>20, <1>21, <1>22,
     <1>23, <1>24, <1>25, <1>26, <1>27, <1>28, <1>29, <1>30, <1>31, <1>32,
     <1>33, <1>34, <1>35, <1>36 DEF Next, Vault, Launch, Agent, Supervise,
     Serve, Raises

\* Every step keeps what the registry and the requests point at.
LEMMA LinksStep == TypeOK /\ Links /\ [Next]_vars => Links'
<1> SUFFICES ASSUME TypeOK, Links, [Next]_vars PROVE Links'
  OBVIOUS
<1> USE DEF Links, TypeOK
<1> USE NoWakeIsNoWake
<1>1. ASSUME NEW k \in Installs, CreateInstall(k) PROVE Links'
  BY <1>1 DEF CreateInstall, Keyed, KeyOf, Unborn, Unstarted, Unwatched, Owned,
     HasHandle, Registered
<1>2. ASSUME NEW k \in Installs, NEW s \in SettableStates, UpdateInstallState(k, s) PROVE Links'
  BY <1>2 DEF UpdateInstallState, Keyed, KeyOf, Unborn, Unstarted, Unwatched,
     Owned, HasHandle, Registered
<1>3. ASSUME NEW k \in Installs, DeleteInstall(k) PROVE Links'
  BY <1>3 DEF DeleteInstall, Keyed, KeyOf, Unborn, Unstarted, Unwatched, Owned,
     HasHandle, Registered
<1>4. ASSUME NEW w \in Wakes, NEW k \in Installs, NEW d \in Decisions, PlanLaunch(w, k, d) PROVE Links'
  <2>1. Keyed'
    BY <1>4 DEF PlanLaunch, Keyed, KeyOf, WakeOK, WakeType
  <2>2. Unborn'
    BY <1>4 DEF PlanLaunch, Unborn, Unstarted, WakeOK, WakeType
  <2>3. Unwatched'
    BY <1>4 DEF PlanLaunch, Unwatched, WakeOK, WakeType
  <2>4. Owned'
    BY <1>4 DEF PlanLaunch, Owned, HasHandle, WakeOK, WakeType
  <2>5. Registered'
    <3>1. \A k1 \in Installs : registry[k1] # w
      BY <1>4 DEF PlanLaunch, Registered, HasHandle
    <3> QED
      BY <1>4, <3>1 DEF PlanLaunch, Registered, WakeOK, DaemonOK
  <2> QED
    BY <1>4, <2>1, <2>2, <2>3, <2>4, <2>5
<1>5. ASSUME NEW w \in Wakes, CheckInstall(w) PROVE Links'
  <2>1. Keyed'
    BY <1>5 DEF CheckInstall, Keyed, KeyOf, WakeOK, WakeType
  <2>2. Unborn'
    BY <1>5 DEF CheckInstall, Unborn, Unstarted, WakeOK, WakeType
  <2>3. Unwatched'
    BY <1>5 DEF CheckInstall, Unwatched, WakeOK, WakeType
  <2>4. Owned'
    BY <1>5 DEF CheckInstall, Owned, HasHandle, WakeOK, WakeType
  <2>5. Registered'
    <3>1. \A k1 \in Installs : registry[k1] # w
      BY <1>5 DEF CheckInstall, Registered, HasHandle
    <3> QED
      BY <1>5, <3>1 DEF CheckInstall, Registered, WakeOK, DaemonOK
  <2> QED
    BY <1>5, <2>1, <2>2, <2>3, <2>4, <2>5
<1>6. ASSUME NEW w \in Wakes, InsertRow(w) PROVE Links'
  <2>1. Keyed'
    BY <1>6 DEF InsertRow, Exists, KeyOf, Keyed, WakeOK, WakeType
  <2>2. Unborn'
    BY <1>6 DEF InsertRow, Exists, KeyOf, Unborn, Unstarted, WakeOK, WakeType
  <2>3. Unwatched'
    BY <1>6 DEF InsertRow, Exists, KeyOf, Unwatched, WakeOK, WakeType
  <2>4. Owned'
    BY <1>6 DEF InsertRow, Exists, KeyOf, Owned, HasHandle, WakeOK, WakeType
  <2>5. Registered'
    <3>1. \A k1 \in Installs : registry[k1] # w
      BY <1>6 DEF InsertRow, Registered, HasHandle
    <3> QED
      BY <1>6, <3>1 DEF InsertRow, Registered, WakeOK, DaemonOK
  <2> QED
    BY <1>6, <2>1, <2>2, <2>3, <2>4, <2>5
<1>7. ASSUME NEW w \in Wakes, Spawn(w) PROVE Links'
  <2>1. Keyed'
    BY <1>7 DEF Spawn, Accounted, KeyOf, Keyed, WakeOK, WakeType
  <2>2. Unborn'
    BY <1>7 DEF Spawn, Accounted, KeyOf, Unborn, Unstarted, HandleOK,
       HandleType, ProcOK, ProcType, WakeOK, WakeType
  <2>3. Unwatched'
    <3>1. handle[w].supervisor = "none"
      BY <1>7 DEF Spawn, Accounted, Unborn, Unstarted, NoHandle
    <3> QED
      BY <1>7, <3>1 DEF Spawn, Unwatched, HandleOK, HandleType, WakeOK, WakeType
  <2>4. Owned'
    BY <1>7 DEF Spawn, Accounted, KeyOf, Owned, HasHandle, WakeOK, WakeType
  <2>5. Registered'
    BY <1>7 DEF Spawn, Accounted, KeyOf, Registered, HasHandle, DaemonOK,
       WakeOK, WakeType
  <2> QED
    BY <1>7, <2>1, <2>2, <2>3, <2>4, <2>5
<1>8. ASSUME NEW w \in Wakes, EmitRunStarted(w) PROVE Links'
  <2>1. Keyed'
    BY <1>8 DEF EmitRunStarted, Keyed, KeyOf, WakeOK, WakeType
  <2>2. Unborn'
    BY <1>8 DEF EmitRunStarted, Unborn, Unstarted, HandleOK, HandleType, WakeOK,
       WakeType
  <2>3. Unwatched'
    BY <1>8 DEF EmitRunStarted, Unwatched, HandleOK, HandleType, WakeOK,
       WakeType
  <2>4. Owned'
    BY <1>8 DEF EmitRunStarted, Owned, HasHandle, WakeOK, WakeType
  <2>5. Registered'
    BY <1>8 DEF EmitRunStarted, Registered, HasHandle, WakeOK, WakeType
  <2> QED
    BY <1>8, <2>1, <2>2, <2>3, <2>4, <2>5
<1>9. ASSUME NEW w \in Wakes, StartRaises(w) PROVE Links'
  <2>1. Keyed'
    BY <1>9 DEF StartRaises, Starting, Raise, Keyed, KeyOf, WakeOK, WakeType
  <2>2. Unborn'
    BY <1>9 DEF StartRaises, Starting, Raise, Unborn, Unstarted, WakeOK,
       WakeType
  <2>3. Unwatched'
    BY <1>9 DEF StartRaises, Starting, Raise, Unwatched, WakeOK, WakeType
  <2>4. Owned'
    BY <1>9 DEF StartRaises, Starting, Raise, Owned, HasHandle, WakeOK, WakeType
  <2>5. Registered'
    BY <1>9 DEF StartRaises, Starting, Raise, Registered, HasHandle, WakeOK,
       WakeType
  <2> QED
    BY <1>9, <2>1, <2>2, <2>3, <2>4, <2>5
<1>10. ASSUME NEW w \in Wakes, WriteLine(w) PROVE Links'
  <2>1. Unborn'
    BY <1>10 DEF WriteLine, Unborn, Unstarted, ProcOK, ProcType
  <2> QED
    BY <1>10, <2>1 DEF WriteLine, Keyed, KeyOf, Unwatched, Owned, HasHandle,
       Registered
<1>11. ASSUME NEW w \in Wakes, NEW c \in {"zero", "nonzero"}, ExitProcess(w, c) PROVE Links'
  <2>1. Unborn'
    BY <1>11 DEF ExitProcess, Unborn, Unstarted, ProcOK, ProcType
  <2> QED
    BY <1>11, <2>1 DEF ExitProcess, Keyed, KeyOf, Unwatched, Owned, HasHandle,
       Registered
<1>12. ASSUME NEW w \in Wakes, Pump(w) PROVE Links'
  <2>1. Unborn'
    BY <1>12 DEF Pump, Pumping, QueueFull, Unborn, Unstarted, ProcOK, ProcType
  <2> QED
    BY <1>12, <2>1 DEF Pump, Keyed, KeyOf, Unwatched, Owned, HasHandle,
       Registered
<1>13. ASSUME NEW w \in Wakes, PumpRaises(w) PROVE Links'
  <2>1. Unborn'
    BY <1>13, SupervisedIsBorn DEF PumpRaises, Unborn, HandleOK, ProcOK
  <2>2. Unwatched'
    BY <1>13 DEF PumpRaises, Raise, Unwatched, HandleOK, HandleType
  <2> QED
    BY <1>13, <2>1, <2>2 DEF PumpRaises, Keyed, KeyOf, Owned, HasHandle,
       Registered
<1>14. ASSUME NEW w \in Wakes, FinishRun(w) PROVE Links'
  <2>1. Unborn'
    BY <1>14 DEF FinishRun, RunEnded, ExitStatus, Exited, Unborn, Unstarted,
       HandleOK, HandleType
  <2>2. Unwatched'
    BY <1>14 DEF FinishRun, RunEnded, ExitStatus, Exited, Unwatched, HandleOK,
       HandleType
  <2> QED
    BY <1>14, <2>1, <2>2 DEF FinishRun, Keyed, KeyOf, Owned, HasHandle,
       Registered
<1>15. ASSUME NEW w \in Wakes, CloseTranscript(w) PROVE Links'
  <2>1. Unborn'
    BY <1>15, SupervisedIsBorn DEF CloseTranscript, Unborn, HandleOK
  <2>2. Unwatched'
    BY <1>15 DEF CloseTranscript, Unwatched, HandleOK, HandleType
  <2> QED
    BY <1>15, <2>1, <2>2 DEF CloseTranscript, Keyed, KeyOf, Owned, HasHandle,
       Registered
<1>16. ASSUME NEW w \in Wakes, EmitTerminal(w) PROVE Links'
  <2>1. Unborn'
    BY <1>16, SupervisedIsBorn DEF EmitTerminal, Unborn, HandleOK
  <2>2. Unwatched'
    BY <1>16 DEF EmitTerminal, Unwatched, HandleOK, HandleType
  <2> QED
    BY <1>16, <2>1, <2>2 DEF EmitTerminal, Keyed, KeyOf, Owned, HasHandle,
       Registered
<1>17. ASSUME NEW w \in Wakes, PersistCost(w) PROVE Links'
  <2>1. Unborn'
    BY <1>17, SupervisedIsBorn DEF PersistCost, Unborn, HandleOK
  <2>2. Unwatched'
    BY <1>17 DEF PersistCost, LatestRowGets, Unwatched, HandleOK, HandleType
  <2> QED
    BY <1>17, <2>1, <2>2 DEF PersistCost, Keyed, KeyOf, Owned, HasHandle,
       Registered
<1>18. ASSUME NEW w \in Wakes, PersistOutcome(w) PROVE Links'
  <2>1. Unborn'
    BY <1>18, SupervisedIsBorn DEF PersistOutcome, Unborn, HandleOK
  <2>2. Unwatched'
    BY <1>18 DEF PersistOutcome, LatestRowGets, Unwatched, HandleOK, HandleType
  <2> QED
    BY <1>18, <2>1, <2>2 DEF PersistOutcome, Keyed, KeyOf, Owned, HasHandle,
       Registered
<1>19. ASSUME NEW w \in Wakes, SuperviseRaises(w) PROVE Links'
  <2>1. Unborn'
    BY <1>19, SupervisedIsBorn DEF SuperviseRaises, Unborn, HandleOK
  <2>2. Unwatched'
    BY <1>19 DEF SuperviseRaises, Raise, Unwatched, HandleOK, HandleType
  <2> QED
    BY <1>19, <2>1, <2>2 DEF SuperviseRaises, Keyed, KeyOf, Owned, HasHandle,
       Registered
<1>20. ASSUME NEW q \in Requests, NEW o \in Wakes, NEW a \in Samples, ReportCost(q, o, a) PROVE Links'
  <2>1. Unborn'
    <3>1. KeyOf(o) \in Installs /\ Live(KeyOf(o)) /\ registry[KeyOf(o)] \in Wakes
      BY <1>20, ProcessKeyed, LiveWake DEF ReportCost
    <3>2. wake[registry[KeyOf(o)]].phase \in HasHandle
      BY <3>1 DEF Registered, Live
    <3> QED
      BY <1>20, <3>1, <3>2 DEF ReportCost, Unborn, HasHandle, Unstarted,
         HandleOK
  <2>2. Unwatched'
    BY <1>20 DEF ReportCost, Idle, Live, KeyOf, Overrun, Unwatched, HandleOK,
       HandleType
  <2>3. Owned'
    <3>1. KeyOf(o) \in Installs /\ Live(KeyOf(o)) /\ registry[KeyOf(o)] \in Wakes
      BY <1>20, ProcessKeyed, LiveWake DEF ReportCost
    <3>2. wake[registry[KeyOf(o)]].phase \in HasHandle
      BY <3>1 DEF Registered, Live
    <3> QED
      BY <1>20, <3>1, <3>2 DEF ReportCost, Owned, RequestOK
  <2> QED
    BY <1>20, <2>1, <2>2, <2>3 DEF ReportCost, Keyed, KeyOf, Registered,
       HasHandle
<1>21. ASSUME NEW q \in Requests, WriteTotals(q) PROVE Links'
  <2>1. Owned'
    BY <1>21 DEF WriteTotals, LatestRowGets, NoRequest, Owned, HasHandle,
       RequestOK, RequestType
  <2> QED
    BY <1>21, <2>1 DEF WriteTotals, Keyed, KeyOf, Unborn, Unstarted, Unwatched,
       Registered, HasHandle
<1>22. ASSUME NEW q \in Requests, WriteOverrun(q) PROVE Links'
  <2>1. Owned'
    BY <1>22 DEF WriteOverrun, LatestRowGets, Owned, HasHandle, RequestOK,
       RequestType
  <2> QED
    BY <1>22, <2>1 DEF WriteOverrun, Keyed, KeyOf, Unborn, Unstarted, Unwatched,
       Registered, HasHandle
<1>23. ASSUME NEW q \in Requests, EmitCapHalt(q) PROVE Links'
  <2>1. Unborn'
    BY <1>23 DEF EmitCapHalt, Terminate, Exited, KeyOf, NoRequest, Unborn,
       Unstarted, ProcOK, ProcType
  <2>2. Owned'
    BY <1>23 DEF EmitCapHalt, Terminate, Exited, KeyOf, NoRequest, Owned,
       HasHandle, RequestOK, RequestType
  <2> QED
    BY <1>23, <2>1, <2>2 DEF EmitCapHalt, Keyed, KeyOf, Unwatched, Registered,
       HasHandle
<1>24. ASSUME NEW q \in Requests, GraceEnds(q) PROVE Links'
  <2>1. Owned'
    BY <1>24 DEF GraceEnds, Exited, NoRequest, Owned, HasHandle, RequestOK,
       RequestType
  <2> QED
    BY <1>24, <2>1 DEF GraceEnds, Keyed, KeyOf, Unborn, Unstarted, Unwatched,
       Registered, HasHandle
<1>25. ASSUME NEW q \in Requests, GraceExpires(q) PROVE Links'
  <2>1. Unborn'
    <3>1. wake[req[q].wake].phase \notin Unstarted
      BY <1>25 DEF GraceExpires, Owned, HasHandle, Unstarted
    <3> QED
      BY <1>25, <3>1 DEF GraceExpires, Unborn, ProcOK
  <2>2. Owned'
    BY <1>25 DEF GraceExpires, Exited, NoRequest, Owned, HasHandle, RequestOK,
       RequestType
  <2> QED
    BY <1>25, <2>1, <2>2 DEF GraceExpires, Keyed, KeyOf, Unwatched, Registered,
       HasHandle
<1>26. ASSUME NEW q \in Requests, NEW k \in Installs, DeleteLive(q, k) PROVE Links'
  <2>1. Unborn'
    BY <1>26 DEF DeleteLive, Idle, Live, Terminate, Exited, KeyOf, NoRequest,
       Unborn, Unstarted, ProcOK, ProcType
  <2>2. Owned'
    <3>1. registry[k] \in Wakes /\ wake[registry[k]].phase \in HasHandle
      BY <1>26, LiveWake DEF DeleteLive, Registered, Live
    <3> QED
      BY <1>26, <3>1 DEF DeleteLive, Terminate, NoRequest, Owned, RequestOK
  <2> QED
    BY <1>26, <2>1, <2>2 DEF DeleteLive, Keyed, KeyOf, Unwatched, Registered,
       HasHandle
<1>27. ASSUME NEW q \in Requests, NEW k \in Installs, DeleteMiss(q, k) PROVE Links'
  <2>1. Owned'
    BY <1>27 DEF DeleteMiss, Idle, Live, Owned, HasHandle, RequestOK,
       RequestType
  <2> QED
    BY <1>27, <2>1 DEF DeleteMiss, Keyed, KeyOf, Unborn, Unstarted, Unwatched,
       Registered, HasHandle
<1>28. ASSUME NEW q \in Requests, ReadOrphan(q) PROVE Links'
  <2>1. Owned'
    BY <1>28 DEF ReadOrphan, NoRequest, Owned, HasHandle, RequestOK, RequestType
  <2> QED
    BY <1>28, <2>1 DEF ReadOrphan, Keyed, KeyOf, Unborn, Unstarted, Unwatched,
       Registered, HasHandle
<1>29. ASSUME NEW q \in Requests, HaltOrphan(q) PROVE Links'
  <2>1. Owned'
    BY <1>29 DEF HaltOrphan, LatestRowGets, NoRequest, Owned, HasHandle,
       RequestOK, RequestType
  <2> QED
    BY <1>29, <2>1 DEF HaltOrphan, Keyed, KeyOf, Unborn, Unstarted, Unwatched,
       Registered, HasHandle
<1>30. ASSUME NEW q \in Requests, RequestRaises(q) PROVE Links'
  <2>1. Owned'
    BY <1>30 DEF RequestRaises, Raise, NoRequest, Owned, HasHandle, RequestOK,
       RequestType
  <2> QED
    BY <1>30, <2>1 DEF RequestRaises, Keyed, KeyOf, Unborn, Unstarted,
       Unwatched, Registered, HasHandle
<1>31. ASSUME NEW k \in Installs, OpenStream(k) PROVE Links'
  BY <1>31 DEF OpenStream, Keyed, KeyOf, Unborn, Unstarted, Unwatched, Owned,
     HasHandle, Registered
<1>32. ASSUME NEW w \in Wakes, ReadStream(w) PROVE Links'
  BY <1>32 DEF ReadStream, Keyed, KeyOf, Unborn, Unstarted, Unwatched, Owned,
     HasHandle, Registered
<1>33. ASSUME NEW w \in Wakes, DropStream(w) PROVE Links'
  BY <1>33 DEF DropStream, Keyed, KeyOf, Unborn, Unstarted, Unwatched, Owned,
     HasHandle, Registered
<1>34. ASSUME Shutdown PROVE Links'
  <2>1. Unborn'
    <3>1. \A w \in Wakes : handle[w] = NoHandle => Cancelled(w) = NoHandle
      BY DEF Cancelled, NoHandle
    <3> QED
      BY <1>34, <3>1 DEF Shutdown, Unborn
  <2>2. Unwatched'
    BY <1>34 DEF Shutdown, Cancelled, Idle, Starting, Unwatched, HandleOK,
       HandleType
  <2> QED
    BY <1>34, <2>1, <2>2 DEF Shutdown, Keyed, KeyOf, Owned, HasHandle,
       Registered
<1>35. ASSUME Restart PROVE Links'
  <2>1. Keyed'
    BY <1>35 DEF Restart, Forgotten, Keyed, KeyOf, WakeOK, WakeType
  <2>2. Unborn'
    <3>1. \A w \in Wakes : Forgotten(w).phase \in Unstarted => wake[w].phase \in Unstarted
      BY DEF Forgotten, Unstarted, WakeOK, WakeType
    <3>2. \A w \in Wakes : proc[w].state = "none" => Reaped(w).state = "none"
      BY DEF Reaped, ProcOK, ProcType
    <3> QED
      BY <1>35, <3>1, <3>2 DEF Restart, Unborn
  <2>3. Unwatched'
    BY <1>35 DEF Restart, NoHandle, NoRequest, Unwatched, HandleOK, HandleType,
       WakeOK, WakeType
  <2>4. Owned'
    BY <1>35 DEF Restart, NoHandle, NoRequest, Owned, HasHandle, RequestOK,
       RequestType, WakeOK, WakeType
  <2>5. Registered'
    BY <1>35 DEF Restart, NoHandle, NoRequest, Registered, HasHandle, DaemonOK,
       WakeOK, WakeType
  <2> QED
    BY <1>35, <2>1, <2>2, <2>3, <2>4, <2>5
<1>36. ASSUME UNCHANGED vars PROVE Links'
  BY <1>36 DEF vars, Keyed, KeyOf, Unborn, Unstarted, Unwatched, Owned,
     HasHandle, Registered
<1> QED
  BY <1>1, <1>2, <1>3, <1>4, <1>5, <1>6, <1>7, <1>8, <1>9, <1>10, <1>11, <1>12,
     <1>13, <1>14, <1>15, <1>16, <1>17, <1>18, <1>19, <1>20, <1>21, <1>22,
     <1>23, <1>24, <1>25, <1>26, <1>27, <1>28, <1>29, <1>30, <1>31, <1>32,
     <1>33, <1>34, <1>35, <1>36 DEF Next, Vault, Launch, Agent, Supervise,
     Serve, Raises

\* Every step keeps the safety properties, with what prepares them.
LEMMA ControlStep == TypeOK /\ Links /\ Control /\ [Next]_vars => Control'
<1> SUFFICES ASSUME TypeOK, Links, Control, [Next]_vars PROVE Control'
  OBVIOUS
<1> USE DEF Control, Links, TypeOK
<1> USE NoWakeIsNoWake
<1>1. ASSUME NEW k \in Installs, CreateInstall(k) PROVE Control'
  <2>1. Recorded'
    BY <1>1 DEF CreateInstall, Exists, Recorded, Running, KeyOf, DbOK
  <2> QED
    BY <1>1, <2>1 DEF CreateInstall, Admitted, Starting, Concluded,
       SessionScope, Running, OverrunIsHalting, NoRunUnsupervised
<1>2. ASSUME NEW k \in Installs, NEW s \in SettableStates, UpdateInstallState(k, s) PROVE Control'
  <2>1. Recorded'
    BY <1>2 DEF UpdateInstallState, Exists, InstallStates, Recorded, Running,
       KeyOf, DbOK
  <2> QED
    BY <1>2, <2>1 DEF UpdateInstallState, Admitted, Starting, Concluded,
       SessionScope, Running, OverrunIsHalting, NoRunUnsupervised
<1>3. ASSUME NEW k \in Installs, DeleteInstall(k) PROVE Control'
  <2>1. Recorded'
    BY <1>3 DEF DeleteInstall, Exists, KeyOf, NoRow, Recorded, Running, DbOK,
       RowType
  <2> QED
    BY <1>3, <2>1 DEF DeleteInstall, Admitted, Starting, Concluded,
       SessionScope, Running, OverrunIsHalting, NoRunUnsupervised
<1>4. ASSUME NEW w \in Wakes, NEW k \in Installs, NEW d \in Decisions, PlanLaunch(w, k, d) PROVE Control'
  <2>1. Recorded'
    <3>1. ~Running(w) /\ handle[w] = NoHandle
      BY <1>4 DEF PlanLaunch, Accounted, Unborn, Unstarted, Running
    <3> QED
      BY <1>4, <3>1 DEF PlanLaunch, Recorded, Running, KeyOf, WakeOK
  <2>2. Admitted'
    BY <1>4 DEF PlanLaunch, Admitted, Starting, DaemonOK, WakeOK, WakeType
  <2>3. SessionScope'
    <3>1. ~Running(w) /\ handle[w] = NoHandle
      BY <1>4 DEF PlanLaunch, Accounted, Unborn, Unstarted, Running
    <3> QED
      BY <1>4, <3>1 DEF PlanLaunch, SessionScope, Running, NoHandle, Outcomes,
         WakeOK
  <2>4. OverrunIsHalting'
    <3>1. ~Running(w) /\ handle[w] = NoHandle
      BY <1>4 DEF PlanLaunch, Accounted, Unborn, Unstarted, Running
    <3> QED
      BY <1>4, <3>1 DEF PlanLaunch, OverrunIsHalting, Running, WakeOK
  <2>5. NoRunUnsupervised'
    BY <1>4 DEF PlanLaunch, NoRunUnsupervised, Running, WakeOK, WakeType
  <2> QED
    BY <1>4, <2>1, <2>2, <2>3, <2>4, <2>5 DEF PlanLaunch, Concluded
<1>5. ASSUME NEW w \in Wakes, CheckInstall(w) PROVE Control'
  <2>1. Recorded'
    BY <1>5 DEF CheckInstall, Recorded, Running, KeyOf, WakeOK, WakeType
  <2>2. Admitted'
    BY <1>5 DEF CheckInstall, Admitted, Starting, DaemonOK, WakeOK, WakeType
  <2>3. SessionScope'
    <3>1. ~Running(w) /\ handle[w] = NoHandle
      BY <1>5 DEF CheckInstall, Accounted, Unborn, Unstarted, Running
    <3> QED
      BY <1>5, <3>1 DEF CheckInstall, SessionScope, Running, WakeOK, WakeType
  <2>4. OverrunIsHalting'
    BY <1>5 DEF CheckInstall, OverrunIsHalting, Running, WakeOK, WakeType
  <2>5. NoRunUnsupervised'
    BY <1>5 DEF CheckInstall, NoRunUnsupervised, Running, WakeOK, WakeType
  <2> QED
    BY <1>5, <2>1, <2>2, <2>3, <2>4, <2>5 DEF CheckInstall, Concluded
<1>6. ASSUME NEW w \in Wakes, InsertRow(w) PROVE Control'
  <2>1. Recorded'
    BY SMTT(20), <1>6 DEF InsertRow, Exists, KeyOf, Recorded, Running, DbOK, RowType,
       WakeOK, WakeType
  <2>2. Admitted'
    BY <1>6 DEF InsertRow, Exists, KeyOf, Admitted, Starting, WakeOK, WakeType
  <2>3. SessionScope'
    BY <1>6 DEF InsertRow, Exists, KeyOf, SessionScope, Running, WakeOK,
       WakeType
  <2>4. OverrunIsHalting'
    BY <1>6 DEF InsertRow, Exists, KeyOf, OverrunIsHalting, Running, WakeOK,
       WakeType
  <2>5. NoRunUnsupervised'
    BY <1>6 DEF InsertRow, Exists, KeyOf, NoRunUnsupervised, Running, WakeOK,
       WakeType
  <2> QED
    BY <1>6, <2>1, <2>2, <2>3, <2>4, <2>5 DEF InsertRow, Concluded
<1>7. ASSUME NEW w \in Wakes, Spawn(w) PROVE Control'
  <2>1. Recorded'
    BY <1>7 DEF Spawn, Accounted, KeyOf, Recorded, Running, ProcOK, ProcType,
       WakeOK, WakeType
  <2>2. Admitted'
    BY <1>7 DEF Spawn, Accounted, KeyOf, Admitted, Starting, WakeOK, WakeType
  <2>3. Concluded'
    <3>1. ~Running(w) /\ handle[w] = NoHandle
      BY <1>7 DEF Spawn, Accounted, Unborn, Unstarted, Running
    <3> QED
      BY <1>7, <3>1 DEF Spawn, Concluded, NoHandle, HandleOK
  <2>4. SessionScope'
    <3>1. w \in session /\ handle[w] = NoHandle
      BY <1>7 DEF Spawn, Accounted, Unborn, Unstarted, Admitted, Starting
    <3> QED
      BY <1>7, <3>1 DEF Spawn, Accounted, SessionScope, Running, NoHandle,
         Outcomes, HandleOK, ProcOK, WakeOK, WakeType
  <2>5. OverrunIsHalting'
    <3>1. handle[w].cost <= wake[w].reserved
      <4>1. handle[w].cost = 0
        BY <1>7 DEF Spawn, Accounted, Unborn, Unstarted, NoHandle
      <4> QED
        BY <4>1 DEF WakeOK, WakeType
    <3> QED
      BY <1>7, <3>1 DEF Spawn, OverrunIsHalting, Running, HandleOK, HandleType,
         ProcOK, ProcType, WakeOK, WakeType
  <2>6. NoRunUnsupervised'
    BY <1>7 DEF Spawn, Accounted, KeyOf, NoRunUnsupervised, Running, HandleOK,
       HandleType, ProcOK, ProcType, WakeOK, WakeType
  <2> QED
    BY <1>7, <2>1, <2>2, <2>3, <2>4, <2>5, <2>6
<1>8. ASSUME NEW w \in Wakes, EmitRunStarted(w) PROVE Control'
  <2>1. Recorded'
    BY <1>8 DEF EmitRunStarted, Recorded, Running, KeyOf, WakeOK, WakeType
  <2>2. Admitted'
    BY <1>8 DEF EmitRunStarted, Admitted, Starting, WakeOK, WakeType
  <2>3. Concluded'
    BY <1>8 DEF EmitRunStarted, Concluded, HandleOK, HandleType
  <2>4. SessionScope'
    BY <1>8 DEF EmitRunStarted, SessionScope, Running, HandleOK, HandleType,
       WakeOK, WakeType
  <2>5. OverrunIsHalting'
    BY <1>8 DEF EmitRunStarted, OverrunIsHalting, Running, HandleOK, HandleType,
       WakeOK, WakeType
  <2>6. NoRunUnsupervised'
    BY <1>8 DEF EmitRunStarted, NoRunUnsupervised, Running, HandleOK,
       HandleType, WakeOK, WakeType
  <2> QED
    BY <1>8, <2>1, <2>2, <2>3, <2>4, <2>5, <2>6
<1>9. ASSUME NEW w \in Wakes, StartRaises(w) PROVE Control'
  <2>1. Recorded'
    BY <1>9 DEF StartRaises, Starting, Raise, Recorded, Running, KeyOf, WakeOK,
       WakeType
  <2>2. Admitted'
    BY <1>9 DEF StartRaises, Starting, Raise, Admitted, WakeOK, WakeType
  <2>3. SessionScope'
    BY <1>9 DEF StartRaises, Starting, Raise, SessionScope, Running, WakeOK,
       WakeType
  <2>4. OverrunIsHalting'
    BY <1>9 DEF StartRaises, Starting, Raise, OverrunIsHalting, Running,
       DaemonOK, WakeOK, WakeType
  <2>5. NoRunUnsupervised'
    BY <1>9 DEF StartRaises, Starting, Raise, NoRunUnsupervised, Running,
       DaemonOK, WakeOK, WakeType
  <2> QED
    BY <1>9, <2>1, <2>2, <2>3, <2>4, <2>5 DEF StartRaises, Concluded
<1>10. ASSUME NEW w \in Wakes, WriteLine(w) PROVE Control'
  <2>1. Recorded'
    BY <1>10 DEF WriteLine, Recorded, Running, KeyOf, ProcOK, ProcType
  <2>2. SessionScope'
    BY <1>10 DEF WriteLine, SessionScope, Running, ProcOK, ProcType
  <2>3. OverrunIsHalting'
    BY <1>10 DEF WriteLine, OverrunIsHalting, Running, ProcOK, ProcType
  <2>4. NoRunUnsupervised'
    BY <1>10 DEF WriteLine, NoRunUnsupervised, Running, ProcOK, ProcType
  <2> QED
    BY <1>10, <2>1, <2>2, <2>3, <2>4 DEF WriteLine, Admitted, Starting,
       Concluded
<1>11. ASSUME NEW w \in Wakes, NEW c \in {"zero", "nonzero"}, ExitProcess(w, c) PROVE Control'
  <2>1. Recorded'
    BY <1>11 DEF ExitProcess, Recorded, Running, KeyOf, ProcOK, ProcType
  <2>2. SessionScope'
    BY <1>11 DEF ExitProcess, SessionScope, Running, ProcOK, ProcType
  <2>3. OverrunIsHalting'
    BY <1>11 DEF ExitProcess, OverrunIsHalting, Running, ProcOK, ProcType
  <2>4. NoRunUnsupervised'
    BY <1>11 DEF ExitProcess, NoRunUnsupervised, Running, ProcOK, ProcType
  <2> QED
    BY <1>11, <2>1, <2>2, <2>3, <2>4 DEF ExitProcess, Admitted, Starting,
       Concluded
<1>12. ASSUME NEW w \in Wakes, Pump(w) PROVE Control'
  <2>1. Recorded'
    BY <1>12 DEF Pump, Pumping, QueueFull, Recorded, Running, KeyOf, ProcOK,
       ProcType
  <2>2. SessionScope'
    BY <1>12 DEF Pump, Pumping, QueueFull, SessionScope, Running, ProcOK,
       ProcType
  <2>3. OverrunIsHalting'
    BY SMTT(20), <1>12 DEF Pump, Pumping, QueueFull, OverrunIsHalting, Running, ProcOK,
       ProcType
  <2>4. NoRunUnsupervised'
    BY <1>12 DEF Pump, Pumping, QueueFull, NoRunUnsupervised, Running, ProcOK,
       ProcType
  <2> QED
    BY <1>12, <2>1, <2>2, <2>3, <2>4 DEF Pump, Admitted, Starting, Concluded
<1>13. ASSUME NEW w \in Wakes, PumpRaises(w) PROVE Control'
  <2>1. Recorded'
    BY <1>13 DEF PumpRaises, Raise, Recorded, Running, KeyOf, ProcOK, ProcType
  <2>2. Concluded'
    BY <1>13 DEF PumpRaises, Raise, Concluded, HandleOK, HandleType
  <2>3. SessionScope'
    BY <1>13 DEF PumpRaises, Raise, SessionScope, Running, HandleOK, HandleType,
       ProcOK, ProcType
  <2>4. OverrunIsHalting'
    BY <1>13 DEF PumpRaises, Raise, OverrunIsHalting, Running, DaemonOK,
       HandleOK, HandleType, ProcOK, ProcType
  <2>5. NoRunUnsupervised'
    BY <1>13 DEF PumpRaises, Raise, NoRunUnsupervised, Running, DaemonOK,
       HandleOK, HandleType, ProcOK, ProcType
  <2> QED
    BY <1>13, <2>1, <2>2, <2>3, <2>4, <2>5 DEF PumpRaises, Admitted, Starting
<1>14. ASSUME NEW w \in Wakes, FinishRun(w) PROVE Control'
  <2>1. Admitted'
    <3>1. ~Starting(w)
      BY <1>14, SupervisedIsBorn DEF FinishRun, Unwatched, Unstarted, Starting
    <3> QED
      BY <1>14, <3>1 DEF FinishRun, Admitted, Starting
  <2>2. Concluded'
    BY <1>14 DEF FinishRun, RunEnded, ExitStatus, Exited, Concluded, HandleOK,
       HandleType
  <2>3. SessionScope'
    BY <1>14 DEF FinishRun, RunEnded, ExitStatus, Exited, SessionScope, Running,
       HandleOK, HandleType, DaemonOK
  <2>4. OverrunIsHalting'
    BY <1>14 DEF FinishRun, RunEnded, ExitStatus, Exited, OverrunIsHalting,
       Running, HandleOK, HandleType
  <2>5. NoRunUnsupervised'
    BY <1>14 DEF FinishRun, RunEnded, ExitStatus, Exited, NoRunUnsupervised,
       Running, HandleOK, HandleType
  <2> QED
    BY <1>14, <2>1, <2>2, <2>3, <2>4, <2>5 DEF FinishRun, Recorded, Running,
       KeyOf
<1>15. ASSUME NEW w \in Wakes, CloseTranscript(w) PROVE Control'
  <2>1. Concluded'
    BY <1>15 DEF CloseTranscript, Concluded, HandleOK, HandleType
  <2>2. SessionScope'
    BY <1>15 DEF CloseTranscript, SessionScope, Running, HandleOK, HandleType
  <2>3. OverrunIsHalting'
    BY <1>15 DEF CloseTranscript, OverrunIsHalting, Running, HandleOK,
       HandleType
  <2>4. NoRunUnsupervised'
    BY <1>15 DEF CloseTranscript, NoRunUnsupervised, Running, HandleOK,
       HandleType
  <2> QED
    BY <1>15, <2>1, <2>2, <2>3, <2>4 DEF CloseTranscript, Recorded, Running,
       KeyOf, Admitted, Starting
<1>16. ASSUME NEW w \in Wakes, EmitTerminal(w) PROVE Control'
  <2>1. Concluded'
    BY <1>16 DEF EmitTerminal, Concluded, HandleOK, HandleType
  <2>2. SessionScope'
    BY <1>16 DEF EmitTerminal, SessionScope, Running, HandleOK, HandleType
  <2>3. OverrunIsHalting'
    BY <1>16 DEF EmitTerminal, OverrunIsHalting, Running, HandleOK, HandleType
  <2>4. NoRunUnsupervised'
    BY <1>16 DEF EmitTerminal, NoRunUnsupervised, Running, HandleOK, HandleType
  <2> QED
    BY <1>16, <2>1, <2>2, <2>3, <2>4 DEF EmitTerminal, Recorded, Running, KeyOf,
       Admitted, Starting
<1>17. ASSUME NEW w \in Wakes, PersistCost(w) PROVE Control'
  <2>1. Recorded'
    BY <1>17 DEF PersistCost, LatestRowGets, Recorded, Running, KeyOf, DbOK,
       RowType
  <2>2. Concluded'
    BY <1>17 DEF PersistCost, LatestRowGets, Concluded, HandleOK, HandleType
  <2>3. SessionScope'
    BY <1>17 DEF PersistCost, LatestRowGets, SessionScope, Running, HandleOK,
       HandleType
  <2>4. OverrunIsHalting'
    BY <1>17 DEF PersistCost, LatestRowGets, OverrunIsHalting, Running,
       HandleOK, HandleType
  <2>5. NoRunUnsupervised'
    BY <1>17 DEF PersistCost, LatestRowGets, NoRunUnsupervised, Running,
       HandleOK, HandleType
  <2> QED
    BY <1>17, <2>1, <2>2, <2>3, <2>4, <2>5 DEF PersistCost, Admitted, Starting
<1>18. ASSUME NEW w \in Wakes, PersistOutcome(w) PROVE Control'
  <2>1. Recorded'
    <3>1. handle[w].status # "none"
      BY <1>18 DEF PersistOutcome, Concluded, Outcomes
    <3>2. \A v \in Wakes : row[v].outcome # "none" => row'[v].outcome # "none"
      BY <1>18, <3>1 DEF PersistOutcome, LatestRowGets, DbOK, RowType
    <3> QED
      BY <1>18, <3>2 DEF PersistOutcome, Recorded, Running, KeyOf
  <2>2. Concluded'
    BY <1>18 DEF PersistOutcome, LatestRowGets, Concluded, HandleOK, HandleType
  <2>3. SessionScope'
    BY <1>18 DEF PersistOutcome, LatestRowGets, SessionScope, Running, HandleOK,
       HandleType
  <2>4. OverrunIsHalting'
    BY <1>18 DEF PersistOutcome, LatestRowGets, OverrunIsHalting, Running,
       HandleOK, HandleType
  <2>5. NoRunUnsupervised'
    BY <1>18 DEF PersistOutcome, LatestRowGets, NoRunUnsupervised, Running,
       HandleOK, HandleType
  <2> QED
    BY <1>18, <2>1, <2>2, <2>3, <2>4, <2>5 DEF PersistOutcome, Admitted,
       Starting
<1>19. ASSUME NEW w \in Wakes, SuperviseRaises(w) PROVE Control'
  <2>1. Concluded'
    BY <1>19 DEF SuperviseRaises, Raise, Concluded, HandleOK, HandleType
  <2>2. SessionScope'
    BY <1>19 DEF SuperviseRaises, Raise, SessionScope, Running, HandleOK,
       HandleType
  <2>3. OverrunIsHalting'
    BY <1>19 DEF SuperviseRaises, Raise, OverrunIsHalting, Running, DaemonOK,
       HandleOK, HandleType
  <2>4. NoRunUnsupervised'
    BY <1>19 DEF SuperviseRaises, Raise, NoRunUnsupervised, Running, DaemonOK,
       HandleOK, HandleType
  <2> QED
    BY <1>19, <2>1, <2>2, <2>3, <2>4 DEF SuperviseRaises, Recorded, Running,
       KeyOf, Admitted, Starting
<1>20. ASSUME NEW q \in Requests, NEW o \in Wakes, NEW a \in Samples, ReportCost(q, o, a) PROVE Control'
  <2>1. Concluded'
    BY <1>20 DEF ReportCost, Idle, Live, KeyOf, Overrun, Concluded, HandleOK,
       HandleType
  <2>2. SessionScope'
    BY <1>20 DEF ReportCost, Idle, Live, KeyOf, Overrun, SessionScope, Running,
       HandleOK, HandleType
  <2>3. OverrunIsHalting'
    <3> DEFINE w     == registry[KeyOf(o)]
               spent == handle[w].cost + a
    <3>1. /\ w \in Wakes /\ handle' = [handle EXCEPT ![w].cost = spent]
          /\ req' = [req EXCEPT ![q] = [at |-> IF spent > wake[w].reserved THEN "overrun" ELSE "writing",
                                        wake |-> w, key |-> KeyOf(o), cost |-> spent]]
          /\ req[q].at = "idle" /\ UNCHANGED <<wake, proc, up, faults>>
      BY <1>20 DEF ReportCost, Idle, Live, Overrun, Keyed, Unborn, WakeOK, WakeType, DaemonOK,
         Unstarted, NoHandle
    <3> SUFFICES ASSUME faults = 0, NEW v \in Wakes, Running(v), up,
                        handle'[v].cost > wake[v].reserved, ~ proc[v].signalled
                 PROVE  \E p \in Requests : req'[p].at \in {"overrun", "auditing"} /\ req'[p].wake = v
      BY <3>1 DEF OverrunIsHalting, Running
    <3> HIDE DEF w, spent
    <3>2. CASE v = w
      BY <3>1, <3>2 DEF HandleOK, HandleType, RequestOK
    <3>3. CASE v # w
      <4>1. handle'[v] = handle[v]
        BY <3>1, <3>3 DEF HandleOK
      <4>2. PICK p \in Requests : req[p].at \in {"overrun", "auditing"} /\ req[p].wake = v
        BY <4>1 DEF OverrunIsHalting
      <4> QED
        BY <3>1, <4>2 DEF RequestOK
    <3> QED
      BY <3>2, <3>3
  <2>4. NoRunUnsupervised'
    BY <1>20 DEF ReportCost, Idle, Live, KeyOf, Overrun, NoRunUnsupervised,
       Running, HandleOK, HandleType
  <2> QED
    BY <1>20, <2>1, <2>2, <2>3, <2>4 DEF ReportCost, Recorded, Running, KeyOf,
       Admitted, Starting
<1>21. ASSUME NEW q \in Requests, WriteTotals(q) PROVE Control'
  <2>1. Recorded'
    BY <1>21 DEF WriteTotals, LatestRowGets, NoRequest, Recorded, Running,
       KeyOf, DbOK, RowType
  <2>2. OverrunIsHalting'
    BY <1>21 DEF WriteTotals, LatestRowGets, NoRequest, OverrunIsHalting,
       Running, RequestOK, RequestType
  <2> QED
    BY <1>21, <2>1, <2>2 DEF WriteTotals, Admitted, Starting, Concluded,
       SessionScope, Running, NoRunUnsupervised
<1>22. ASSUME NEW q \in Requests, WriteOverrun(q) PROVE Control'
  <2>1. Recorded'
    BY <1>22 DEF WriteOverrun, LatestRowGets, Recorded, Running, KeyOf, DbOK,
       RowType
  <2>2. OverrunIsHalting'
    BY <1>22 DEF WriteOverrun, LatestRowGets, OverrunIsHalting, Running,
       RequestOK, RequestType
  <2> QED
    BY <1>22, <2>1, <2>2 DEF WriteOverrun, Admitted, Starting, Concluded,
       SessionScope, Running, NoRunUnsupervised
<1>23. ASSUME NEW q \in Requests, EmitCapHalt(q) PROVE Control'
  <2>1. Recorded'
    BY <1>23 DEF EmitCapHalt, Terminate, Exited, KeyOf, NoRequest, Recorded,
       Running, ProcOK, ProcType
  <2>2. SessionScope'
    BY <1>23 DEF EmitCapHalt, Terminate, Exited, KeyOf, NoRequest, SessionScope,
       Running, ProcOK, ProcType
  <2>3. OverrunIsHalting'
    <3>1. req[q].wake \in Wakes
      BY <1>23 DEF EmitCapHalt, Owned
    <3>2. CASE Exited(req[q].wake)
      BY <1>23, <3>1, <3>2 DEF EmitCapHalt, Terminate, Exited, OverrunIsHalting,
         Running, RequestOK
    <3>3. CASE ~Exited(req[q].wake)
      BY <1>23, <3>1, <3>3 DEF EmitCapHalt, Terminate, OverrunIsHalting,
         Running, RequestOK, ProcOK, ProcType
    <3> QED
      BY <3>2, <3>3
  <2>4. NoRunUnsupervised'
    BY <1>23 DEF EmitCapHalt, Terminate, Exited, KeyOf, NoRequest,
       NoRunUnsupervised, Running, ProcOK, ProcType
  <2> QED
    BY <1>23, <2>1, <2>2, <2>3, <2>4 DEF EmitCapHalt, Admitted, Starting,
       Concluded
<1>24. ASSUME NEW q \in Requests, GraceEnds(q) PROVE Control'
  <2>1. OverrunIsHalting'
    BY <1>24 DEF GraceEnds, Exited, NoRequest, OverrunIsHalting, Running,
       RequestOK, RequestType
  <2> QED
    BY <1>24, <2>1 DEF GraceEnds, Recorded, Running, KeyOf, Admitted, Starting,
       Concluded, SessionScope, NoRunUnsupervised
<1>25. ASSUME NEW q \in Requests, GraceExpires(q) PROVE Control'
  <2>1. Recorded'
    BY <1>25 DEF GraceExpires, Exited, NoRequest, Recorded, Running, KeyOf,
       ProcOK, ProcType
  <2>2. SessionScope'
    BY <1>25 DEF GraceExpires, Exited, NoRequest, SessionScope, Running, ProcOK,
       ProcType
  <2>3. OverrunIsHalting'
    BY <1>25 DEF GraceExpires, Exited, NoRequest, OverrunIsHalting, Running,
       ProcOK, ProcType, RequestOK, RequestType
  <2>4. NoRunUnsupervised'
    BY <1>25 DEF GraceExpires, Exited, NoRequest, NoRunUnsupervised, Running,
       ProcOK, ProcType
  <2> QED
    BY <1>25, <2>1, <2>2, <2>3, <2>4 DEF GraceExpires, Admitted, Starting,
       Concluded
<1>26. ASSUME NEW q \in Requests, NEW k \in Installs, DeleteLive(q, k) PROVE Control'
  <2>1. Recorded'
    BY <1>26 DEF DeleteLive, Idle, Live, Terminate, Exited, KeyOf, NoRequest,
       Recorded, Running, ProcOK, ProcType
  <2>2. SessionScope'
    BY <1>26 DEF DeleteLive, Idle, Live, Terminate, Exited, KeyOf, NoRequest,
       SessionScope, Running, ProcOK, ProcType
  <2>3. OverrunIsHalting'
    <3>1. \A p \in Requests : p # q => req'[p] = req[p]
      BY <1>26 DEF DeleteLive, Terminate, RequestOK
    <3>2. \A w \in Wakes : /\ proc'[w].state = proc[w].state
                           /\ proc[w].signalled => proc'[w].signalled
      BY <1>26 DEF DeleteLive, Terminate, ProcOK, ProcType
    <3> QED
      BY <1>26, <3>1, <3>2 DEF DeleteLive, Idle, OverrunIsHalting, Running
  <2>4. NoRunUnsupervised'
    BY <1>26 DEF DeleteLive, Idle, Live, Terminate, Exited, KeyOf, NoRequest,
       NoRunUnsupervised, Running, ProcOK, ProcType
  <2> QED
    BY <1>26, <2>1, <2>2, <2>3, <2>4 DEF DeleteLive, Admitted, Starting,
       Concluded
<1>27. ASSUME NEW q \in Requests, NEW k \in Installs, DeleteMiss(q, k) PROVE Control'
  <2>1. OverrunIsHalting'
    BY <1>27 DEF DeleteMiss, Idle, Live, OverrunIsHalting, Running, RequestOK,
       RequestType
  <2> QED
    BY <1>27, <2>1 DEF DeleteMiss, Recorded, Running, KeyOf, Admitted, Starting,
       Concluded, SessionScope, NoRunUnsupervised
<1>28. ASSUME NEW q \in Requests, ReadOrphan(q) PROVE Control'
  <2>1. OverrunIsHalting'
    BY <1>28 DEF ReadOrphan, NoRequest, OverrunIsHalting, Running, RequestOK,
       RequestType
  <2> QED
    BY <1>28, <2>1 DEF ReadOrphan, Recorded, Running, KeyOf, Admitted, Starting,
       Concluded, SessionScope, NoRunUnsupervised
<1>29. ASSUME NEW q \in Requests, HaltOrphan(q) PROVE Control'
  <2>1. Recorded'
    BY <1>29 DEF HaltOrphan, LatestRowGets, NoRequest, Recorded, Running, KeyOf,
       DbOK, RowType
  <2>2. OverrunIsHalting'
    BY <1>29 DEF HaltOrphan, LatestRowGets, NoRequest, OverrunIsHalting,
       Running, RequestOK, RequestType
  <2> QED
    BY <1>29, <2>1, <2>2 DEF HaltOrphan, Admitted, Starting, Concluded,
       SessionScope, Running, NoRunUnsupervised
<1>30. ASSUME NEW q \in Requests, RequestRaises(q) PROVE Control'
  <2>1. OverrunIsHalting'
    BY <1>30 DEF RequestRaises, Raise, NoRequest, OverrunIsHalting, Running,
       DaemonOK, RequestOK, RequestType
  <2>2. NoRunUnsupervised'
    BY <1>30 DEF RequestRaises, Raise, NoRequest, NoRunUnsupervised, Running,
       DaemonOK
  <2> QED
    BY <1>30, <2>1, <2>2 DEF RequestRaises, Recorded, Running, KeyOf, Admitted,
       Starting, Concluded, SessionScope
<1>31. ASSUME NEW k \in Installs, OpenStream(k) PROVE Control'
  BY <1>31 DEF OpenStream, Recorded, Running, KeyOf, Admitted, Starting,
     Concluded, SessionScope, OverrunIsHalting, NoRunUnsupervised
<1>32. ASSUME NEW w \in Wakes, ReadStream(w) PROVE Control'
  BY <1>32 DEF ReadStream, Recorded, Running, KeyOf, Admitted, Starting,
     Concluded, SessionScope, OverrunIsHalting, NoRunUnsupervised
<1>33. ASSUME NEW w \in Wakes, DropStream(w) PROVE Control'
  BY <1>33 DEF DropStream, Recorded, Running, KeyOf, Admitted, Starting,
     Concluded, SessionScope, OverrunIsHalting, NoRunUnsupervised
<1>34. ASSUME Shutdown PROVE Control'
  <2>1. Admitted'
    BY <1>34 DEF Shutdown, Cancelled, Idle, Starting, Admitted, DaemonOK
  <2>2. Concluded'
    <3>1. \A w \in Wakes :
            Cancelled(w).supervisor \notin {"costing", "settling"}
      BY DEF Cancelled, HandleOK, HandleType
    <3> QED
      BY <1>34, <3>1 DEF Shutdown, Concluded, Outcomes
  <2>3. SessionScope'
    BY <1>34 DEF Shutdown, Cancelled, Idle, Starting, SessionScope, Running,
       HandleOK, HandleType, DaemonOK
  <2>4. OverrunIsHalting'
    BY <1>34 DEF Shutdown, Cancelled, Idle, Starting, OverrunIsHalting, Running,
       HandleOK, HandleType
  <2>5. NoRunUnsupervised'
    BY <1>34 DEF Shutdown, Cancelled, Idle, Starting, NoRunUnsupervised,
       Running, HandleOK, HandleType
  <2> QED
    BY <1>34, <2>1, <2>2, <2>3, <2>4, <2>5 DEF Shutdown, Recorded, Running,
       KeyOf
<1>35. ASSUME Restart PROVE Control'
  <2>1. Recorded'
    <3>1. \A w \in Wakes : ~Running(w)'
      BY <1>35 DEF Restart, Reaped, Running, ProcOK, ProcType
    <3>2. \A w \in Wakes : Forgotten(w).phase \notin {"recorded", "spawned", "launched"}
      BY DEF Forgotten, WakeOK, WakeType
    <3> QED
      BY <1>35, <3>1, <3>2 DEF Restart, Recorded
  <2>2. Admitted'
    <3>1. \A w \in Wakes : Forgotten(w).phase \notin {"planned", "checked", "recorded", "spawned"}
      BY DEF Forgotten, WakeOK, WakeType
    <3> QED
      BY <1>35, <3>1 DEF Restart, Admitted, Starting
  <2>3. Concluded'
    BY <1>35 DEF Restart, NoHandle, NoRequest, Concluded, HandleOK, HandleType
  <2>4. SessionScope'
    <3>1. \A w \in Wakes : ~Running(w)'
      BY <1>35 DEF Restart, Reaped, Running, ProcOK, ProcType
    <3> QED
      BY <1>35, <3>1 DEF Restart, SessionScope
  <2>5. OverrunIsHalting'
    <3>1. \A w \in Wakes : ~Running(w)'
      BY <1>35 DEF Restart, Reaped, Running, ProcOK, ProcType
    <3> QED
      BY <1>35, <3>1 DEF Restart, OverrunIsHalting
  <2>6. NoRunUnsupervised'
    <3>1. \A w \in Wakes : ~Running(w)'
      BY <1>35 DEF Restart, Reaped, Running, ProcOK, ProcType
    <3> QED
      BY <1>35, <3>1 DEF Restart, NoRunUnsupervised
  <2> QED
    BY <1>35, <2>1, <2>2, <2>3, <2>4, <2>5, <2>6
<1>36. ASSUME UNCHANGED vars PROVE Control'
  BY <1>36 DEF vars, Recorded, Running, KeyOf, Admitted, Starting, Concluded,
     SessionScope, OverrunIsHalting, NoRunUnsupervised
<1> QED
  BY <1>1, <1>2, <1>3, <1>4, <1>5, <1>6, <1>7, <1>8, <1>9, <1>10, <1>11, <1>12,
     <1>13, <1>14, <1>15, <1>16, <1>17, <1>18, <1>19, <1>20, <1>21, <1>22,
     <1>23, <1>24, <1>25, <1>26, <1>27, <1>28, <1>29, <1>30, <1>31, <1>32,
     <1>33, <1>34, <1>35, <1>36 DEF Next, Vault, Launch, Agent, Supervise,
     Serve, Raises

-----------------------------------------------------------------------------
\* The daemon starts with the types, the links and the control it keeps.
LEMMA Initially == Init => TypeOK /\ Links /\ Control
<1> SUFFICES ASSUME Init PROVE TypeOK /\ Links /\ Control
  OBVIOUS
<1>1. TypeOK
  <2>1. DbOK /\ WakeOK /\ ProcOK /\ SeenOK
    BY DEF Init, DbOK, NoRow, RowType, WakeOK, WakeType, ProcOK, ProcType,
       SeenOK, SeenType
  <2>2. HandleOK /\ RequestOK
    BY DEF Init, HandleOK, HandleType, NoHandle, RequestOK, RequestType,
       NoRequest
  <2>3. StreamOK /\ DaemonOK
    BY DEF Init, StreamOK, DaemonOK
  <2> QED
    BY <2>1, <2>2, <2>3 DEF TypeOK
<1>2. Links
  BY NoWakeIsNoWake DEF Init, Links, Keyed, Unborn, Unwatched, Owned,
     Registered, NoHandle, NoRequest
<1>3. Control
  <2>1. Recorded /\ Admitted /\ Concluded
    BY DEF Init, Recorded, Admitted, Concluded, Running, Starting, NoHandle
  <2>2. SessionScope /\ OverrunIsHalting /\ NoRunUnsupervised
    BY DEF Init, SessionScope, OverrunIsHalting, NoRunUnsupervised, Running
  <2> QED
    BY <2>1, <2>2 DEF Control
<1> QED
  BY <1>1, <1>2, <1>3

\* All of it together holds in every reachable state.
LEMMA Invariant == Spec => [](TypeOK /\ Links /\ Control)
<1>1. TypeOK /\ Links /\ Control /\ [Next]_vars => (TypeOK /\ Links /\ Control)'
  BY TypeStep, LinksStep, ControlStep
<1> QED
  BY <1>1, Initially, PTL DEF Spec

\* Every variable keeps its type: rows, handles, processes, queues, requests.
THEOREM TypeCorrect == Spec => []TypeOK
BY Invariant, PTL

\* A live agent process has its agent_run row, whatever else start_run,
\* DELETE /installs and a restart interleave with, unless the install, and the
\* row with it, was deleted under the run.
THEOREM WokenRunsAreAccounted == Spec => []AccountedBeforeWake
<1>1. Control => AccountedBeforeWake
  BY DEF Control, Recorded, AccountedBeforeWake
<1> QED
  BY <1>1, Invariant, PTL

\* A live run has its MCP session while the daemon is up, and no wake that was
\* refused, rejected, ended or lost with an earlier daemon keeps one.
THEOREM SessionsLastAsLongAsRuns == Spec => []SessionScope
<1>1. Control => SessionScope
  BY DEF Control
<1> QED
  BY <1>1, Invariant, PTL

\* As long as no await raises, a live run beyond its reservation has been
\* signalled or a request is on its way to signal it, however many reports,
\* DELETEs and wakes interleave.
THEOREM OverrunsAreHalted == Spec => []OverrunIsHalting
<1>1. Control => OverrunIsHalting
  BY DEF Control
<1> QED
  BY <1>1, Invariant, PTL

\* As long as no await raises, a live process has the handler that is about to
\* give it a supervisor, or a supervisor that will see it end.
THEOREM RunsAreSupervised == Spec => []NoRunUnsupervised
<1>1. Control => NoRunUnsupervised
  BY DEF Control
<1> QED
  BY <1>1, Invariant, PTL

-----------------------------------------------------------------------------
(* Transcripts.                                                            *)

Marks      == {"chunk", "end"}
Chunked(s) == \A i \in 1 .. Len(s) - 1 : s[i] = "chunk"
EndsIn(s)  == s # <<>> /\ s[Len(s)] = "end"

\* A transcript without marks is empty.
LEMMA NoMarks == ASSUME NEW s \in Seq(Marks), Len(s) = 0 PROVE s = <<>>
OBVIOUS

\* A transcript grows by a mark, and ends with an end;
LEMMA MarkAppended ==
  ASSUME NEW s \in Seq(Marks), Chunked(s), ~ EndsIn(s), NEW m \in Marks
  PROVE  /\ Len(Append(s, m)) = Len(s) + 1 /\ Chunked(Append(s, m))
         /\ EndsIn(Append(s, m)) <=> m = "end"
<1>1. \A i \in 1 .. Len(s) : s[i] = "chunk"
  BY DEF Chunked, EndsIn, Marks
<1>2. Append(s, m) # <<>> /\ Len(Append(s, m)) = Len(s) + 1 /\ Append(s, m)[Len(s) + 1] = m
  OBVIOUS
<1>3. \A i \in 1 .. Len(s) : Append(s, m)[i] = s[i]
  OBVIOUS
<1> QED
  BY <1>1, <1>2, <1>3 DEF Chunked, EndsIn

\* read from its head, it ends where its end is.
LEMMA MarkTaken ==
  ASSUME NEW s \in Seq(Marks), Chunked(s), s # <<>>
  PROVE  /\ Len(Tail(s)) = Len(s) - 1 /\ Len(s) \in Nat \ {0} /\ Chunked(Tail(s))
         /\ Head(s) = "end" => Tail(s) = <<>> /\ EndsIn(s) /\ Len(s) = 1
         /\ Head(s) # "end" => (EndsIn(Tail(s)) <=> EndsIn(s))
<1>1. /\ Len(s) \in Nat \ {0} /\ Head(s) = s[1] /\ Tail(s) \in Seq(Marks) /\ Len(Tail(s)) = Len(s) - 1
      /\ \A i \in 1 .. Len(s) - 1 : Tail(s)[i] = s[i + 1]
  OBVIOUS
<1>2. Chunked(Tail(s))
  BY <1>1 DEF Chunked
<1>3. Head(s) = "end" => Len(s) = 1
  BY <1>1 DEF Chunked
<1>4. Len(s) = 1 => Tail(s) = <<>> /\ (EndsIn(s) <=> Head(s) = "end") /\ ~ EndsIn(Tail(s))
  <2>1. Len(s) = 1 => Tail(s) = <<>>
    <3> SUFFICES ASSUME Len(s) = 1 PROVE Tail(s) = <<>>
      OBVIOUS
    <3>1. Tail(s) \in Seq(Marks) /\ Len(Tail(s)) = 0
      BY <1>1
    <3> QED
      BY <3>1, NoMarks
  <2> QED
    BY <1>1, <2>1 DEF EndsIn
<1>5. Len(s) # 1 => (EndsIn(Tail(s)) <=> EndsIn(s))
  BY <1>1 DEF EndsIn
<1> QED
  BY <1>1, <1>2, <1>3, <1>4, <1>5

\* Every line is in the pipe, in the queue or with a reader, until the daemon is gone,
\* and nothing is behind the end.
Ends(s) == IF EndsIn(s) THEN 1 ELSE 0
Balance(chunks, pipe, s, lines) == chunks + pipe + Len(s) = lines + Ends(s)

\* A line written and a line read, counted.
LEMMA LinesMove ==
  ASSUME NEW c \in Nat, NEW p \in Nat, NEW n \in Nat, NEW l \in Nat, NEW e \in Nat, c + p + n = l + e
  PROVE  /\ c + (p + 1) + n = (l + 1) + e
         /\ c + (p - 1) + (n + 1) = l + e
         /\ (c + 1) + p + (n - 1) = l + e
OBVIOUS

\* A line written, one pumped and one read leave the count balanced.
LEMMA BalanceMoves ==
  ASSUME NEW c \in Nat, NEW p \in Nat, NEW l \in Nat, NEW s, NEW t,
         Len(s) \in Nat, Ends(s) \in Nat, Ends(t) = Ends(s), Balance(c, p, s, l)
  PROVE  /\ Balance(c, p + 1, s, l + 1)
         /\ Len(t) = Len(s) + 1 => Balance(c, p - 1, t, l)
         /\ Len(t) = Len(s) - 1 => Balance(c + 1, p, t, l)
<1>1. c + p + Len(s) = l + Ends(s)
  BY DEF Balance
<1>2. /\ c + (p + 1) + Len(s) = (l + 1) + Ends(s)
      /\ c + (p - 1) + (Len(s) + 1) = l + Ends(s)
      /\ (c + 1) + p + (Len(s) - 1) = l + Ends(s)
  BY <1>1, LinesMove
<1> QED
  BY <1>2 DEF Balance

\* How often a transcript ends: once or not.
LEMMA EndsCount ==
  ASSUME NEW s
  PROVE  Ends(s) \in Nat /\ (EndsIn(s) => Ends(s) = 1) /\ (~ EndsIn(s) => Ends(s) = 0)
BY DEF Ends

Told(w) ==
  /\ handle[w].broken = FALSE
  /\ Chunked(queue[w])
  /\ wake[w].phase \in {"spawned", "launched"} =>
       Balance(seen[w].chunks, proc[w].pipe, queue[w], proc[w].lines)
  /\ wake[w].phase \in Unstarted \cup {"failed"} =>
       proc[w].lines = 0 /\ seen[w].chunks = 0 /\ ~ seen[w].ended
  /\ wake[w].phase \in Unstarted \cup {"failed", "lost"} =>
       queue[w] = <<>> /\ proc[w].pipe = 0 /\ ~ Running(w) /\ handle[w].supervisor = "none"
  /\ handle[w].supervisor \in {"none", "waiting", "closing"} => ~ EndsIn(queue[w])
  /\ up /\ handle[w].supervisor \notin {"none", "waiting"} => Exited(w) /\ proc[w].pipe = 0
  /\ seen[w].ended => /\ seen[w].chunks = proc[w].lines /\ queue[w] = <<>> /\ ~ Running(w)
                      /\ handle[w].supervisor \notin {"waiting", "closing"}
                      /\ wake[w].phase # "spawned"
  /\ ~ up => readers[w] = 0

\* A step that does not concern the transcript of a wake.
LEMMA ToldSame ==
  ASSUME NEW w, Told(w), wake'[w].phase = wake[w].phase,
         proc'[w].pipe = proc[w].pipe, proc'[w].lines = proc[w].lines, proc'[w].state = proc[w].state,
         handle'[w].broken = handle[w].broken, queue'[w] = queue[w],
         \/ handle'[w].supervisor = handle[w].supervisor
         \/ {handle[w].supervisor, handle'[w].supervisor} \cap {"none", "waiting", "closing"} = {},
         seen'[w].chunks = seen[w].chunks, seen'[w].ended = seen[w].ended,
         up' = up, readers'[w] = readers[w] \/ up
  PROVE  Told(w)'
BY DEF Told, Running, Exited

\* What was told stays true.
LEMMA ToldStep ==
  ASSUME TypeOK, Links, [Next]_vars, faults' = 0, faults = 0, \A w \in Wakes : Told(w)
  PROVE  \A w \in Wakes : Told(w)'
<1> TAKE u \in Wakes
<1>0. /\ Told(u) /\ handle[u] \in HandleType /\ proc[u] \in ProcType /\ wake[u] \in WakeType
      /\ seen[u] \in SeenType /\ queue[u] \in Seq(Marks) /\ readers[u] \in Nat
  BY DEF TypeOK, HandleOK, ProcOK, WakeOK, SeenOK, StreamOK, Marks
<1>a. /\ wake[u].phase \in Unstarted => proc[u].state = "none"
      /\ wake[u].phase = "spawned" => handle[u].supervisor = "none"
  BY DEF Links, Unborn, Unwatched
<1>b. /\ DOMAIN handle = Wakes /\ DOMAIN proc = Wakes /\ DOMAIN wake = Wakes
      /\ DOMAIN seen = Wakes /\ DOMAIN queue = Wakes /\ DOMAIN readers = Wakes
  BY DEF TypeOK, HandleOK, ProcOK, WakeOK, SeenOK, StreamOK
<1>1. ASSUME UNCHANGED <<wake, proc, handle, queue, seen, up, readers>> PROVE Told(u)'
  BY <1>0, <1>1, ToldSame
<1>2. ASSUME NEW k \in Installs, \/ CreateInstall(k) \/ DeleteInstall(k)
             \/ \E s \in SettableStates : UpdateInstallState(k, s)
      PROVE  Told(u)'
  BY <1>1, <1>2 DEF CreateInstall, DeleteInstall, UpdateInstallState
<1>3. ASSUME NEW q \in Requests, \/ WriteTotals(q) \/ WriteOverrun(q) \/ GraceEnds(q) \/ ReadOrphan(q)
             \/ HaltOrphan(q)
      PROVE  Told(u)'
  BY <1>1, <1>3 DEF WriteTotals, WriteOverrun, GraceEnds, ReadOrphan, HaltOrphan
<1>4. ASSUME NEW w \in Wakes, NEW k \in Installs, NEW d \in Decisions, PlanLaunch(w, k, d) PROVE Told(u)'
  <2>1. UNCHANGED <<proc, handle, queue, seen, up, readers>>
    BY <1>4 DEF PlanLaunch
  <2>2. /\ u # w => wake'[u].phase = wake[u].phase
        /\ u = w => wake[u].phase = "idle" /\ wake'[u].phase \in {"refused", "planned"}
    BY <1>4, <1>b DEF PlanLaunch
  <2>3. CASE u # w
    BY <1>0, <2>1, <2>2, <2>3, ToldSame
  <2>4. CASE u = w
    BY <1>0, <2>1, <2>2, <2>4 DEF Told, Unstarted, Running, Exited
  <2> QED
    BY <2>3, <2>4
<1>5. ASSUME NEW w \in Wakes, CheckInstall(w) \/ InsertRow(w) PROVE Told(u)'
  <2>1. UNCHANGED <<proc, handle, queue, seen, up, readers>>
    BY <1>5 DEF CheckInstall, InsertRow
  <2>2. /\ u # w => wake'[u].phase = wake[u].phase
        /\ u = w => wake[u].phase \in {"planned", "checked"}
                    /\ wake'[u].phase \in {"checked", "rejected", "recorded", "failed"}
    <3>1. CASE CheckInstall(w)
      BY <3>1, <1>0, <1>b DEF CheckInstall, WakeType
    <3>2. CASE InsertRow(w)
      BY <3>2, <1>0, <1>b DEF InsertRow, WakeType
    <3> QED
      BY <1>5, <3>1, <3>2
  <2>3. CASE u # w
    BY <1>0, <2>1, <2>2, <2>3, ToldSame
  <2>4. CASE u = w
    BY <1>0, <2>1, <2>2, <2>4 DEF Told, Unstarted, Running, Exited
  <2> QED
    BY <2>3, <2>4
<1>6. ASSUME NEW w \in Wakes, Spawn(w) PROVE Told(u)'
  <2>1. UNCHANGED <<queue, seen, up, readers>>
    BY <1>6 DEF Spawn
  <2>2. /\ proc'[u].pipe = proc[u].pipe /\ proc'[u].lines = proc[u].lines
        /\ handle'[u].broken = handle[u].broken /\ handle'[u].supervisor = handle[u].supervisor
        /\ u # w => wake'[u].phase = wake[u].phase /\ proc'[u].state = proc[u].state
        /\ u = w => wake[u].phase = "recorded" /\ wake'[u].phase = "spawned"
    BY <1>6, <1>0, <1>b DEF Spawn, Accounted, HandleType, ProcType, WakeType
  <2>3. CASE u # w
    BY <1>0, <2>1, <2>2, <2>3, ToldSame
  <2>4. CASE u = w
    <3>1. /\ wake[u].phase \in Unstarted \cup {"failed"} /\ wake[u].phase \in Unstarted \cup {"failed", "lost"}
      BY <2>2, <2>4 DEF Unstarted
    <3>2. /\ proc[u].lines = 0 /\ seen[u].chunks = 0 /\ ~ seen[u].ended
          /\ queue[u] = <<>> /\ proc[u].pipe = 0 /\ handle[u].supervisor = "none"
          /\ handle[u].broken = FALSE
      BY <1>0, <3>1 DEF Told
    <3>3. Chunked(<<>>) /\ ~ EndsIn(<<>>) /\ Balance(0, 0, <<>>, 0)
      BY DEF Chunked, EndsIn, Ends, Balance
    <3>4. ~ up => readers[u] = 0
      BY <1>0 DEF Told
    <3> QED
      BY <2>1, <2>2, <2>4, <3>2, <3>3, <3>4 DEF Told, Unstarted
  <2> QED
    BY <2>3, <2>4
<1>7. ASSUME NEW w \in Wakes, EmitRunStarted(w) PROVE Told(u)'
  <2>1. UNCHANGED <<proc, queue, seen, up, readers>>
    BY <1>7 DEF EmitRunStarted
  <2>2. /\ handle'[u].broken = handle[u].broken
        /\ u # w => wake'[u].phase = wake[u].phase /\ handle'[u].supervisor = handle[u].supervisor
        /\ u = w => /\ wake[u].phase = "spawned" /\ wake'[u].phase = "launched"
                    /\ handle'[u].supervisor = "waiting"
    BY <1>7, <1>0, <1>b DEF EmitRunStarted, HandleType, WakeType
  <2>3. CASE u # w
    BY <1>0, <2>1, <2>2, <2>3, ToldSame
  <2>4. CASE u = w
    BY <1>0, <1>a, <2>1, <2>2, <2>4 DEF Told, Unstarted, Running, Exited
  <2> QED
    BY <2>3, <2>4
<1>8. ASSUME NEW w \in Wakes, WriteLine(w) PROVE Told(u)'
  <2>1. UNCHANGED <<wake, handle, queue, seen, up, readers>>
    BY <1>8 DEF WriteLine
  <2>2. /\ u # w => proc'[u] = proc[u]
        /\ u = w => /\ proc[u].state = "running" /\ proc'[u].state = "running"
                    /\ proc'[u].pipe = proc[u].pipe + 1 /\ proc'[u].lines = proc[u].lines + 1
    BY <1>8, <1>0, <1>b DEF WriteLine, ProcType
  <2>3. CASE u # w
    BY <1>0, <2>1, <2>2, <2>3, ToldSame
  <2>4. CASE u = w
    <3>1. wake[u].phase \in {"spawned", "launched"}
      BY <1>0, <2>2, <2>4 DEF Told, Running, Unstarted, WakeType
    <3>2. /\ seen[u].chunks \in Nat /\ proc[u].pipe \in Nat /\ proc[u].lines \in Nat /\
               Len(queue[u]) \in Nat
      BY <1>0 DEF SeenType, ProcType
    <3>3. Balance(seen'[u].chunks, proc'[u].pipe, queue'[u], proc'[u].lines)
      <4>1. Balance(seen[u].chunks, proc[u].pipe, queue[u], proc[u].lines)
        BY <1>0, <3>1 DEF Told
      <4> QED
        <5>1. Ends(queue[u]) \in Nat
          BY EndsCount
        <5>2. /\ proc'[u].pipe = proc[u].pipe + 1 /\ proc'[u].lines = proc[u].lines + 1
              /\ seen'[u].chunks = seen[u].chunks /\ queue'[u] = queue[u]
          BY <2>1, <2>2, <2>4
        <5>3. Balance(seen[u].chunks, proc[u].pipe + 1, queue[u], proc[u].lines + 1)
          BY <3>2, <4>1, <5>1, BalanceMoves
        <5> QED
          BY <5>2, <5>3
    <3> QED
      BY <1>0, <2>1, <2>2, <2>4, <3>1, <3>3 DEF Told, Unstarted, Running, Exited
  <2> QED
    BY <2>3, <2>4
<1>9. ASSUME NEW w \in Wakes, UNCHANGED <<wake, handle, queue, seen, up, readers>>,
             \A v \in Wakes \ {w} : proc'[v] = proc[v],
             proc'[w].state \in {proc[w].state, "zero", "nonzero"},
             proc'[w].pipe = proc[w].pipe, proc'[w].lines = proc[w].lines
      PROVE  Told(u)'
  <2>1. CASE u # w
    BY <1>0, <1>9, <2>1, ToldSame
  <2>2. CASE u = w
    BY <1>0, <1>9, <2>2 DEF Told, Running, Exited
  <2> QED
    BY <2>1, <2>2
<1>10. ASSUME NEW w \in Wakes, NEW c \in {"zero", "nonzero"}, ExitProcess(w, c) PROVE Told(u)'
  <2>1. /\ UNCHANGED <<wake, handle, queue, seen, up, readers>> /\
             \A v \in Wakes \ {w} : proc'[v] = proc[v]
        /\ proc'[w].state = c /\ proc'[w].pipe = proc[w].pipe /\ proc'[w].lines = proc[w].lines
    BY <1>10, <1>b DEF ExitProcess, TypeOK, ProcOK, ProcType
  <2> QED
    BY <1>9, <2>1
<1>11. ASSUME NEW q \in Requests, GraceExpires(q) PROVE Told(u)'
  <2>1. req[q].wake \in Wakes
    BY <1>11 DEF GraceExpires, Links, Owned
  <2> DEFINE w == req[q].wake
  <2>2. /\ UNCHANGED <<wake, handle, queue, seen, up, readers>> /\
             \A v \in Wakes \ {w} : proc'[v] = proc[v]
        /\ proc'[w].state = "nonzero" /\ proc'[w].pipe = proc[w].pipe /\ proc'[w].lines = proc[w].lines
    BY <1>11, <2>1, <1>b DEF GraceExpires, TypeOK, ProcOK, ProcType
  <2> HIDE DEF w
  <2> QED
    BY <1>9, <2>1, <2>2 DEF w
<1>12. ASSUME NEW q, NEW w \in Wakes, Terminate(q, w), UNCHANGED <<wake, handle, queue, seen, up, readers>>
       PROVE  Told(u)'
  <2>1. /\ \A v \in Wakes \ {w} : proc'[v] = proc[v]
        /\ proc'[w].state = proc[w].state /\ proc'[w].pipe = proc[w].pipe /\
             proc'[w].lines = proc[w].lines
    BY <1>12, <1>b DEF Terminate, TypeOK, ProcOK, ProcType
  <2> QED
    BY <1>9, <1>12, <2>1
<1>13. ASSUME NEW q \in Requests, EmitCapHalt(q) PROVE Told(u)'
  <2>1. req[q].wake \in Wakes
    BY <1>13 DEF EmitCapHalt, Links, Owned
  <2> QED
    BY <1>12, <1>13, <2>1 DEF EmitCapHalt
<1>14. ASSUME NEW q \in Requests, NEW k \in Installs, DeleteLive(q, k) PROVE Told(u)'
  <2>1. registry[k] \in Wakes
    BY <1>14, LiveWake DEF DeleteLive, TypeOK
  <2> QED
    BY <1>12, <1>14, <2>1 DEF DeleteLive
<1>15. ASSUME NEW q \in Requests, NEW o \in Wakes, NEW a \in Samples, ReportCost(q, o, a) PROVE Told(u)'
  <2>1. UNCHANGED <<wake, proc, queue, up, readers>>
    BY <1>15 DEF ReportCost
  <2>2. /\ handle'[u].broken = handle[u].broken /\ handle'[u].supervisor = handle[u].supervisor
        /\ seen'[u].chunks = seen[u].chunks /\ seen'[u].ended = seen[u].ended
    BY <1>15, <1>0, <1>b DEF ReportCost, HandleType, SeenType
  <2> QED
    BY <1>0, <2>1, <2>2, ToldSame
<1>16. ASSUME NEW w \in Wakes, Pump(w) PROVE Told(u)'
  <2>1. UNCHANGED <<wake, handle, seen, up, readers>>
    BY <1>16 DEF Pump
  <2>2. /\ u # w => proc'[u] = proc[u] /\ queue'[u] = queue[u]
        /\ u = w => /\ proc'[u].state = proc[u].state /\ proc[u].pipe > 0
                    /\ proc'[u].pipe = proc[u].pipe - 1 /\ proc'[u].lines = proc[u].lines
                    /\ queue'[u] = Append(queue[u], "chunk")
    BY <1>16, <1>0, <1>b DEF Pump, ProcType
  <2>3. CASE u # w
    BY <1>0, <2>1, <2>2, <2>3, ToldSame
  <2>4. CASE u = w
    <3>1. handle[u].supervisor = "waiting"
      BY <1>0, <1>16, <2>4 DEF Pump, Pumping, Told
    <3>2. Chunked(queue[u]) /\ ~ EndsIn(queue[u])
      BY <1>0, <3>1 DEF Told
    <3>3. /\ Len(queue'[u]) = Len(queue[u]) + 1 /\ Chunked(queue'[u]) /\ ~ EndsIn(queue'[u])
      BY <1>0, <2>2, <2>4, <3>2, MarkAppended DEF Marks
    <3>4. /\ seen[u].chunks \in Nat /\ proc[u].pipe \in Nat /\ proc[u].lines \in Nat /\
               Len(queue[u]) \in Nat
      BY <1>0 DEF SeenType, ProcType
    <3>5. wake[u].phase \in {"spawned", "launched"} /\ ~ seen[u].ended
      BY <1>0, <2>4, <3>1 DEF Told, Unstarted, WakeType
    <3>6. Balance(seen'[u].chunks, proc'[u].pipe, queue'[u], proc'[u].lines)
      <4>1. Balance(seen[u].chunks, proc[u].pipe, queue[u], proc[u].lines)
        BY <1>0, <3>5 DEF Told
      <4>2. proc'[u].pipe = proc[u].pipe - 1 /\ proc'[u].lines = proc[u].lines /\
              seen'[u].chunks = seen[u].chunks
        BY <2>1, <2>2, <2>4
      <4> QED
        <5>1. Ends(queue[u]) = 0 /\ Ends(queue'[u]) = 0
          BY <3>2, <3>3, EndsCount
        <5>2. Balance(seen[u].chunks, proc[u].pipe - 1, queue'[u], proc[u].lines)
          <6> DEFINE t == queue'[u]
          <6>1. Len(t) = Len(queue[u]) + 1 /\ Ends(t) = Ends(queue[u]) /\ Ends(queue[u]) \in Nat
            BY <3>3, <5>1
          <6> HIDE DEF t
          <6>2. Balance(seen[u].chunks, proc[u].pipe - 1, t, proc[u].lines)
            BY <3>4, <4>1, <6>1, BalanceMoves
          <6> QED
            BY <6>2 DEF t
        <5> QED
          BY <4>2, <5>2
    <3>7. up /\ handle[u].supervisor \notin {"none", "waiting"} => Exited(u) /\ proc[u].pipe = 0
      BY <1>0 DEF Told
    <3>8. (~ up => readers[u] = 0) /\ handle[u].broken = FALSE
      BY <1>0 DEF Told
    <3> QED
      BY <2>1, <3>1, <3>3, <3>5, <3>6, <3>8 DEF Told, Unstarted
  <2> QED
    BY <2>3, <2>4
<1>17. ASSUME NEW w \in Wakes, FinishRun(w) PROVE Told(u)'
  <2>1. UNCHANGED <<wake, proc, queue, seen, up, readers>>
    BY <1>17 DEF FinishRun
  <2>2. /\ handle'[u].broken = handle[u].broken
        /\ u # w => handle'[u].supervisor = handle[u].supervisor
        /\ u = w => /\ handle[u].supervisor = "waiting" /\ handle'[u].supervisor = "closing" /\ RunEnded(u)
    BY <1>17, <1>0, <1>b DEF FinishRun, HandleType
  <2>3. CASE u # w
    BY <1>0, <2>1, <2>2, <2>3, ToldSame
  <2>4. CASE u = w
    BY <1>0, <2>1, <2>2, <2>4 DEF Told, Running, Exited, RunEnded
  <2> QED
    BY <2>3, <2>4
<1>18. ASSUME NEW w \in Wakes, CloseTranscript(w) PROVE Told(u)'
  <2>1. UNCHANGED <<wake, proc, seen, up, readers>>
    BY <1>18 DEF CloseTranscript
  <2>2. /\ handle'[u].broken = handle[u].broken
        /\ u # w => handle'[u].supervisor = handle[u].supervisor /\ queue'[u] = queue[u]
        /\ u = w => /\ handle[u].supervisor = "closing" /\ handle'[u].supervisor = "emitting"
                    /\ queue'[u] = Append(queue[u], "end")
    BY <1>18, <1>0, <1>b DEF CloseTranscript, HandleType
  <2>3. CASE u # w
    BY <1>0, <2>1, <2>2, <2>3, ToldSame
  <2>4. CASE u = w
    <3>1. Chunked(queue[u]) /\ ~ EndsIn(queue[u])
      BY <1>0, <2>2, <2>4 DEF Told
    <3>2. /\ Len(queue'[u]) = Len(queue[u]) + 1 /\ Chunked(queue'[u]) /\ EndsIn(queue'[u])
      BY <1>0, <2>2, <2>4, <3>1, MarkAppended DEF Marks
    <3>3. /\ seen[u].chunks \in Nat /\ proc[u].pipe \in Nat /\ proc[u].lines \in Nat /\
               Len(queue[u]) \in Nat
      BY <1>0 DEF SeenType, ProcType
    <3>4. wake[u].phase \in {"spawned", "launched"} /\ ~ seen[u].ended
      BY <1>0, <2>2, <2>4 DEF Told, Unstarted, WakeType
    <3>5. Balance(seen'[u].chunks, proc'[u].pipe, queue'[u], proc'[u].lines)
      <4>1. Balance(seen[u].chunks, proc[u].pipe, queue[u], proc[u].lines)
        BY <1>0, <3>4 DEF Told
      <4> QED
        BY <2>1, <3>1, <3>2, <3>3, <4>1, EndsCount DEF Balance
    <3>6. /\ up => Exited(u) /\ proc[u].pipe = 0
          /\ (~ up => readers[u] = 0) /\ handle[u].broken = FALSE
      BY <1>0, <2>2, <2>4 DEF Told
    <3> QED
      BY <2>1, <2>2, <2>4, <3>2, <3>4, <3>5, <3>6 DEF Told, Unstarted, Exited
  <2> QED
    BY <2>3, <2>4
<1>19. ASSUME NEW w \in Wakes, EmitTerminal(w) \/ PersistCost(w) \/ PersistOutcome(w) PROVE Told(u)'
  <2>1. UNCHANGED <<wake, proc, queue, seen, up, readers>>
    BY <1>19 DEF EmitTerminal, PersistCost, PersistOutcome
  <2>2. /\ handle'[u].broken = handle[u].broken
        /\ \/ handle'[u].supervisor = handle[u].supervisor
           \/ /\ handle[u].supervisor \in {"emitting", "costing", "settling"}
              /\ handle'[u].supervisor \in {"costing", "settling", "done"}
    BY <1>19, <1>0, <1>b DEF EmitTerminal, PersistCost, PersistOutcome, HandleType
  <2> QED
    BY <1>0, <2>1, <2>2, ToldSame
<1>20. ASSUME NEW w \in Wakes, ReadStream(w) PROVE Told(u)'
  <2>1. UNCHANGED <<wake, proc, handle, up>>
    BY <1>20 DEF ReadStream
  <2>2. CASE u # w
    <3>1. queue'[u] = queue[u] /\ seen'[u] = seen[u] /\ readers'[u] = readers[u]
      BY <1>20, <1>b, <2>2 DEF ReadStream
    <3> QED
      BY <1>0, <2>1, <3>1, ToldSame
  <2>3. CASE u = w
    <3>1. /\ readers[u] > 0 /\ queue[u] # <<>> /\ queue'[u] = Tail(queue[u])
          /\ Head(queue[u]) = "end" => seen'[u].ended = TRUE /\ seen'[u].chunks = seen[u].chunks
          /\ Head(queue[u]) # "end" => seen'[u].ended = seen[u].ended /\
               seen'[u].chunks = seen[u].chunks + 1
      BY <1>20, <1>0, <1>b, <2>3 DEF ReadStream, SeenType
    <3>2. up /\ wake[u].phase \in {"spawned", "launched"} /\ ~ seen[u].ended /\ Chunked(queue[u])
      BY <1>0, <3>1 DEF Told, Unstarted, WakeType
    <3>3. /\ Len(Tail(queue[u])) = Len(queue[u]) - 1 /\ Len(queue[u]) \in Nat \ {0} /\
               Chunked(Tail(queue[u]))
          /\ Head(queue[u]) = "end" => Tail(queue[u]) = <<>> /\ EndsIn(queue[u]) /\ Len(queue[u]) = 1
          /\ Head(queue[u]) # "end" => (EndsIn(Tail(queue[u])) <=> EndsIn(queue[u]))
      BY <1>0, <3>1, <3>2, MarkTaken
    <3>4. /\ seen[u].chunks \in Nat /\ proc[u].pipe \in Nat /\ proc[u].lines \in Nat
      BY <1>0 DEF SeenType, ProcType
    <3>5. ~ EndsIn(<<>>)
      BY DEF EndsIn
    <3>6. CASE Head(queue[u]) = "end"
      <4>1. /\ handle[u].supervisor \notin {"none", "waiting", "closing"} /\ Exited(u) /\ proc[u].pipe = 0
        BY <1>0, <3>2, <3>3, <3>6 DEF Told
      <4>2. wake[u].phase = "launched" /\ ~ Running(u)
        BY <1>a, <3>2, <4>1 DEF Running, Exited
      <4>3. seen[u].chunks = proc[u].lines
        <5>1. Balance(seen[u].chunks, proc[u].pipe, queue[u], proc[u].lines)
          BY <1>0, <3>2 DEF Told
        <5> QED
          BY <3>3, <3>4, <3>6, <4>1, <5>1, EndsCount DEF Balance
      <4>4. Balance(seen[u].chunks, proc[u].pipe, <<>>, proc[u].lines) /\ Chunked(<<>>)
        BY <3>4, <3>5, <4>1, <4>3, EndsCount DEF Balance, Chunked
      <4>5. handle[u].broken = FALSE
        BY <1>0 DEF Told
      <4>6. queue'[u] = <<>> /\ seen'[u].chunks = seen[u].chunks
        BY <3>1, <3>3, <3>6
      <4> QED
        BY <2>1, <3>2, <3>5, <4>1, <4>2, <4>3, <4>4, <4>5, <4>6 DEF Told, Running, Exited, Unstarted
    <3>7. CASE Head(queue[u]) # "end"
      <4>1. Balance(seen[u].chunks, proc[u].pipe, queue[u], proc[u].lines)
        BY <1>0, <3>2 DEF Told
      <4>2. seen'[u].chunks = seen[u].chunks + 1 /\ ~ seen'[u].ended
        BY <3>1, <3>2, <3>7
      <4>3. EndsIn(queue'[u]) <=> EndsIn(queue[u])
        BY <3>1, <3>3, <3>7
      <4>4. Len(queue'[u]) = Len(queue[u]) - 1 /\ Len(queue[u]) \in Nat \ {0} /\ Chunked(queue'[u])
        BY <3>1, <3>3
      <4>5. Balance(seen'[u].chunks, proc'[u].pipe, queue'[u], proc'[u].lines)
        <5>1. Ends(queue'[u]) = Ends(queue[u]) /\ Ends(queue[u]) \in Nat
          BY <4>3 DEF Ends
        <5> QED
          <6>1. Balance(seen[u].chunks + 1, proc[u].pipe, queue'[u], proc[u].lines)
            <7> DEFINE t == queue'[u]
            <7>1. Len(t) = Len(queue[u]) - 1 /\ Ends(t) = Ends(queue[u]) /\ Len(queue[u]) \in Nat
              BY <4>4, <5>1
            <7> HIDE DEF t
            <7>2. Balance(seen[u].chunks + 1, proc[u].pipe, t, proc[u].lines)
              BY <3>4, <4>1, <5>1, <7>1, BalanceMoves
            <7> QED
              BY <7>2 DEF t
          <6> QED
            BY <2>1, <4>2, <6>1
      <4>6. /\ handle[u].broken = FALSE
            /\ handle[u].supervisor \in {"none", "waiting", "closing"} => ~ EndsIn(queue[u])
            /\ up /\ handle[u].supervisor \notin {"none", "waiting"} => Exited(u) /\ proc[u].pipe = 0
        BY <1>0 DEF Told
      <4> QED
        BY <2>1, <3>2, <4>2, <4>3, <4>4, <4>5, <4>6 DEF Told, Exited, Unstarted
    <3> QED
      BY <3>6, <3>7
  <2> QED
    BY <2>2, <2>3
<1>21. ASSUME NEW w \in Wakes, DropStream(w) PROVE Told(u)'
  <2>1. UNCHANGED <<wake, proc, handle, queue, seen, up>> /\ readers[w] > 0
    BY <1>21 DEF DropStream
  <2>2. u # w => readers'[u] = readers[u]
    BY <1>21, <1>b DEF DropStream
  <2>3. u = w => up
    BY <1>0, <2>1 DEF Told
  <2> QED
    BY <1>0, <2>1, <2>2, <2>3, ToldSame
<1>22. ASSUME NEW k \in Installs, OpenStream(k) PROVE Told(u)'
  <2>1. UNCHANGED <<wake, proc, handle, queue, seen, up>> /\ up
    BY <1>22 DEF OpenStream
  <2> QED
    BY <1>0, <2>1, ToldSame
<1>23. ASSUME Shutdown PROVE Told(u)'
  <2>1. UNCHANGED <<wake, proc, queue, seen, readers>> /\ readers[u] = 0 /\ up' = FALSE /\
          handle'[u] = Cancelled(u)
    BY <1>23 DEF Shutdown
  <2>2. /\ handle'[u].broken = handle[u].broken
        /\ handle[u].supervisor = "waiting" => handle'[u].supervisor = "closing"
        /\ handle[u].supervisor \in {"closing", "emitting", "costing", "settling"} =>
             handle'[u].supervisor = "abandoned"
        /\ handle[u].supervisor \in {"none", "done", "abandoned"} =>
             handle'[u].supervisor = handle[u].supervisor
    BY <1>0, <2>1 DEF Cancelled, HandleType
  <2>3. handle[u].supervisor \in {"none", "waiting", "closing", "emitting", "costing", "settling", "done", "abandoned"}
    BY <1>0 DEF HandleType
  <2> QED
    BY <1>0, <2>1, <2>2, <2>3 DEF Told, Running, Exited
<1>24. ASSUME Restart PROVE Told(u)'
  <2>1. /\ queue'[u] = <<>> /\ handle'[u] = NoHandle /\ readers'[u] = 0 /\ seen' = seen
        /\ wake'[u] = Forgotten(u) /\ proc'[u] = Reaped(u)
    BY <1>24 DEF Restart
  <2>2. /\ proc'[u].state # "running" /\ proc'[u].pipe = 0 /\ proc'[u].lines = proc[u].lines
    BY <1>0, <2>1 DEF Reaped, ProcType
  <2>3. /\ wake'[u].phase \in {"idle", "refused", "rejected"} => wake[u].phase = wake'[u].phase
        /\ wake'[u].phase \in {"idle", "refused", "rejected", "lost"}
    BY <1>0, <2>1 DEF Forgotten, WakeType
  <2>4. handle'[u].broken = FALSE /\ handle'[u].supervisor = "none"
    BY <2>1 DEF NoHandle
  <2>5. Chunked(<<>>) /\ ~ EndsIn(<<>>)
    BY DEF Chunked, EndsIn
  <2> QED
    BY <1>0, <2>1, <2>2, <2>3, <2>4, <2>5 DEF Told, Running, Exited, Unstarted
<1>25. ~ Raises
  <2>1. ~ Raise
    BY DEF Raise
  <2> QED
    BY <2>1 DEF Raises, StartRaises, PumpRaises, SuperviseRaises, RequestRaises
<1>26. CASE UNCHANGED vars
  BY <1>1, <1>26 DEF vars
<1>27. CASE Vault
  <2>1. PICK k \in Installs : Vault!(k)
    BY <1>27 DEF Vault
  <2>2. CASE \E w \in Wakes, d \in Decisions : PlanLaunch(w, k, d)
    BY <1>4, <2>2
  <2>3. ASSUME NEW q \in Requests, DeleteLive(q, k) \/ DeleteMiss(q, k) PROVE Told(u)'
    <3>1. CASE DeleteLive(q, k)
      BY <1>14, <3>1
    <3>2. CASE DeleteMiss(q, k)
      BY <1>1, <3>2 DEF DeleteMiss
    <3> QED
      BY <2>3, <3>1, <3>2
  <2>4. CASE \/ CreateInstall(k) \/ DeleteInstall(k) \/ OpenStream(k)
             \/ \E s \in SettableStates : UpdateInstallState(k, s)
    <3>1. CASE OpenStream(k)
      BY <1>22, <3>1
    <3>2. CASE CreateInstall(k) \/ DeleteInstall(k)
      BY <1>2, <3>2
    <3>3. ASSUME NEW s \in SettableStates, UpdateInstallState(k, s) PROVE Told(u)'
      BY <1>2, <3>3
    <3> QED
      BY <2>4, <3>1, <3>2, <3>3
  <2> QED
    BY <2>1, <2>2, <2>3, <2>4
<1>28. ASSUME NEW w \in Wakes, Launch(w) \/ Agent(w) PROVE Told(u)'
  BY <1>5, <1>6, <1>7, <1>8, <1>10, <1>15, <1>28 DEF Launch, Agent
<1>29. ASSUME NEW w \in Wakes, Supervise(w) PROVE Told(u)'
  BY <1>16, <1>17, <1>18, <1>19, <1>29 DEF Supervise
<1>30. ASSUME NEW q \in Requests, Serve(q) PROVE Told(u)'
  BY <1>3, <1>11, <1>13, <1>30 DEF Serve
<1> QED
  BY <1>20, <1>21, <1>23, <1>24, <1>25, <1>26, <1>27, <1>28, <1>29, <1>30 DEF Next

\* What a transcript promises its readers (TranscriptComplete): as long as nothing raises, one
\* that was told the end has been told, or another reader has, every line, however full the
\* queue was and whoever came and went.
THEOREM TranscriptsAreComplete == Spec => []TranscriptComplete
<1> DEFINE I == faults = 0 => \A w \in Wakes : Told(w)
           J == TypeOK /\ Links
<1>1. Init => I
  BY DEF Init, Told, Unstarted, NoHandle, Running, Exited, Chunked, EndsIn
<1>2. J /\ I /\ [Next]_vars => I'
  <2> SUFFICES ASSUME J, I, [Next]_vars, faults' = 0 PROVE \A w \in Wakes : Told(w)'
    OBVIOUS
  <2>1. faults' = faults \/ faults' = faults + 1
    <3>1. CASE Vault
      BY <3>1 DEF Vault, CreateInstall, DeleteInstall, OpenStream, UpdateInstallState, PlanLaunch,
         DeleteLive, DeleteMiss
    <3>2. ASSUME NEW w \in Wakes, Launch(w) \/ Agent(w) PROVE faults' = faults
      BY <3>2 DEF Launch, CheckInstall, InsertRow, Spawn, EmitRunStarted, Agent, WriteLine,
         ExitProcess, ReportCost
    <3>3. ASSUME NEW w \in Wakes, Supervise(w) \/ ReadStream(w) \/ DropStream(w) PROVE faults' = faults
      BY <3>3 DEF Supervise, Pump, FinishRun, CloseTranscript, EmitTerminal, PersistCost,
         PersistOutcome, ReadStream, DropStream
    <3>4. ASSUME NEW q \in Requests, Serve(q) PROVE faults' = faults
      BY <3>4 DEF Serve, WriteTotals, WriteOverrun, EmitCapHalt, GraceEnds, GraceExpires,
         ReadOrphan, HaltOrphan
    <3>5. CASE Raises
      BY <3>5 DEF Raises, StartRaises, PumpRaises, SuperviseRaises, RequestRaises, Raise
    <3>6. CASE Shutdown \/ Restart \/ UNCHANGED vars
      BY <3>6 DEF Shutdown, Restart, vars
    <3> QED
      BY <3>1, <3>2, <3>3, <3>4, <3>5, <3>6 DEF Next
  <2>2. faults \in Nat
    BY DEF TypeOK, DaemonOK
  <2>3. faults = 0
    BY <2>1, <2>2
  <2> QED
    BY <2>3, ToldStep
<1>3. I => TranscriptComplete
  BY DEF Told, TranscriptComplete
<1>4. Spec => []J
  BY Invariant, PTL
<1> QED
  BY <1>1, <1>2, <1>3, <1>4, PTL DEF Spec

-----------------------------------------------------------------------------
(* Rows, where an install is woken at most once.                           *)

\* Whatever is written under the key of a wake is then written of that wake.
OneWake == \A v, w \in Wakes :
  wake[v].phase # "idle" /\ wake[w].phase # "idle" /\ KeyOf(v) = KeyOf(w) => v = w

Kept == \A w \in Wakes : row[w].outcome # "none" => wake[w].phase # "idle"

Leading == \A k \in Installs : registry[k] # NoWake => KeyOf(registry[k]) = k

\* What a row will be told of its run is so already of handles and requests.
HandleSpends == \A w \in Wakes : handle[w].cost <= seen[w].spent /\ handle[w].snap <= seen[w].spent

RequestSpends == \A q \in Requests : req[q].at \in {"writing", "overrun"} =>
  req[q].key = KeyOf(req[q].wake) /\ req[q].cost <= seen[req[q].wake].spent

StatusIsTruthful == \A w \in Wakes : handle[w].status = "completed" => proc[w].state = "zero"

Own == /\ OneWake /\ Kept /\ Leading
       /\ HandleSpends /\ RequestSpends /\ ChargedOnlyOwnSpend
       /\ StatusIsTruthful /\ OutcomeIsTruthful

\* A write under the key of a wake reaches its own row, or none.
LEMMA OwnRow ==
  ASSUME DbOK, OneWake, Kept, NEW w \in Wakes, wake[w].phase # "idle",
         NEW f \in {"cost", "outcome"}, NEW x, LatestRowGets(KeyOf(w), f, x)
  PROVE  \A v \in Wakes : row'[v] = row[v] \/ (v = w /\ row'[v] = [row[v] EXCEPT ![f] = x])
<1> SUFFICES ASSUME NEW v \in Wakes
             PROVE  row'[v] = row[v] \/ (v = w /\ row'[v] = [row[v] EXCEPT ![f] = x])
  OBVIOUS
<1>1. CASE IsLatest(v, KeyOf(w))
  <2>1. v = w
    BY <1>1 DEF IsLatest, Rows, OneWake, Kept
  <2> QED
    BY <1>1, <2>1 DEF LatestRowGets
<1>2. CASE ~ IsLatest(v, KeyOf(w))
  BY <1>2 DEF LatestRowGets
<1> QED
  BY <1>1, <1>2

\* There are finitely many wakes.
LEMMA WakesFinite == IsFiniteSet(Wakes)
BY BoundsAssumption, FS_Interval DEF Wakes

\* Every step of a vault that wakes an install once keeps all of it.
LEMMA OwnStep ==
  ASSUME WakesPerInstall = 1
  PROVE  TypeOK /\ Links /\ Own /\ [Next]_vars => Own'
<1> SUFFICES ASSUME TypeOK, Links, Own, [Next]_vars PROVE Own'
  OBVIOUS
<1> USE NoWakeIsNoWake DEF Own, Links, TypeOK
<1>1. ASSUME NEW k \in Installs, CreateInstall(k) PROVE Own'
  BY <1>1 DEF CreateInstall, OneWake, KeyOf, Kept, Leading, HandleSpends, RequestSpends,
     ChargedOnlyOwnSpend, StatusIsTruthful, OutcomeIsTruthful
<1>2. ASSUME NEW k \in Installs, NEW s \in SettableStates, UpdateInstallState(k, s) PROVE Own'
  BY <1>2 DEF UpdateInstallState, OneWake, KeyOf, Kept, Leading, HandleSpends,
     RequestSpends, ChargedOnlyOwnSpend, StatusIsTruthful, OutcomeIsTruthful
<1>3. ASSUME NEW k \in Installs, DeleteInstall(k) PROVE Own'
  <2>1. Kept'
    BY <1>3 DEF DeleteInstall, NoRow, Kept, DbOK, RowType
  <2>2. ChargedOnlyOwnSpend'
    BY <1>3 DEF DeleteInstall, NoRow, ChargedOnlyOwnSpend, DbOK, SeenOK, SeenType
  <2>3. OutcomeIsTruthful'
    BY <1>3 DEF DeleteInstall, NoRow, OutcomeIsTruthful, DbOK, RowType
  <2> QED
    BY <1>3, <2>1, <2>2, <2>3 DEF DeleteInstall, OneWake, KeyOf, Leading, HandleSpends,
       RequestSpends, StatusIsTruthful
<1>4. ASSUME NEW w \in Wakes, NEW k \in Installs, NEW d \in Decisions, PlanLaunch(w, k, d) PROVE Own'
  <2>1. \A v \in Wakes : KeyOf(v) # k
    <3>1. IsFiniteSet({v \in Wakes : KeyOf(v) = k})
      BY WakesFinite, FS_Subset
    <3>2. Cardinality({v \in Wakes : KeyOf(v) = k}) = 0
      BY <1>4, <3>1, FS_CardinalityType DEF PlanLaunch
    <3> QED
      BY <3>1, <3>2, FS_EmptySet
  <2>2. OneWake'
    BY <1>4, <2>1 DEF PlanLaunch, OneWake, KeyOf, WakeOK, WakeType
  <2>3. Kept'
    BY <1>4, <2>1 DEF PlanLaunch, Kept, WakeOK, WakeType
  <2>4. Leading'
    BY <1>4, <2>1, LiveWake DEF PlanLaunch, Leading, Live, Registered, HasHandle, KeyOf, WakeOK, WakeType
  <2>5. RequestSpends'
    BY <1>4 DEF PlanLaunch, RequestSpends, Owned, HasHandle, KeyOf, WakeOK, WakeType
  <2> QED
    BY <1>4, <2>1, <2>2, <2>3, <2>4, <2>5 DEF PlanLaunch, HandleSpends, ChargedOnlyOwnSpend,
       StatusIsTruthful, OutcomeIsTruthful
<1>5. ASSUME NEW w \in Wakes, CheckInstall(w) PROVE Own'
  <2>1. OneWake'
    BY <1>5 DEF CheckInstall, OneWake, KeyOf, WakeOK, WakeType
  <2>2. Kept'
    BY <1>5 DEF CheckInstall, Kept, WakeOK, WakeType
  <2>3. Leading'
    BY <1>5, LiveWake DEF CheckInstall, Leading, Live, Registered, HasHandle, KeyOf, WakeOK, WakeType
  <2>4. RequestSpends'
    BY <1>5 DEF CheckInstall, RequestSpends, Owned, HasHandle, KeyOf, WakeOK, WakeType
  <2> QED
    BY <1>5, <2>1, <2>2, <2>3, <2>4 DEF CheckInstall, HandleSpends, ChargedOnlyOwnSpend,
       StatusIsTruthful, OutcomeIsTruthful
<1>6. ASSUME NEW w \in Wakes, InsertRow(w) PROVE Own'
  <2>1. OneWake'
    BY <1>6 DEF InsertRow, OneWake, KeyOf, DbOK, RowType, WakeOK, WakeType
  <2>2. Kept'
    <3>1. \A v \in Wakes \ {w} : row'[v] = row[v] /\ wake'[v] = wake[v]
      BY <1>6 DEF InsertRow, DbOK, WakeOK
    <3>2. wake'[w].phase # "idle"
      BY <1>6 DEF InsertRow, WakeOK, WakeType
    <3> QED
      BY <3>1, <3>2 DEF Kept
  <2>3. Leading'
    BY <1>6, LiveWake DEF InsertRow, Leading, Live, Registered, HasHandle, KeyOf, WakeOK, WakeType
  <2>4. RequestSpends'
    BY <1>6 DEF InsertRow, RequestSpends, Owned, HasHandle, KeyOf, WakeOK, WakeType
  <2>5. ChargedOnlyOwnSpend'
    BY <1>6 DEF InsertRow, ChargedOnlyOwnSpend, DbOK, SeenOK, SeenType
  <2>6. OutcomeIsTruthful'
    BY <1>6 DEF InsertRow, OutcomeIsTruthful, DbOK, RowType, WakeOK, WakeType
  <2> QED
    BY <1>6, <2>1, <2>2, <2>3, <2>4, <2>5, <2>6 DEF InsertRow, HandleSpends,
       StatusIsTruthful
<1>7. ASSUME NEW w \in Wakes, Spawn(w) PROVE Own'
  <2>1. OneWake'
    BY <1>7 DEF Spawn, Accounted, OneWake, KeyOf, ProcOK, ProcType, HandleOK, HandleType,
       DaemonOK, WakeOK, WakeType
  <2>2. Kept'
    BY <1>7 DEF Spawn, Accounted, Kept, ProcOK, ProcType, HandleOK, HandleType, DaemonOK,
       WakeOK, WakeType
  <2>3. Leading'
    BY <1>7 DEF Spawn, Accounted, Leading, KeyOf, ProcOK, ProcType, HandleOK, HandleType,
       DaemonOK, WakeOK, WakeType
  <2>4. HandleSpends'
    BY <1>7 DEF Spawn, Accounted, HandleSpends, ProcOK, ProcType, HandleOK, HandleType,
       DaemonOK, WakeOK, WakeType
  <2>5. RequestSpends'
    BY <1>7 DEF Spawn, Accounted, RequestSpends, KeyOf, ProcOK, ProcType, HandleOK,
       HandleType, DaemonOK, WakeOK, WakeType
  <2>6. StatusIsTruthful'
    BY <1>7 DEF Spawn, Accounted, StatusIsTruthful, ProcOK, ProcType, HandleOK, HandleType,
       DaemonOK, WakeOK, WakeType
  <2>7. OutcomeIsTruthful'
    BY <1>7 DEF Spawn, Accounted, OutcomeIsTruthful, Unborn, Unstarted, ProcOK
  <2> QED
    BY <1>7, <2>1, <2>2, <2>3, <2>4, <2>5, <2>6, <2>7 DEF Spawn, ChargedOnlyOwnSpend
<1>8. ASSUME NEW w \in Wakes, EmitRunStarted(w) PROVE Own'
  <2>1. OneWake'
    BY <1>8 DEF EmitRunStarted, OneWake, KeyOf, HandleOK, HandleType, WakeOK, WakeType
  <2>2. Kept'
    BY <1>8 DEF EmitRunStarted, Kept, HandleOK, HandleType, WakeOK, WakeType
  <2>3. Leading'
    BY <1>8 DEF EmitRunStarted, Leading, KeyOf, HandleOK, HandleType, WakeOK, WakeType
  <2>4. HandleSpends'
    BY <1>8 DEF EmitRunStarted, HandleSpends, HandleOK, HandleType, WakeOK, WakeType
  <2>5. RequestSpends'
    BY <1>8 DEF EmitRunStarted, RequestSpends, KeyOf, HandleOK, HandleType, WakeOK, WakeType
  <2>6. StatusIsTruthful'
    BY <1>8 DEF EmitRunStarted, StatusIsTruthful, HandleOK, HandleType, WakeOK, WakeType
  <2> QED
    BY <1>8, <2>1, <2>2, <2>3, <2>4, <2>5, <2>6 DEF EmitRunStarted, ChargedOnlyOwnSpend,
       OutcomeIsTruthful
<1>9. ASSUME NEW w \in Wakes, StartRaises(w) PROVE Own'
  <2>1. OneWake'
    BY <1>9 DEF StartRaises, Raise, Starting, OneWake, KeyOf, WakeOK, WakeType, DaemonOK
  <2>2. Kept'
    BY <1>9 DEF StartRaises, Raise, Starting, Kept, WakeOK, WakeType, DaemonOK
  <2>3. Leading'
    BY <1>9 DEF StartRaises, Raise, Starting, Leading, KeyOf, WakeOK, WakeType, DaemonOK
  <2>4. RequestSpends'
    BY <1>9 DEF StartRaises, Raise, Starting, RequestSpends, KeyOf, WakeOK, WakeType,
       DaemonOK
  <2> QED
    BY <1>9, <2>1, <2>2, <2>3, <2>4 DEF StartRaises, HandleSpends, ChargedOnlyOwnSpend,
       StatusIsTruthful, OutcomeIsTruthful
<1>10. ASSUME NEW w \in Wakes, WriteLine(w) PROVE Own'
  <2>1. StatusIsTruthful'
    BY <1>10 DEF WriteLine, StatusIsTruthful, ProcOK, ProcType
  <2>2. OutcomeIsTruthful'
    BY <1>10 DEF WriteLine, OutcomeIsTruthful, ProcOK, ProcType
  <2> QED
    BY <1>10, <2>1, <2>2 DEF WriteLine, OneWake, KeyOf, Kept, Leading, HandleSpends,
       RequestSpends, ChargedOnlyOwnSpend
<1>11. ASSUME NEW w \in Wakes, NEW c \in {"zero", "nonzero"}, ExitProcess(w, c) PROVE Own'
  <2>1. StatusIsTruthful'
    BY <1>11 DEF ExitProcess, StatusIsTruthful, ProcOK, ProcType
  <2>2. OutcomeIsTruthful'
    BY <1>11 DEF ExitProcess, OutcomeIsTruthful, ProcOK, ProcType
  <2> QED
    BY <1>11, <2>1, <2>2 DEF ExitProcess, OneWake, KeyOf, Kept, Leading, HandleSpends,
       RequestSpends, ChargedOnlyOwnSpend
<1>12. ASSUME NEW w \in Wakes, Pump(w) PROVE Own'
  <2>1. StatusIsTruthful'
    BY <1>12 DEF Pump, StatusIsTruthful, ProcOK, ProcType
  <2>2. OutcomeIsTruthful'
    BY <1>12 DEF Pump, OutcomeIsTruthful, ProcOK, ProcType
  <2> QED
    BY <1>12, <2>1, <2>2 DEF Pump, OneWake, KeyOf, Kept, Leading, HandleSpends,
       RequestSpends, ChargedOnlyOwnSpend
<1>13. ASSUME NEW w \in Wakes, PumpRaises(w) PROVE Own'
  <2>1. HandleSpends'
    BY <1>13 DEF PumpRaises, Raise, HandleSpends, ProcOK, ProcType, HandleOK, HandleType,
       DaemonOK
  <2>2. StatusIsTruthful'
    BY <1>13 DEF PumpRaises, Raise, StatusIsTruthful, ProcOK, ProcType, HandleOK,
       HandleType, DaemonOK
  <2>3. OutcomeIsTruthful'
    BY <1>13 DEF PumpRaises, Raise, OutcomeIsTruthful, ProcOK, ProcType, HandleOK,
       HandleType, DaemonOK
  <2> QED
    BY <1>13, <2>1, <2>2, <2>3 DEF PumpRaises, OneWake, KeyOf, Kept, Leading, RequestSpends,
       ChargedOnlyOwnSpend
<1>14. ASSUME NEW w \in Wakes, FinishRun(w) PROVE Own'
  <2>1. HandleSpends'
    BY <1>14 DEF FinishRun, RunEnded, ExitStatus, Exited, HandleSpends, HandleOK, HandleType
  <2>2. StatusIsTruthful'
    BY <1>14 DEF FinishRun, RunEnded, ExitStatus, Exited, StatusIsTruthful, HandleOK,
       HandleType
  <2> QED
    BY <1>14, <2>1, <2>2 DEF FinishRun, OneWake, KeyOf, Kept, Leading, RequestSpends,
       ChargedOnlyOwnSpend, OutcomeIsTruthful
<1>15. ASSUME NEW w \in Wakes, CloseTranscript(w) PROVE Own'
  <2>1. HandleSpends'
    BY <1>15 DEF CloseTranscript, HandleSpends, HandleOK, HandleType
  <2>2. StatusIsTruthful'
    BY <1>15 DEF CloseTranscript, StatusIsTruthful, HandleOK, HandleType
  <2> QED
    BY <1>15, <2>1, <2>2 DEF CloseTranscript, OneWake, KeyOf, Kept, Leading, RequestSpends,
       ChargedOnlyOwnSpend, OutcomeIsTruthful
<1>16. ASSUME NEW w \in Wakes, EmitTerminal(w) PROVE Own'
  <2>1. HandleSpends'
    BY <1>16 DEF EmitTerminal, HandleSpends, HandleOK, HandleType
  <2>2. StatusIsTruthful'
    BY <1>16 DEF EmitTerminal, StatusIsTruthful, HandleOK, HandleType
  <2> QED
    BY <1>16, <2>1, <2>2 DEF EmitTerminal, OneWake, KeyOf, Kept, Leading, RequestSpends,
       ChargedOnlyOwnSpend, OutcomeIsTruthful
<1>17. ASSUME NEW w \in Wakes, PersistCost(w) PROVE Own'
  <2>1. \A v \in Wakes : row'[v] = row[v] \/ (v = w /\ row'[v] = [row[v] EXCEPT !.cost = handle[w].snap])
    BY <1>17, SupervisedIsBorn, OwnRow DEF PersistCost, Unstarted
  <2>2. \A v \in Wakes : row'[v].outcome = row[v].outcome
    BY <1>17, CostKeepsOutcome DEF PersistCost
  <2>3. Kept'
    BY <1>17, <2>2 DEF PersistCost, Kept
  <2>4. HandleSpends'
    BY <1>17, <2>1, <2>2 DEF PersistCost, HandleSpends, DbOK, RowType, HandleOK, HandleType
  <2>5. ChargedOnlyOwnSpend'
    <3>1. \A v \in Wakes : row'[v].cost = row[v].cost \/ (v = w /\ row'[v].cost = handle[w].snap)
      BY <2>1 DEF DbOK, RowType
    <3>2. UNCHANGED seen
      BY <1>17 DEF PersistCost
    <3> QED
      BY <3>1, <3>2 DEF ChargedOnlyOwnSpend, HandleSpends
  <2>6. StatusIsTruthful'
    BY <1>17, <2>1, <2>2 DEF PersistCost, StatusIsTruthful, DbOK, RowType, HandleOK,
       HandleType
  <2>7. OutcomeIsTruthful'
    BY <1>17, <2>2 DEF PersistCost, OutcomeIsTruthful
  <2> QED
    BY <1>17, <2>1, <2>2, <2>3, <2>4, <2>5, <2>6, <2>7 DEF PersistCost, OneWake, KeyOf,
       Leading, RequestSpends
<1>18. ASSUME NEW w \in Wakes, PersistOutcome(w) PROVE Own'
  <2>1. \A v \in Wakes : row'[v] = row[v] \/ (v = w /\ row'[v] = [row[v] EXCEPT !.outcome = handle[w].status])
    BY <1>18, SupervisedIsBorn, OwnRow DEF PersistOutcome, Unstarted
  <2>2. \A v \in Wakes : row'[v].cost = row[v].cost
    BY <1>18, OutcomeKeepsCost DEF PersistOutcome
  <2>3. Kept'
    BY <1>18, <2>1, SupervisedIsBorn DEF PersistOutcome, Kept, Unstarted
  <2>4. HandleSpends'
    BY <1>18, <2>1, <2>2 DEF PersistOutcome, HandleSpends, DbOK, RowType, HandleOK,
       HandleType
  <2>5. ChargedOnlyOwnSpend'
    BY <1>18, <2>2 DEF PersistOutcome, ChargedOnlyOwnSpend
  <2>6. StatusIsTruthful'
    BY <1>18, <2>1, <2>2 DEF PersistOutcome, StatusIsTruthful, DbOK, RowType, HandleOK,
       HandleType
  <2>7. OutcomeIsTruthful'
    BY <1>18, <2>1 DEF PersistOutcome, OutcomeIsTruthful, StatusIsTruthful, DbOK, RowType
  <2> QED
    BY <1>18, <2>1, <2>2, <2>3, <2>4, <2>5, <2>6, <2>7 DEF PersistOutcome, OneWake, KeyOf,
       Leading, RequestSpends
<1>19. ASSUME NEW w \in Wakes, SuperviseRaises(w) PROVE Own'
  <2>1. HandleSpends'
    BY <1>19 DEF SuperviseRaises, Raise, HandleSpends, HandleOK, HandleType, DaemonOK
  <2>2. StatusIsTruthful'
    BY <1>19 DEF SuperviseRaises, Raise, StatusIsTruthful, HandleOK, HandleType, DaemonOK
  <2> QED
    BY <1>19, <2>1, <2>2 DEF SuperviseRaises, OneWake, KeyOf, Kept, Leading, RequestSpends,
       ChargedOnlyOwnSpend, OutcomeIsTruthful
<1>20. ASSUME NEW q \in Requests, NEW o \in Wakes, NEW a \in Samples, ReportCost(q, o, a) PROVE Own'
  <2>1. registry[KeyOf(o)] = o
    BY <1>20, ProcessKeyed, LiveWake DEF ReportCost, Leading, OneWake, Registered, HasHandle,
       Unborn, Unstarted, WakeOK, WakeType
  <2>2. a \in Nat /\ handle[o].cost \in Nat /\ seen[o].spent \in Nat
    BY MoneyAssumption DEF HandleOK, HandleType, SeenOK, SeenType
  <2>3. HandleSpends'
    BY <1>20, <2>1, <2>2 DEF ReportCost, Live, Idle, HandleSpends, HandleOK, HandleType,
       RequestOK, RequestType, SeenOK, SeenType
  <2>4. RequestSpends'
    <3>1. \A v \in Wakes : seen[v].spent <= seen'[v].spent
      BY <1>20, <2>2 DEF ReportCost, SeenOK, SeenType
    <3>2. handle[o].cost + a <= seen'[o].spent
      BY <1>20, <2>2 DEF ReportCost, HandleSpends, SeenOK
    <3>3. req'[q].key = KeyOf(o) /\ req'[q].wake = o /\ req'[q].cost = handle[o].cost + a
      BY <1>20, <2>1 DEF ReportCost, RequestOK
    <3>4. \A p \in Requests \ {q} : req'[p] = req[p]
      BY <1>20 DEF ReportCost, RequestOK
    <3>5. \A p \in Requests \ {q} : req[p].at \in {"writing", "overrun"} =>
            req[p].cost <= seen'[req[p].wake].spent
      <4> SUFFICES ASSUME NEW p \in Requests \ {q}, req[p].at \in {"writing", "overrun"}
                   PROVE  req[p].cost <= seen'[req[p].wake].spent
        OBVIOUS
      <4> DEFINE v == req[p].wake
      <4>1. v \in Wakes /\ req[p].cost \in Nat /\ req[p].cost <= seen[v].spent /\
              seen[v].spent \in Nat /\ seen'[v].spent \in Nat
        BY <1>20, <2>2, MoneyAssumption DEF RequestSpends, Owned, RequestOK, RequestType, SeenOK,
           SeenType, ReportCost
      <4>2. seen[v].spent <= seen'[v].spent
        BY <3>1, <4>1
      <4> QED
        BY <4>1, <4>2
    <3>6. UNCHANGED wake
      BY <1>20 DEF ReportCost
    <3> QED
      BY <3>2, <3>3, <3>4, <3>5, <3>6 DEF RequestSpends, KeyOf
  <2>5. ChargedOnlyOwnSpend'
    <3>1. \A v \in Wakes : seen'[v].spent \in Nat /\ seen[v].spent <= seen'[v].spent
      BY <1>20, <2>2 DEF ReportCost, SeenOK, SeenType
    <3>2. \A v \in Wakes : seen[v].spent \in Nat /\ row[v].cost \in Nat
      BY DEF SeenOK, SeenType, DbOK, RowType
    <3> QED
      BY <1>20, <3>1, <3>2 DEF ReportCost, ChargedOnlyOwnSpend
  <2>6. StatusIsTruthful'
    BY <1>20, <2>1, <2>2 DEF ReportCost, Live, Idle, StatusIsTruthful, HandleOK, HandleType,
       RequestOK, RequestType, SeenOK, SeenType
  <2> QED
    BY <1>20, <2>1, <2>2, <2>3, <2>4, <2>5, <2>6 DEF ReportCost, OneWake, KeyOf, Kept,
       Leading, OutcomeIsTruthful
<1>21. ASSUME NEW q \in Requests, WriteTotals(q) PROVE Own'
  <2>1. req[q].wake \in Wakes /\ wake[req[q].wake].phase # "idle" /\ req[q].key = KeyOf(req[q].wake)
    BY <1>21 DEF WriteTotals, Owned, HasHandle, RequestSpends
  <2>2. \A v \in Wakes : row'[v] = row[v] \/ (v = req[q].wake /\
          row'[v] = [row[v] EXCEPT !.cost = req[q].cost])
    BY <1>21, <2>1, OwnRow DEF WriteTotals
  <2>3. \A v \in Wakes : row'[v].outcome = row[v].outcome
    BY <1>21, CostKeepsOutcome DEF WriteTotals
  <2>4. Kept'
    BY <1>21, <2>3 DEF WriteTotals, Kept
  <2>5. RequestSpends'
    BY <1>21, <2>1, <2>2, <2>3 DEF WriteTotals, NoRequest, RequestSpends, KeyOf, DbOK,
       RowType, RequestOK, RequestType
  <2>6. ChargedOnlyOwnSpend'
    BY <1>21, <2>2 DEF WriteTotals, ChargedOnlyOwnSpend, RequestSpends, DbOK, RowType
  <2>7. OutcomeIsTruthful'
    BY <1>21, <2>3 DEF WriteTotals, OutcomeIsTruthful
  <2> QED
    BY <1>21, <2>1, <2>2, <2>3, <2>4, <2>5, <2>6, <2>7 DEF WriteTotals, OneWake, KeyOf,
       Leading, HandleSpends, StatusIsTruthful
<1>22. ASSUME NEW q \in Requests, WriteOverrun(q) PROVE Own'
  <2>1. req[q].wake \in Wakes /\ wake[req[q].wake].phase # "idle" /\ req[q].key = KeyOf(req[q].wake)
    BY <1>22 DEF WriteOverrun, Owned, HasHandle, RequestSpends
  <2>2. \A v \in Wakes : row'[v] = row[v] \/ (v = req[q].wake /\
          row'[v] = [row[v] EXCEPT !.cost = req[q].cost])
    BY <1>22, <2>1, OwnRow DEF WriteOverrun
  <2>3. \A v \in Wakes : row'[v].outcome = row[v].outcome
    BY <1>22, CostKeepsOutcome DEF WriteOverrun
  <2>4. Kept'
    BY <1>22, <2>3 DEF WriteOverrun, Kept
  <2>5. RequestSpends'
    BY <1>22, <2>1, <2>2, <2>3 DEF WriteOverrun, RequestSpends, KeyOf, DbOK, RowType,
       RequestOK, RequestType
  <2>6. ChargedOnlyOwnSpend'
    BY <1>22, <2>2 DEF WriteOverrun, ChargedOnlyOwnSpend, RequestSpends, DbOK, RowType
  <2>7. OutcomeIsTruthful'
    BY <1>22, <2>3 DEF WriteOverrun, OutcomeIsTruthful
  <2> QED
    BY <1>22, <2>1, <2>2, <2>3, <2>4, <2>5, <2>6, <2>7 DEF WriteOverrun, OneWake, KeyOf,
       Leading, HandleSpends, StatusIsTruthful
<1>23. ASSUME NEW q \in Requests, EmitCapHalt(q) PROVE Own'
  <2>1. \A v \in Wakes : proc'[v].state = proc[v].state
    BY <1>23 DEF EmitCapHalt, Terminate, ProcOK, ProcType
  <2>2. RequestSpends'
    BY <1>23, <2>1 DEF EmitCapHalt, Terminate, NoRequest, RequestSpends, KeyOf, ProcOK,
       ProcType, RequestOK, RequestType
  <2>3. StatusIsTruthful'
    BY <1>23, <2>1 DEF EmitCapHalt, StatusIsTruthful
  <2>4. OutcomeIsTruthful'
    BY <1>23, <2>1 DEF EmitCapHalt, OutcomeIsTruthful
  <2> QED
    BY <1>23, <2>1, <2>2, <2>3, <2>4 DEF EmitCapHalt, OneWake, KeyOf, Kept, Leading,
       HandleSpends, ChargedOnlyOwnSpend
<1>24. ASSUME NEW q \in Requests, GraceEnds(q) PROVE Own'
  <2>1. RequestSpends'
    BY <1>24 DEF GraceEnds, NoRequest, RequestSpends, KeyOf, RequestOK, RequestType
  <2> QED
    BY <1>24, <2>1 DEF GraceEnds, OneWake, KeyOf, Kept, Leading, HandleSpends,
       ChargedOnlyOwnSpend, StatusIsTruthful, OutcomeIsTruthful
<1>25. ASSUME NEW q \in Requests, GraceExpires(q) PROVE Own'
  <2>1. RequestSpends'
    BY <1>25 DEF GraceExpires, NoRequest, Exited, RequestSpends, KeyOf, ProcOK, ProcType,
       RequestOK, RequestType
  <2>2. StatusIsTruthful'
    BY <1>25 DEF GraceExpires, NoRequest, Exited, StatusIsTruthful, ProcOK, ProcType,
       RequestOK, RequestType
  <2>3. OutcomeIsTruthful'
    BY <1>25 DEF GraceExpires, NoRequest, Exited, OutcomeIsTruthful, ProcOK, ProcType,
       RequestOK, RequestType
  <2> QED
    BY <1>25, <2>1, <2>2, <2>3 DEF GraceExpires, OneWake, KeyOf, Kept, Leading,
       HandleSpends, ChargedOnlyOwnSpend
<1>26. ASSUME NEW q \in Requests, NEW k \in Installs, DeleteLive(q, k) PROVE Own'
  <2>1. \A v \in Wakes : proc'[v].state = proc[v].state
    BY <1>26 DEF DeleteLive, Terminate, ProcOK, ProcType
  <2>2. RequestSpends'
    BY <1>26, <2>1 DEF DeleteLive, Terminate, NoRequest, RequestSpends, KeyOf, ProcOK,
       ProcType, RequestOK, RequestType
  <2>3. StatusIsTruthful'
    BY <1>26, <2>1 DEF DeleteLive, StatusIsTruthful
  <2>4. OutcomeIsTruthful'
    BY <1>26, <2>1 DEF DeleteLive, OutcomeIsTruthful
  <2> QED
    BY <1>26, <2>1, <2>2, <2>3, <2>4 DEF DeleteLive, OneWake, KeyOf, Kept, Leading,
       HandleSpends, ChargedOnlyOwnSpend
<1>27. ASSUME NEW q \in Requests, NEW k \in Installs, DeleteMiss(q, k) PROVE Own'
  <2>1. RequestSpends'
    BY <1>27 DEF DeleteMiss, RequestSpends, KeyOf, RequestOK, RequestType
  <2> QED
    BY <1>27, <2>1 DEF DeleteMiss, OneWake, KeyOf, Kept, Leading, HandleSpends,
       ChargedOnlyOwnSpend, StatusIsTruthful, OutcomeIsTruthful
<1>28. ASSUME NEW q \in Requests, ReadOrphan(q) PROVE Own'
  <2>1. RequestSpends'
    BY <1>28 DEF ReadOrphan, NoRequest, RequestSpends, KeyOf, RequestOK, RequestType
  <2> QED
    BY <1>28, <2>1 DEF ReadOrphan, OneWake, KeyOf, Kept, Leading, HandleSpends,
       ChargedOnlyOwnSpend, StatusIsTruthful, OutcomeIsTruthful
<1>29. ASSUME NEW q \in Requests, HaltOrphan(q) PROVE Own'
  <2>1. \A v \in Wakes : row'[v].cost = row[v].cost
    BY <1>29, OutcomeKeepsCost DEF HaltOrphan
  <2>2. Kept'
    BY <1>29 DEF HaltOrphan, LatestRowGets, IsLatest, Rows, Kept
  <2>3. RequestSpends'
    BY <1>29, <2>1 DEF HaltOrphan, LatestRowGets, NoRequest, RequestSpends, KeyOf, DbOK,
       RowType, RequestOK, RequestType
  <2>4. ChargedOnlyOwnSpend'
    BY <1>29, <2>1 DEF HaltOrphan, ChargedOnlyOwnSpend
  <2>5. OutcomeIsTruthful'
    BY <1>29, <2>1 DEF HaltOrphan, LatestRowGets, NoRequest, OutcomeIsTruthful, DbOK,
       RowType, RequestOK, RequestType
  <2> QED
    BY <1>29, <2>1, <2>2, <2>3, <2>4, <2>5 DEF HaltOrphan, OneWake, KeyOf, Leading,
       HandleSpends, StatusIsTruthful
<1>30. ASSUME NEW q \in Requests, RequestRaises(q) PROVE Own'
  <2>1. RequestSpends'
    BY <1>30 DEF RequestRaises, NoRequest, Raise, RequestSpends, KeyOf, RequestOK,
       RequestType, DaemonOK
  <2> QED
    BY <1>30, <2>1 DEF RequestRaises, OneWake, KeyOf, Kept, Leading, HandleSpends,
       ChargedOnlyOwnSpend, StatusIsTruthful, OutcomeIsTruthful
<1>31. ASSUME NEW k \in Installs, OpenStream(k) PROVE Own'
  BY <1>31 DEF OpenStream, OneWake, KeyOf, Kept, Leading, HandleSpends, RequestSpends,
     ChargedOnlyOwnSpend, StatusIsTruthful, OutcomeIsTruthful
<1>32. ASSUME NEW w \in Wakes, ReadStream(w) PROVE Own'
  <2>1. \A v \in Wakes : seen'[v].spent = seen[v].spent
    <3>1. seen' = [seen EXCEPT ![w].ended = TRUE] \/ seen' = [seen EXCEPT ![w].chunks = seen[w].chunks + 1]
      BY <1>32 DEF ReadStream
    <3> QED
      BY <3>1 DEF SeenOK, SeenType
  <2>2. HandleSpends'
    BY <1>32, <2>1 DEF ReadStream, HandleSpends, SeenOK, SeenType
  <2>3. RequestSpends'
    BY <1>32, <2>1 DEF ReadStream, RequestSpends, Owned, KeyOf
  <2>4. ChargedOnlyOwnSpend'
    BY <1>32, <2>1 DEF ReadStream, ChargedOnlyOwnSpend, SeenOK, SeenType
  <2> QED
    BY <1>32, <2>1, <2>2, <2>3, <2>4 DEF ReadStream, OneWake, KeyOf, Kept, Leading,
       StatusIsTruthful, OutcomeIsTruthful
<1>33. ASSUME NEW w \in Wakes, DropStream(w) PROVE Own'
  BY <1>33 DEF DropStream, OneWake, KeyOf, Kept, Leading, HandleSpends, RequestSpends,
     ChargedOnlyOwnSpend, StatusIsTruthful, OutcomeIsTruthful
<1>34. ASSUME Shutdown PROVE Own'
  <2>1. HandleSpends'
    BY <1>34 DEF Shutdown, Cancelled, Starting, HandleSpends, HandleOK, HandleType, DaemonOK
  <2>2. StatusIsTruthful'
    BY <1>34 DEF Shutdown, Cancelled, Starting, StatusIsTruthful, HandleOK, HandleType,
       DaemonOK
  <2> QED
    BY <1>34, <2>1, <2>2 DEF Shutdown, OneWake, KeyOf, Kept, Leading, RequestSpends,
       ChargedOnlyOwnSpend, OutcomeIsTruthful
<1>35. ASSUME Restart PROVE Own'
  <2>1. \A v \in Wakes : wake'[v].key = wake[v].key /\ (wake'[v].phase = "idle" <=> wake[v].phase = "idle")
    BY <1>35 DEF Restart, Forgotten, WakeOK, WakeType
  <2>2. OneWake'
    BY <2>1 DEF OneWake, KeyOf
  <2>3. Kept'
    BY <1>35, <2>1 DEF Restart, Kept
  <2>4. Leading'
    BY <1>35, <2>1 DEF Restart, Forgotten, Reaped, NoHandle, NoRequest, Leading, KeyOf,
       WakeOK, WakeType, DaemonOK, HandleOK, HandleType, ProcOK, ProcType, RequestOK,
       RequestType
  <2>5. HandleSpends'
    BY <1>35 DEF Restart, NoHandle, HandleSpends, SeenOK, SeenType
  <2>6. RequestSpends'
    BY <1>35, <2>1 DEF Restart, Forgotten, Reaped, NoHandle, NoRequest, RequestSpends,
       KeyOf, WakeOK, WakeType, DaemonOK, HandleOK, HandleType, ProcOK, ProcType, RequestOK,
       RequestType
  <2>7. StatusIsTruthful'
    BY <1>35, <2>1 DEF Restart, Forgotten, Reaped, NoHandle, NoRequest, StatusIsTruthful,
       WakeOK, WakeType, DaemonOK, HandleOK, HandleType, ProcOK, ProcType, RequestOK,
       RequestType
  <2>8. OutcomeIsTruthful'
    BY <1>35 DEF Restart, Reaped, OutcomeIsTruthful, ProcOK, ProcType
  <2> QED
    BY <1>35, <2>1, <2>2, <2>3, <2>4, <2>5, <2>6, <2>7, <2>8 DEF Restart,
       ChargedOnlyOwnSpend
<1>36. ASSUME UNCHANGED vars PROVE Own'
  BY <1>36 DEF vars, OneWake, KeyOf, Kept, Leading, HandleSpends, RequestSpends,
     ChargedOnlyOwnSpend, StatusIsTruthful, OutcomeIsTruthful
<1> QED
  BY <1>1, <1>2, <1>3, <1>4, <1>5, <1>6, <1>7, <1>8, <1>9, <1>10, <1>11, <1>12, <1>13,
     <1>14, <1>15, <1>16, <1>17, <1>18, <1>19, <1>20, <1>21, <1>22, <1>23, <1>24, <1>25,
     <1>26, <1>27, <1>28, <1>29, <1>30, <1>31, <1>32, <1>33, <1>34, <1>35, <1>36 DEF Next,
     Vault, Launch, Agent, Supervise, Serve, Raises

\* Nothing is written yet.
LEMMA OwnInitially == Init => Own
BY NoWakeIsNoWake DEF Init, Own, OneWake, Kept, Leading, HandleSpends, RequestSpends, ChargedOnlyOwnSpend,
   StatusIsTruthful, OutcomeIsTruthful, NoRow, NoHandle, NoRequest

\* Where an install is woken once, the figures of its row are its own run's: no row is charged
\* more than the samples its own process reported (ChargedOnlyOwnSpend).
THEOREM RowsAreChargedTheirRun == WakesPerInstall = 1 => (Spec => []ChargedOnlyOwnSpend)
<1> SUFFICES ASSUME WakesPerInstall = 1 PROVE Spec => []ChargedOnlyOwnSpend
  OBVIOUS
<1> DEFINE J == TypeOK /\ Links
<1>1. J /\ Own /\ [Next]_vars => Own'
  BY OwnStep
<1>2. Own => ChargedOnlyOwnSpend
  BY DEF Own
<1>3. Spec => []J
  BY Invariant, PTL
<1> QED
  BY <1>1, <1>2, <1>3, OwnInitially, PTL DEF Spec

\* Where an install is woken once, a row that says completed is of a process that ended with 0,
\* whatever was terminated, raised or restarted in between (OutcomeIsTruthful).
THEOREM OutcomesAreTruthful == WakesPerInstall = 1 => (Spec => []OutcomeIsTruthful)
<1> SUFFICES ASSUME WakesPerInstall = 1 PROVE Spec => []OutcomeIsTruthful
  OBVIOUS
<1> DEFINE J == TypeOK /\ Links
<1>1. J /\ Own /\ [Next]_vars => Own'
  BY OwnStep
<1>2. Own => OutcomeIsTruthful
  BY DEF Own
<1>3. Spec => []J
  BY Invariant, PTL
<1> QED
  BY <1>1, <1>2, <1>3, OwnInitially, PTL DEF Spec
=============================================================================
