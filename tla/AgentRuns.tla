------------------------------ MODULE AgentRuns ------------------------------
(***************************************************************************)
(* The run control plane of the agent daemon: POST, DELETE, cost report    *)
(* and SSE stream of /runs, the supervision of the agent's process, the    *)
(* /installs rows the runs hang from, and the daemon's own shutdown and    *)
(* restart.                                                                *)
(*                                                                         *)
(* One asyncio loop runs everything in the daemon, so the unit of          *)
(* interleaving is the stretch between two awaits: a handler is one action *)
(* per stretch, and `phase', `supervisor' and `at' say which await it is   *)
(* suspended in.  A wake is one POST /runs; wakes are numbered in the      *)
(* order of their started_at, and a wake's run id is its install's id      *)
(* (runs/launcher.py), so the wakes of an install share every key.         *)
(***************************************************************************)
EXTENDS Naturals, Sequences, FiniteSets

CONSTANTS
  Installs,         \* agent installs, and so run ids
  MaxWakes,         \* bound: POST /runs requests
  WakesPerInstall,  \* bound: POST /runs requests for one install
  Refuse,           \* the at-wake decision that is a refusal
  Decisions,        \* at-wake decisions: Refuse, or the reservation granted
  Requests,         \* concurrent cost and DELETE requests
  Samples,          \* what one cost sample may add
  MaxSpend,         \* bound: what the samples of one process add up to
  QueueCap,         \* TranscriptStream.maxsize
  MaxLines,         \* bound: lines one process prints
  MaxReaders,       \* bound: SSE readers of one run
  SettableStates,   \* states the vault sets on an install
  MaxStops,         \* bound: shutdowns and crashes of the daemon
  MaxFaults,        \* bound: exceptions out of the database, audit sink, spawn or pipe
  Patient           \* the vault awaits one answer, and one run's end, at a time

Wakes   == 1 .. MaxWakes
NoWake  == 0
InstallStates == {"inactive", "active", "paused", "cost_capped"}
Outcomes      == {"completed", "halted", "errored"}

ASSUME BoundsAssumption ==
  /\ MaxWakes \in Nat /\ WakesPerInstall \in Nat /\ MaxSpend \in Nat
  /\ QueueCap \in Nat \ {0} /\ MaxLines \in Nat /\ MaxReaders \in Nat
  /\ MaxStops \in Nat /\ MaxFaults \in Nat
  /\ Patient \in BOOLEAN
ASSUME MoneyAssumption ==
  /\ Samples \subseteq Nat \ {0}
  /\ Decisions \subseteq Nat \cup {Refuse}
  /\ Refuse \notin Nat
ASSUME StatesAssumption == SettableStates \subseteq InstallStates

VARIABLES
  install,   \* agent_install rows: state, or not yet there, or deleted
  row,       \* agent_run rows, by the wake that wrote them
  wake,      \* POST /runs: where the handler is, install, reservation
  session,   \* wakes whose MCP session is registered
  registry,  \* RunRegistry: run id -> wake of the handle registered last
  handle,    \* RunHandle: status, accumulated cost, supervise() task, a pump that raised
  queue,     \* TranscriptStream of each handle
  readers,   \* SSE readers attached to each handle
  proc,      \* the agent's process
  req,       \* cost and DELETE requests in flight
  seen,      \* history: what clients of each wake were told
  up,        \* the daemon accepts requests (not shutting down)
  stops, faults

vars == <<install, row, wake, session, registry, handle, queue, readers, proc,
          req, seen, up, stops, faults>>

NoRow     == [outcome |-> "none", cost |-> 0]
NoHandle  == [status |-> "none", cost |-> 0, snap |-> 0, supervisor |-> "none", broken |-> FALSE]
NoRequest == [at |-> "idle", wake |-> NoWake, key |-> "none", cost |-> 0]

-----------------------------------------------------------------------------
(* What the code asks of its state.                                        *)

Exists(k)    == install[k] \in InstallStates
KeyOf(w)     == wake[w].key
Exited(w)    == proc[w].state \in {"zero", "nonzero"}
Rows(k)      == {w \in Wakes : row[w].outcome # "none" /\ KeyOf(w) = k}
QueueFull(w) == Len(queue[w]) >= QueueCap

\* Variant: ORDER BY started_at ASC.
IsOldest(w, k) == w \in Rows(k) /\ \A v \in Rows(k) : v >= w

\* ORDER BY started_at DESC LIMIT 1 over the rows of a run key.
IsLatest(w, k) == w \in Rows(k) /\ \A v \in Rows(k) : v <= w

LatestRowGets(k, field, value) ==
  row' = [w \in Wakes |-> IF IsLatest(w, k)
                          THEN [row[w] EXCEPT ![field] = value] ELSE row[w]]

\* An exception out of an await that does I/O.
Raise == faults < MaxFaults /\ faults' = faults + 1

Starting(w) == wake[w].phase \in {"planned", "checked", "recorded", "spawned"}
Over(w)     == wake[w].phase \in {"refused", "rejected", "failed", "lost"}
               \/ handle[w].supervisor \in {"done", "abandoned"}

-----------------------------------------------------------------------------
(* /installs.  A deleted install never comes back: its id is a fresh UUID. *)

CreateInstall(k) ==
  /\ up /\ install[k] = "absent"
  /\ install' = [install EXCEPT ![k] = "inactive"]
  /\ UNCHANGED <<row, wake, session, registry, handle, queue, readers, proc,
                 req, seen, up, stops, faults>>

UpdateInstallState(k, s) ==
  /\ up /\ Exists(k)
  /\ install' = [install EXCEPT ![k] = s]
  /\ UNCHANGED <<row, wake, session, registry, handle, queue, readers, proc,
                 req, seen, up, stops, faults>>

\* The agent_run rows go with it (ON DELETE CASCADE); a live run does not.
DeleteInstall(k) ==
  /\ up /\ Exists(k)
  /\ install' = [install EXCEPT ![k] = "deleted"]
  /\ row' = [w \in Wakes |-> IF KeyOf(w) = k THEN NoRow ELSE row[w]]
  /\ UNCHANGED <<wake, session, registry, handle, queue, readers, proc, req,
                 seen, up, stops, faults>>

-----------------------------------------------------------------------------
(* POST /runs: start_run, up to the 202.                                   *)

\* What a patient vault waits for before the next POST on an install.
Quiet(k) == /\ \A w \in Wakes : KeyOf(w) = k => Over(w)
            /\ \A q \in Requests : req[q].key # k

\* plan_launch: evaluate_cap decides on the figures of the request body, and
\* an allowed wake gets its MCP session.  The install's state is not read.
PlanLaunch(w, k, d) ==
  /\ up /\ wake[w].phase = "idle" /\ \A v \in 1 .. (w - 1) : wake[v].phase # "idle"
  /\ Cardinality({v \in Wakes : KeyOf(v) = k}) < WakesPerInstall
  /\ Patient => Quiet(k)
  /\ IF d = Refuse
     THEN /\ wake' = [wake EXCEPT ![w] = [phase |-> "refused", key |-> k, reserved |-> 0]]
          /\ UNCHANGED session
     ELSE /\ wake' = [wake EXCEPT ![w] = [phase |-> "planned", key |-> k, reserved |-> d]]
          /\ session' = session \cup {w}
  /\ UNCHANGED <<install, row, registry, handle, queue, readers, proc, req,
                 seen, up, stops, faults>>

\* Variant: the 400 leaves the session registered.
CheckInstallKeepsSession(w) ==
  /\ wake[w].phase = "planned"
  /\ wake' = [wake EXCEPT ![w].phase = IF Exists(KeyOf(w)) THEN "checked" ELSE "rejected"]
  /\ UNCHANGED <<install, row, session, registry, handle, queue, readers, proc,
                 req, seen, up, stops, faults>>

\* record_start reads the install; an unknown one is a 400 and drops the session.
CheckInstall(w) ==
  /\ wake[w].phase = "planned"
  /\ IF Exists(KeyOf(w))
     THEN wake' = [wake EXCEPT ![w].phase = "checked"] /\ UNCHANGED session
     ELSE wake' = [wake EXCEPT ![w].phase = "rejected"] /\ session' = session \ {w}
  /\ UNCHANGED <<install, row, registry, handle, queue, readers, proc, req,
                 seen, up, stops, faults>>

\* record_start writes the row.  The foreign key refuses it when the install
\* went away meanwhile: an IntegrityError, which the handler does not catch.
InsertRow(w) ==
  /\ wake[w].phase = "checked"
  /\ IF Exists(KeyOf(w))
     THEN /\ row' = [row EXCEPT ![w] = [outcome |-> "running", cost |-> 0]]
          /\ wake' = [wake EXCEPT ![w].phase = "recorded"]
     ELSE wake' = [wake EXCEPT ![w].phase = "failed"] /\ UNCHANGED row
  /\ UNCHANGED <<install, session, registry, handle, queue, readers, proc, req,
                 seen, up, stops, faults>>

\* Variant: execute_run does not wait for record_start.
AccountedSoon(w) == wake[w].phase \in {"planned", "checked", "recorded"}

Accounted(w) == wake[w].phase = "recorded"

\* Variant: a run id keeps the handle it got first.
SpawnKeepsFirst(w) ==
  /\ Accounted(w)
  /\ proc' = [proc EXCEPT ![w].state = "running"]
  /\ handle' = [handle EXCEPT ![w].status = "running"]
  /\ registry' = [registry EXCEPT ![KeyOf(w)] = IF @ = NoWake THEN w ELSE @]
  /\ wake' = [wake EXCEPT ![w].phase = "spawned"]
  /\ UNCHANGED <<install, row, session, queue, readers, req, seen, up, stops, faults>>

\* execute_run: the process starts, its handle replaces the key's last one.
Spawn(w) ==
  /\ Accounted(w)
  /\ proc' = [proc EXCEPT ![w].state = "running"]
  /\ handle' = [handle EXCEPT ![w].status = "running"]
  /\ registry' = [registry EXCEPT ![KeyOf(w)] = w]
  /\ wake' = [wake EXCEPT ![w].phase = "spawned"]
  /\ UNCHANGED <<install, row, session, queue, readers, req, seen, up, stops, faults>>

\* RUN_STARTED is audited, then the supervisor and its pumps are scheduled.
EmitRunStarted(w) ==
  /\ wake[w].phase = "spawned"
  /\ handle' = [handle EXCEPT ![w].supervisor = "waiting"]
  /\ wake' = [wake EXCEPT ![w].phase = "launched"]
  /\ UNCHANGED <<install, row, session, registry, queue, readers, proc, req,
                 seen, up, stops, faults>>

\* Any exception but record_start's ValueError: what was done stays done, and
\* past Spawn the process goes on with nobody supervising it.
StartRaises(w) ==
  /\ Starting(w) /\ Raise
  /\ wake' = [wake EXCEPT ![w].phase = "failed"]
  /\ UNCHANGED <<install, row, session, registry, handle, queue, readers, proc,
                 req, seen, up, stops>>

-----------------------------------------------------------------------------
(* The agent's process and supervise().                                    *)

WriteLine(w) ==
  /\ proc[w].state = "running" /\ proc[w].lines < MaxLines
  /\ proc' = [proc EXCEPT ![w].pipe = @ + 1, ![w].lines = @ + 1]
  /\ UNCHANGED <<install, row, wake, session, registry, handle, queue, readers,
                 req, seen, up, stops, faults>>

\* It ends by itself, or on a SIGTERM it does not ignore.
ExitProcess(w, code) ==
  /\ proc[w].state = "running"
  /\ proc' = [proc EXCEPT ![w].state = code]
  /\ UNCHANGED <<install, row, wake, session, registry, handle, queue, readers,
                 req, seen, up, stops, faults>>

\* stdout and stderr are counted together.  When the pump of one has raised,
\* the other's lines still get through, also after supervise is past them.
Pumping(w) == handle[w].supervisor = "waiting" \/ (handle[w].broken /\ up)

\* _pump: transcript.write blocks while the queue is full; the line then
\* counts as still in the pipe.
Pump(w) ==
  /\ Pumping(w) /\ proc[w].pipe > 0 /\ ~QueueFull(w)
  /\ proc' = [proc EXCEPT ![w].pipe = @ - 1]
  /\ queue' = [queue EXCEPT ![w] = Append(@, "chunk")]
  /\ UNCHANGED <<install, row, wake, session, registry, handle, readers, req,
                 seen, up, stops, faults>>

\* readline() raises on a line beyond its limit, and that pump is over.
PumpRaises(w) ==
  /\ handle[w].supervisor = "waiting" /\ proc[w].pipe > 0 /\ Raise
  /\ proc' = [proc EXCEPT ![w].pipe = @ - 1]
  /\ handle' = [handle EXCEPT ![w].broken = TRUE]
  /\ UNCHANGED <<install, row, wake, session, registry, queue, readers, req,
                 seen, up, stops>>

\* Variants: the pumps are not awaited, the process is not awaited, and the
\* transcript is awaited until it has been read.
RunEndedAtExit(w) == Exited(w)
RunEndedAtEof(w)  == proc[w].pipe = 0
RunEndedOnceRead(w) == Exited(w) /\ proc[w].pipe = 0 /\ queue[w] = <<>>

\* process.wait() has returned, and both pumps have met end of file or raised.
RunEnded(w) == Exited(w) /\ (proc[w].pipe = 0 \/ handle[w].broken)

\* Variants: the return code stands for the status, and an agent brought down
\* on request has completed.
ExitCode(w) == proc[w].state
StatusOnRequest(w) == IF proc[w].state = "zero" \/ proc[w].signalled THEN "completed" ELSE "errored"

ExitStatus(w) == IF proc[w].state = "zero" THEN "completed" ELSE "errored"

\* From the last pump to transcript.close(): status, and the MCP session.  The
\* exception of a pump comes out of its await and leaves the status running.
FinishRun(w) ==
  /\ handle[w].supervisor = "waiting" /\ RunEnded(w)
  /\ handle' = [handle EXCEPT ![w].status = IF handle[w].broken THEN @ ELSE ExitStatus(w),
                              ![w].supervisor = "closing"]
  /\ session' = session \ {w}
  /\ UNCHANGED <<install, row, wake, registry, queue, readers, proc, req, seen,
                 up, stops, faults>>

\* transcript.close() blocks while the queue is full, like any write.
CloseTranscript(w) ==
  /\ handle[w].supervisor = "closing" /\ ~QueueFull(w)
  /\ queue' = [queue EXCEPT ![w] = Append(@, "end")]
  /\ handle' = [handle EXCEPT ![w].supervisor = "emitting"]
  /\ UNCHANGED <<install, row, wake, session, registry, readers, proc, req,
                 seen, up, stops, faults>>

\* The terminal event is audited; persist_terminal reads the totals it will
\* write.  Without a terminal status there is neither.
EmitTerminal(w) ==
  /\ handle[w].supervisor = "emitting"
  /\ handle' = [handle EXCEPT
       ![w].supervisor = IF handle[w].status \in Outcomes THEN "costing" ELSE "done",
       ![w].snap = handle[w].cost]
  /\ UNCHANGED <<install, row, wake, session, registry, queue, readers, proc,
                 req, seen, up, stops, faults>>

\* Variant: the totals are added to what the reports had already written.
PersistCostAgain(w) ==
  /\ handle[w].supervisor = "costing"
  /\ LatestRowGets(KeyOf(w), "cost", row[w].cost + handle[w].snap)
  /\ handle' = [handle EXCEPT ![w].supervisor = "settling"]
  /\ UNCHANGED <<install, wake, session, registry, queue, readers, proc, req,
                 seen, up, stops, faults>>

\* persist_terminal's two writes, each to the latest row of the key.
PersistCost(w) ==
  /\ handle[w].supervisor = "costing"
  /\ LatestRowGets(KeyOf(w), "cost", handle[w].snap)
  /\ handle' = [handle EXCEPT ![w].supervisor = "settling"]
  /\ UNCHANGED <<install, wake, session, registry, queue, readers, proc, req,
                 seen, up, stops, faults>>

PersistOutcome(w) ==
  /\ handle[w].supervisor = "settling"
  /\ LatestRowGets(KeyOf(w), "outcome", handle[w].status)
  /\ handle' = [handle EXCEPT ![w].supervisor = "done"]
  /\ UNCHANGED <<install, wake, session, registry, queue, readers, proc, req,
                 seen, up, stops, faults>>

\* A raising audit sink ends the task before on_terminal; an exception of
\* on_terminal is swallowed.  Either way the row keeps what it had.
SuperviseRaises(w) ==
  /\ handle[w].supervisor \in {"emitting", "costing", "settling"} /\ Raise
  /\ handle' = [handle EXCEPT ![w].supervisor = "abandoned"]
  /\ UNCHANGED <<install, row, wake, session, registry, queue, readers, proc,
                 req, seen, up, stops>>

-----------------------------------------------------------------------------
(* POST /runs/{id}/cost and DELETE /runs/{id}.                             *)

Idle(q) == req[q].at = "idle"

\* A key's live handle, which is the one registered last.
Live(k) == registry[k] # NoWake

\* Variant: the sample is judged by the total before it.
OverrunBefore(w, spent) == handle[w].cost > wake[w].reserved

Overrun(w, spent) == spent > wake[w].reserved

\* The wrapper of process o reports; the sample lands on whatever handle the
\* run id leads to.  record() has added it by the time it raises.
ReportCost(q, o, amount) ==
  LET k == KeyOf(o)
      w == registry[k]
      spent == handle[w].cost + amount
  IN /\ up /\ Idle(q) /\ proc[o].state # "none" /\ Live(k)
     /\ seen[o].spent + amount <= MaxSpend
     /\ handle' = [handle EXCEPT ![w].cost = spent]
     /\ req' = [req EXCEPT ![q] = [at |-> IF Overrun(w, spent) THEN "overrun" ELSE "writing",
                                   wake |-> w, key |-> k, cost |-> spent]]
     /\ seen' = [seen EXCEPT ![o].spent = @ + amount]
     /\ UNCHANGED <<install, row, wake, session, registry, queue, readers, proc,
                    up, stops, faults>>

\* The totals of the moment of the call reach the row; then the 200.
WriteTotals(q) ==
  /\ req[q].at = "writing"
  /\ LatestRowGets(req[q].key, "cost", req[q].cost)
  /\ req' = [req EXCEPT ![q] = NoRequest]
  /\ UNCHANGED <<install, wake, session, registry, handle, queue, readers, proc,
                 seen, up, stops, faults>>

WriteOverrun(q) ==
  /\ req[q].at = "overrun"
  /\ LatestRowGets(req[q].key, "cost", req[q].cost)
  /\ req' = [req EXCEPT ![q].at = "auditing"]
  /\ UNCHANGED <<install, wake, session, registry, handle, queue, readers, proc,
                 seen, up, stops, faults>>

\* RunHandle.terminate, to its wait: nothing to do once the return code is in.
Terminate(q, w) ==
  IF Exited(w)
  THEN req' = [req EXCEPT ![q] = NoRequest] /\ UNCHANGED proc
  ELSE /\ proc' = [proc EXCEPT ![w].signalled = TRUE]
       /\ req' = [req EXCEPT ![q] = [at |-> "grace", wake |-> w, key |-> KeyOf(w), cost |-> 0]]

EmitCapHalt(q) ==
  /\ req[q].at = "auditing"
  /\ Terminate(q, req[q].wake)
  /\ UNCHANGED <<install, row, wake, session, registry, handle, queue, readers,
                 seen, up, stops, faults>>

GraceEnds(q) ==
  /\ req[q].at = "grace" /\ Exited(req[q].wake)
  /\ req' = [req EXCEPT ![q] = NoRequest]
  /\ UNCHANGED <<install, row, wake, session, registry, handle, queue, readers,
                 proc, seen, up, stops, faults>>

\* Variants: the grace period ends without SIGKILL, or starts again.
GraceGivesUp(q) ==
  /\ req[q].at = "grace" /\ ~Exited(req[q].wake)
  /\ req' = [req EXCEPT ![q] = NoRequest]
  /\ UNCHANGED <<install, row, wake, session, registry, handle, queue, readers,
                 proc, seen, up, stops, faults>>
GraceStartsAgain(q) ==
  /\ req[q].at = "grace" /\ ~Exited(req[q].wake)
  /\ proc' = [proc EXCEPT ![req[q].wake].signalled = TRUE]
  /\ UNCHANGED <<install, row, wake, session, registry, handle, queue, readers,
                 req, seen, up, stops, faults>>

\* Five seconds are over: SIGKILL.
GraceExpires(q) ==
  /\ req[q].at = "grace" /\ ~Exited(req[q].wake)
  /\ proc' = [proc EXCEPT ![req[q].wake].state = "nonzero"]
  /\ req' = [req EXCEPT ![q] = NoRequest]
  /\ UNCHANGED <<install, row, wake, session, registry, handle, queue, readers,
                 seen, up, stops, faults>>

\* What a patient vault waits for before a DELETE.
Answered(k) == \A w \in Wakes : KeyOf(w) = k => ~Starting(w)

DeleteLive(q, k) ==
  /\ up /\ Idle(q) /\ Live(k) /\ (Patient => Answered(k))
  /\ Terminate(q, registry[k])
  /\ UNCHANGED <<install, row, wake, session, registry, handle, queue, readers,
                 seen, up, stops, faults>>

\* No handle: the run belongs to an earlier daemon, and its row is read ...
DeleteMiss(q, k) ==
  /\ up /\ Idle(q) /\ ~Live(k) /\ (Patient => Answered(k))
  /\ req' = [req EXCEPT ![q] = [at |-> "looking", wake |-> NoWake, key |-> k, cost |-> 0]]
  /\ UNCHANGED <<install, row, wake, session, registry, handle, queue, readers,
                 proc, seen, up, stops, faults>>

\* Variant: whatever the outcome of the row.
OrphanedAnyhow(k) == Rows(k) # {}

Orphaned(k) == \E w \in Rows(k) : IsLatest(w, k) /\ row[w].outcome = "running"

ReadOrphan(q) ==
  /\ req[q].at = "looking"
  /\ req' = [req EXCEPT ![q] = IF Orphaned(req[q].key) THEN [@ EXCEPT !.at = "halting"]
                                                       ELSE NoRequest]
  /\ UNCHANGED <<install, row, wake, session, registry, handle, queue, readers,
                 proc, seen, up, stops, faults>>

\* ... and if it was running, the latest row of the key is marked halted.
HaltOrphan(q) ==
  /\ req[q].at = "halting"
  /\ LatestRowGets(req[q].key, "outcome", "halted")
  /\ req' = [req EXCEPT ![q] = NoRequest]
  /\ UNCHANGED <<install, wake, session, registry, handle, queue, readers, proc,
                 seen, up, stops, faults>>

\* A 500 out of a write, a read or the audit of the cap halt.
RequestRaises(q) ==
  /\ req[q].at \in {"writing", "overrun", "auditing", "looking", "halting"} /\ Raise
  /\ req' = [req EXCEPT ![q] = NoRequest]
  /\ UNCHANGED <<install, row, wake, session, registry, handle, queue, readers,
                 proc, seen, up, stops>>

-----------------------------------------------------------------------------
(* GET /runs/{id}/stream.  Every reader takes from the same queue.         *)

OpenStream(k) ==
  /\ up /\ Live(k) /\ readers[registry[k]] < MaxReaders
  /\ readers' = [readers EXCEPT ![registry[k]] = @ + 1]
  /\ UNCHANGED <<install, row, wake, session, registry, handle, queue, proc, req,
                 seen, up, stops, faults>>

ReadStream(w) ==
  /\ readers[w] > 0 /\ queue[w] # <<>>
  /\ queue' = [queue EXCEPT ![w] = Tail(@)]
  /\ IF Head(queue[w]) = "end"
     THEN /\ readers' = [readers EXCEPT ![w] = @ - 1]
          /\ seen' = [seen EXCEPT ![w].ended = TRUE]
     ELSE seen' = [seen EXCEPT ![w].chunks = @ + 1] /\ UNCHANGED readers
  /\ UNCHANGED <<install, row, wake, session, registry, handle, proc, req, up,
                 stops, faults>>

DropStream(w) ==
  /\ readers[w] > 0
  /\ readers' = [readers EXCEPT ![w] = @ - 1]
  /\ UNCHANGED <<install, row, wake, session, registry, handle, queue, proc, req,
                 seen, up, stops, faults>>

-----------------------------------------------------------------------------
(* The daemon stops and comes back.                                        *)

\* Shutdown, once the server has no request left: the loop cancels the tasks.
\* A run being watched becomes halted and goes through supervise's finally; a
\* task already there is cut off at its await.
Cancelled(w) ==
  CASE handle[w].supervisor = "waiting"
         -> [handle[w] EXCEPT !.status = "halted", !.supervisor = "closing"]
    [] handle[w].supervisor \in {"closing", "emitting", "costing", "settling"}
         -> [handle[w] EXCEPT !.supervisor = "abandoned"]
    [] OTHER -> handle[w]

Shutdown ==
  /\ up /\ stops < MaxStops
  /\ \A q \in Requests : Idle(q)
  /\ \A w \in Wakes : ~Starting(w) /\ readers[w] = 0
  /\ up' = FALSE
  /\ stops' = stops + 1
  /\ handle' = [w \in Wakes |-> Cancelled(w)]
  /\ session' = {w \in session : handle[w].supervisor # "waiting"}
  /\ UNCHANGED <<install, row, wake, registry, queue, readers, proc, req, seen, faults>>

\* What a restart leaves of a handler that had no answer yet, and of an agent,
\* which goes down with the daemon (one control group).
Forgotten(w) == IF wake[w].phase \in {"idle", "refused", "rejected"}
                THEN wake[w] ELSE [wake[w] EXCEPT !.phase = "lost"]
Reaped(w) == [proc[w] EXCEPT !.state = IF @ = "running" THEN "nonzero" ELSE @, !.pipe = 0]

\* The daemon is gone, killed or out of its loop, and starts again with nothing
\* but its database.  Nothing happens in between, so this is one step.
Restart ==
  /\ IF up THEN stops < MaxStops /\ stops' = stops + 1 ELSE UNCHANGED stops
  /\ up' = TRUE
  /\ wake' = [w \in Wakes |-> Forgotten(w)]
  /\ session' = {}
  /\ registry' = [k \in Installs |-> NoWake]
  /\ handle' = [w \in Wakes |-> NoHandle]
  /\ queue' = [w \in Wakes |-> <<>>]
  /\ readers' = [w \in Wakes |-> 0]
  /\ proc' = [w \in Wakes |-> Reaped(w)]
  /\ req' = [q \in Requests |-> NoRequest]
  /\ UNCHANGED <<install, row, seen, faults>>

-----------------------------------------------------------------------------
Init ==
  /\ install = [k \in Installs |-> "absent"]
  /\ row = [w \in Wakes |-> NoRow]
  /\ wake = [w \in Wakes |-> [phase |-> "idle", key |-> "none", reserved |-> 0]]
  /\ session = {}
  /\ registry = [k \in Installs |-> NoWake]
  /\ handle = [w \in Wakes |-> NoHandle]
  /\ queue = [w \in Wakes |-> <<>>]
  /\ readers = [w \in Wakes |-> 0]
  /\ proc = [w \in Wakes |-> [state |-> "none", signalled |-> FALSE, pipe |-> 0, lines |-> 0]]
  /\ req = [q \in Requests |-> NoRequest]
  /\ seen = [w \in Wakes |-> [spent |-> 0, chunks |-> 0, ended |-> FALSE]]
  /\ up = TRUE /\ stops = 0 /\ faults = 0

Vault == \E k \in Installs :
  \/ CreateInstall(k) \/ DeleteInstall(k) \/ OpenStream(k)
  \/ \E s \in SettableStates : UpdateInstallState(k, s)
  \/ \E w \in Wakes, d \in Decisions : PlanLaunch(w, k, d)
  \/ \E q \in Requests : DeleteLive(q, k) \/ DeleteMiss(q, k)

Launch(w) == CheckInstall(w) \/ InsertRow(w) \/ Spawn(w) \/ EmitRunStarted(w)

Agent(w) == \/ WriteLine(w) \/ ExitProcess(w, "zero") \/ ExitProcess(w, "nonzero")
            \/ \E q \in Requests, amount \in Samples : ReportCost(q, w, amount)

Supervise(w) == \/ Pump(w) \/ FinishRun(w) \/ CloseTranscript(w)
                \/ EmitTerminal(w) \/ PersistCost(w) \/ PersistOutcome(w)

Serve(q) == \/ WriteTotals(q) \/ WriteOverrun(q) \/ EmitCapHalt(q) \/ GraceEnds(q)
            \/ GraceExpires(q) \/ ReadOrphan(q) \/ HaltOrphan(q)

Raises == \/ \E w \in Wakes : StartRaises(w) \/ PumpRaises(w) \/ SuperviseRaises(w)
          \/ \E q \in Requests : RequestRaises(q)

Next == \/ Vault
        \/ \E w \in Wakes : Launch(w) \/ Agent(w) \/ Supervise(w)
        \/ \E w \in Wakes : ReadStream(w) \/ DropStream(w)
        \/ \E q \in Requests : Serve(q)
        \/ Raises \/ Shutdown \/ Restart

Spec == Init /\ [][Next]_vars

\* The event loop runs what is ready, a reader that stays reads on, and a
\* daemon told to stop is gone within systemd's stop timeout.  No agent need
\* end by itself, no client need come, and a full queue is nobody's duty.
Fairness ==
  /\ \A w \in Wakes : WF_vars(Launch(w)) /\ WF_vars(Supervise(w)) /\ WF_vars(ReadStream(w))
  /\ \A q \in Requests : WF_vars(Serve(q))
  /\ WF_vars(~up /\ Restart)

FairSpec == Spec /\ Fairness

-----------------------------------------------------------------------------
(* What should be true of it.                                              *)

Running(w) == proc[w].state = "running"

RowType     == [outcome : {"none", "running"} \cup Outcomes, cost : Nat]
WakeType    == [phase : {"idle", "planned", "checked", "recorded", "spawned", "launched",
                         "refused", "rejected", "failed", "lost"},
                key : Installs \cup {"none"}, reserved : Nat]
HandleType  == [status : {"none", "running"} \cup Outcomes, cost : Nat, snap : Nat,
                supervisor : {"none", "waiting", "closing", "emitting", "costing",
                              "settling", "done", "abandoned"}, broken : BOOLEAN]
ProcType    == [state : {"none", "running", "zero", "nonzero"}, signalled : BOOLEAN,
                pipe : Nat, lines : Nat]
RequestType == [at : {"idle", "writing", "overrun", "auditing", "grace", "looking", "halting"},
                wake : Wakes \cup {NoWake}, key : Installs \cup {"none"}, cost : Nat]
SeenType    == [spent : Nat, chunks : Nat, ended : BOOLEAN]

DbOK      == /\ install \in [Installs -> InstallStates \cup {"absent", "deleted"}]
             /\ row \in [Wakes -> RowType]
WakeOK    == wake \in [Wakes -> WakeType]
HandleOK  == handle \in [Wakes -> HandleType]
StreamOK  == queue \in [Wakes -> Seq({"chunk", "end"})] /\ readers \in [Wakes -> Nat]
ProcOK    == proc \in [Wakes -> ProcType]
RequestOK == req \in [Requests -> RequestType]
SeenOK    == seen \in [Wakes -> SeenType]
DaemonOK  == /\ session \subseteq Wakes /\ registry \in [Installs -> Wakes \cup {NoWake}]
             /\ up \in BOOLEAN /\ stops \in Nat /\ faults \in Nat

TypeOK == /\ DbOK /\ WakeOK /\ HandleOK /\ StreamOK
          /\ ProcOK /\ RequestOK /\ SeenOK /\ DaemonOK

\* "A run the daemon cannot account for is a run that must not wake": a live
\* process has its agent_run row, unless its install was deleted under it.
AccountedBeforeWake ==
  \A w \in Wakes : Running(w) => row[w].outcome # "none" \/ install[KeyOf(w)] = "deleted"

\* The bearer token lives exactly as long as the run: a live agent can always
\* call its MCP session, and no refused, rejected or ended run keeps one.
SessionScope ==
  \A w \in Wakes :
    /\ Running(w) /\ up => w \in session
    /\ w \in session => /\ wake[w].phase \notin {"idle", "refused", "rejected", "lost"}
                        /\ handle[w].status \notin Outcomes

\* A reader that was told the stream ended: every line the agent printed had
\* been handed to some reader first, unless one was beyond readline's limit.
TranscriptComplete ==
  faults = 0 => \A w \in Wakes : seen[w].ended => seen[w].chunks = proc[w].lines

\* A live run beyond its reservation has been signalled, or the request that
\* found out is on its way to signal it.
OverrunIsHalting ==
  faults = 0 => \A w \in Wakes :
    Running(w) /\ up /\ handle[w].cost > wake[w].reserved =>
      proc[w].signalled \/ \E q \in Requests : req[q].at \in {"overrun", "auditing"}
                                               /\ req[q].wake = w

\* With no exception out of the database, the sink or the spawn, every live
\* process has a handler or a supervisor that will see it end.
NoRunUnsupervised ==
  faults = 0 => \A w \in Wakes :
    Running(w) => wake[w].phase = "spawned" \/ handle[w].supervisor = "waiting" \/ ~up

\* No row is charged more than its own process spent (one wake per install).
ChargedOnlyOwnSpend ==
  \A w \in Wakes : row[w].cost <= seen[w].spent

\* The control plane's grip on a running agent: the run id of a launched live
\* run leads to its own handle, so DELETE and cost reports reach it.
EveryRunIsGripped ==
  \A w \in Wakes : wake[w].phase = "launched" /\ Running(w) /\ up => registry[KeyOf(w)] = w

\* A row says completed only of a process that ended with 0, whatever raised,
\* was terminated or restarted in between (one wake per install).
OutcomeIsTruthful ==
  \A w \in Wakes : row[w].outcome = "completed" => proc[w].state = "zero"

\* The outcome of every run is settled by its own supervisor: once that is
\* done, the run's row, if its install still has one, is no longer running.
DoneMeansSettled ==
  faults = 0 => \A w \in Wakes : handle[w].supervisor = "done" => row[w].outcome # "running"

\* The ledger's view of a wake: an install that is deleted takes its rows along.
LedgerOutcome(w) ==
  IF row[w].outcome = "none" /\ wake[w].phase # "idle" /\ install[KeyOf(w)] = "deleted"
  THEN "erased" ELSE row[w].outcome

LedgerLife(w) == CASE proc[w].state = "none" -> "unborn"
                   [] Running(w) /\ up      -> "alive"
                   [] OTHER                 -> "dead"

Ledger == INSTANCE RunLedger WITH
  Runs    <- Wakes,
  outcome <- [w \in Wakes |-> LedgerOutcome(w)],
  life    <- [w \in Wakes |-> LedgerLife(w)]

\* A run is recorded before it wakes, wakes once, is settled only when its
\* process is gone, and settled for good: start_run, supervise and the orphan
\* clean-up of DELETE implement the ledger for a vault that awaits its answers.
ImplementsLedger == Ledger!Spec

\* Subprocess exit, for any reason, ends the stream, drops the MCP session and
\* gets supervise() to its end.
ExitIsHandled ==
  \A w \in Wakes : Exited(w) /\ handle[w].supervisor = "waiting" ~>
                     w \notin session /\ handle[w].supervisor \in {"done", "abandoned", "none"}

\* A run beyond its reservation is brought down.
OverrunIsStopped ==
  \A w \in Wakes : handle[w].cost > wake[w].reserved ~> Exited(w)

\* Every accepted cost report or DELETE is answered.
RequestsAnswered ==
  \A q \in Requests : ~Idle(q) ~> Idle(q)
=============================================================================
