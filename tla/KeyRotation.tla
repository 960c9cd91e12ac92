------------------------------ MODULE KeyRotation ------------------------------
(***************************************************************************)
(* Rotation of a vault's Mode A data key: the endpoint that makes a new    *)
(* active key, and the Celery sweep that re-encrypts what is under the     *)
(* others, a batch per transaction, while owners go on writing.  Nothing   *)
(* locks: the endpoint checks and then inserts, the sweep reads a batch    *)
(* and later writes it back by primary key.                                *)
(*                                                                         *)
(* Keys are numbered in the order they are committed.  The progress        *)
(* counters and the audit trail are left out.  Who writes Mode A content   *)
(* is outside the code; Mode B is what the sealing endpoints store.        *)
(***************************************************************************)
EXTENDS Naturals, Sequences, FiniteSets

CONSTANTS
  Rows,          \* rows with an encrypted_payload
  Table,         \* the sweep target each row belongs to
  Tables,        \* how many targets there are
  BatchSize,
  Starters,      \* POST /keys/rotate requests
  Workers,       \* executions of the sweep task
  MaxRotations,  \* bound: key_rotation rows
  MaxFaults,     \* bound: messages sent again, sweeps that fail, workers that are lost
  MaxWrites      \* bound: writes by owners

ASSUME BoundsAssumption ==
  /\ BatchSize \in Nat \ {0} /\ Tables \in Nat /\ MaxRotations \in Nat
  /\ MaxFaults \in Nat /\ MaxWrites \in Nat
  /\ IsFiniteSet(Rows) /\ Table \in [Rows -> 1 .. Tables]

VARIABLES
  keys,      \* how many vault_key rows there are: 1 .. keys
  active,    \* the keys whose row says active
  rotation,  \* key_rotation rows: new_key_id (0 for NULL) and state
  start,     \* per request: how far it is, the key or then the rotation it holds
  queued,    \* rotations with a task message
  sweep,     \* per worker, see Asleep
  faults,    \* of MaxFaults
  blob,      \* each row's envelope: its key, 0 for Mode B, and what it says
  picked,    \* the key a Mode A write under way has read, 0 for none
  writes,    \* owners' writes so far, numbered
  wrote,     \* history: the last of them on each row, 0 for none
  beside,    \* history: rows written between the read and the commit of a batch
  strays,    \* history: rows written under a key that was no longer active
  solo       \* history: no rotation begun beside another or on a key another had
             \* demoted, none but the newest swept

vars == <<keys, active, rotation, start, queued, sweep, faults, blob, picked, writes, wrote, beside, strays, solo>>

keyVars == <<keys, active>>
owners  == <<blob, picked, writes, wrote>>
history == <<beside, strays, solo>>

ModeB == 0
None  == 0

\* got: the rows to write back; held: the rows of the last batch, whose objects are
\* still in the session, so that a SELECT does not refresh them; said: what they say.
Asleep == [at |-> "idle", rot |-> 0, seen |-> "done", retired |-> {}, table |-> 1,
           got |-> {}, said |-> [r \in Rows |-> 0], held |-> {}]

Running(w) == sweep[w].at # "idle"
New(n)     == rotation[n].new
Newest     == Len(rotation)

\* ACTIVE_ROTATION_STATES
Underway(n) == rotation[n].state \in {"pending", "running"}

-----------------------------------------------------------------------------
(* POST /keys/rotate                                                       *)

Waiting == [at |-> "idle", holds |-> None]

\* get_active_rotation finds none; if it finds one the answer is 409.
StartChecked(s) ==
  /\ start[s].at = "idle"
  /\ \A n \in DOMAIN rotation : ~ Underway(n)
  /\ start' = [start EXCEPT ![s].at = "checked"]
  /\ UNCHANGED <<keyVars, rotation, queued, sweep, faults, owners, history>>

\* Variant: the active key may be overlooked.
StartLoadedBlind(s) ==
  /\ start[s].at = "checked"
  /\ \E k \in active \cup {None} :
       start' = [start EXCEPT ![s] = [at |-> "loaded", holds |-> k]]
  /\ UNCHANGED <<keyVars, rotation, queued, sweep, faults, owners, history>>

\* load_vault_keys: an active key, or none before the first.
StartLoaded(s) ==
  /\ start[s].at = "checked"
  /\ \E k \in IF active = {} THEN {None} ELSE active :
       start' = [start EXCEPT ![s] = [at |-> "loaded", holds |-> k]]
  /\ UNCHANGED <<keyVars, rotation, queued, sweep, faults, owners, history>>

\* The new key, the demotion of the one that was read, and the rotation commit
\* together; the first key of a vault leaves nothing to sweep.
StartCommitted(s) ==
  /\ start[s].at = "loaded" /\ Newest < MaxRotations
  /\ keys' = keys + 1
  /\ active' = (active \ {start[s].holds}) \cup {keys'}
  /\ LET first == start[s].holds = None
     IN  /\ rotation' = Append(rotation, [new |-> keys', state |-> IF first THEN "done" ELSE "pending"])
         /\ start' = [start EXCEPT ![s] = IF first THEN Waiting
                                          ELSE [at |-> "committed", holds |-> Newest + 1]]
  /\ solo' = (/\ solo /\ active' = {keys'}
              /\ \A n \in DOMAIN rotation : ~ Underway(n)
              /\ \A w \in Workers : ~ Running(w))
  /\ UNCHANGED <<queued, sweep, faults, owners, beside, strays>>

\* The master key does not unwrap the active key: a failed rotation, and nothing else.
StartRefused(s) ==
  /\ start[s].at = "loaded" /\ start[s].holds # None /\ Newest < MaxRotations
  /\ rotation' = Append(rotation, [new |-> None, state |-> "failed"])
  /\ start' = [start EXCEPT ![s] = Waiting]
  /\ UNCHANGED <<keyVars, queued, sweep, faults, owners, history>>

\* run_key_rotation_sweep.delay, after the commit.
StartDispatched(s) ==
  /\ start[s].at = "committed"
  /\ queued' = queued \cup {start[s].holds}
  /\ start' = [start EXCEPT ![s] = Waiting]
  /\ UNCHANGED <<keyVars, rotation, sweep, faults, owners, history>>

\* The process dies, or the broker is down, and the task is never queued.
StartDies(s) ==
  /\ start[s].at # "idle"
  /\ start' = [start EXCEPT ![s] = Waiting]
  /\ UNCHANGED <<keyVars, rotation, queued, sweep, faults, owners, history>>

-----------------------------------------------------------------------------
(* run_key_rotation_sweep and sweep_rotation                               *)

Fault == faults < MaxFaults /\ faults' = faults + 1

\* A message again: from the operator, or from a broker that thought it unacknowledged.
Redispatch(n) ==
  /\ n \notin queued /\ Fault
  /\ queued' = queued \cup {n}
  /\ UNCHANGED <<keyVars, rotation, start, sweep, owners, history>>

\* session.get; a rotation that is done is returned as it is.
Take(w) == \E n \in queued :
  /\ ~ Running(w)
  /\ queued' = queued \ {n}
  /\ IF rotation[n].state = "done"
     THEN UNCHANGED <<sweep, solo>>
     ELSE /\ sweep' = [sweep EXCEPT ![w] = [Asleep EXCEPT
               !.at = "taken", !.rot = n, !.seen = rotation[n].state]]
          /\ solo' = (solo /\ (n = Newest \/ New(n) = None))
  /\ UNCHANGED <<keyVars, rotation, start, faults, owners, beside, strays>>

\* Variant: only the key this rotation demoted.
RetiredByThis(n) == {k \in 1 .. keys : k + 1 = New(n)}

\* Every key but the new one is taken for retired.
Retired(n) == (1 .. keys) \ {New(n)}

\* load_vault_keys.  The ORM writes "running" only if the row did not say so when it
\* was read.
Begin(w) ==
  LET n == sweep[w].rot
  IN  /\ sweep[w].at = "taken" /\ New(n) # None
      /\ sweep' = [sweep EXCEPT ![w].at = "selecting", ![w].retired = Retired(n)]
      /\ rotation' = IF sweep[w].seen = "running" THEN rotation
                     ELSE [rotation EXCEPT ![n].state = "running"]
      /\ UNCHANGED <<keyVars, start, queued, faults, owners, history>>

\* Rows of the table at hand that match _retired_predicate.
Matching(w) == {r \in Rows : Table[r] = sweep[w].table /\ blob[r].key \in sweep[w].retired}

\* The rows a SELECT .. LIMIT may return.
Selections(w) ==
  LET found == Matching(w)
  IN  {b \in SUBSET found : Cardinality(b) = BatchSize \/ (Cardinality(b) < BatchSize /\ b = found)}

\* Variant: whatever the session holds is encrypted again.
ToReencryptBlind(w, b) == b

\* Of a batch, the rows that are not skipped: those the session still holds say what
\* this sweep last wrote, and say it under the new key.
ToReencrypt(w, b) == b \ sweep[w].held

\* What the session then says of the batch.
Loaded(w, b) ==
  [r \in Rows |-> CASE r \in b \ sweep[w].held     -> blob[r].text
                    [] r \in b \cap sweep[w].held -> sweep[w].said[r]
                    [] OTHER                       -> 0]

NextTable(w) == [sweep[w] EXCEPT !.table = @ + 1, !.held = {}, !.said = Asleep.said]

\* Variant: the sweep asks for the next batch until there is none.
SelectUntilNone(w) == \E b \in Selections(w) :
  /\ sweep[w].at = "selecting" /\ sweep[w].table <= Tables
  /\ sweep' = [sweep EXCEPT ![w] =
       IF b = {} THEN NextTable(w)
       ELSE [@ EXCEPT !.at = "ready", !.held = b,
                      !.got = ToReencrypt(w, b), !.said = Loaded(w, b)]]
  /\ UNCHANGED <<keyVars, rotation, start, queued, faults, owners, history>>

\* Variant: the tables are not counted.
SelectOn(w) == \E b \in Selections(w) :
  /\ sweep[w].at = "selecting"
  /\ sweep' = [sweep EXCEPT ![w] =
       IF ToReencrypt(w, b) = {} THEN NextTable(w)
       ELSE [@ EXCEPT !.at = "ready", !.held = b,
                      !.got = ToReencrypt(w, b), !.said = Loaded(w, b)]]
  /\ UNCHANGED <<keyVars, rotation, start, queued, faults, owners, history>>

\* Decrypts a batch and encrypts it with the new key.  A batch with nothing to do,
\* empty or all skipped, ends the table.
Select(w) == \E b \in Selections(w) :
  /\ sweep[w].at = "selecting" /\ sweep[w].table <= Tables
  /\ sweep' = [sweep EXCEPT ![w] =
       IF ToReencrypt(w, b) = {} THEN NextTable(w)
       ELSE [@ EXCEPT !.at = "ready", !.held = b,
                      !.got = ToReencrypt(w, b), !.said = Loaded(w, b)]]
  /\ UNCHANGED <<keyVars, rotation, start, queued, faults, owners, history>>

\* UPDATE by primary key, whatever the rows say by now.
CommitBatch(w) ==
  /\ sweep[w].at = "ready"
  /\ blob' = [r \in Rows |-> IF r \in sweep[w].got
                             THEN [key |-> New(sweep[w].rot), text |-> sweep[w].said[r]] ELSE blob[r]]
  /\ sweep' = [sweep EXCEPT ![w].at = "selecting", ![w].got = {}]
  /\ UNCHANGED <<keyVars, rotation, start, queued, faults, picked, writes, wrote, history>>

Finish(w) ==
  /\ sweep[w].at = "selecting" /\ sweep[w].table > Tables
  /\ rotation' = [rotation EXCEPT ![sweep[w].rot].state = "done"]
  /\ sweep' = [sweep EXCEPT ![w] = Asleep]
  /\ UNCHANGED <<keyVars, start, queued, faults, owners, history>>

\* _mark_failed: no new key, or a key or a blob that does not decrypt.  The batch is
\* rolled back; the mark may not reach the database either.
Fail(w) == \E marked \in BOOLEAN :
  /\ sweep[w].at \in {"taken", "ready"}
  /\ IF New(sweep[w].rot) = None THEN faults' = faults ELSE Fault
  /\ rotation' = IF marked THEN [rotation EXCEPT ![sweep[w].rot].state = "failed"] ELSE rotation
  /\ sweep' = [sweep EXCEPT ![w] = Asleep]
  /\ UNCHANGED <<keyVars, start, queued, owners, history>>

\* The worker is lost; its message, acknowledged late, goes back to the queue.
Crash(w) ==
  /\ Running(w) /\ Fault
  /\ queued' = queued \cup {sweep[w].rot}
  /\ sweep' = [sweep EXCEPT ![w] = Asleep]
  /\ UNCHANGED <<keyVars, rotation, start, owners, history>>

-----------------------------------------------------------------------------
(* The owners.                                                             *)

Put(r, k) ==
  /\ writes < MaxWrites
  /\ writes' = writes + 1
  /\ wrote' = [wrote EXCEPT ![r] = writes']
  /\ blob' = [blob EXCEPT ![r] = [key |-> k, text |-> writes']]
  /\ beside' = IF \E w \in Workers : r \in sweep[w].got THEN beside \cup {r} ELSE beside

\* A Mode A writer reads the active key, and stores the row under it later.
PickKey(r) ==
  /\ picked[r] = None /\ writes + Cardinality({q \in Rows : picked[q] # None}) < MaxWrites
  /\ \E k \in active : picked' = [picked EXCEPT ![r] = k]
  /\ UNCHANGED <<keyVars, rotation, start, queued, sweep, faults, blob, writes, wrote, history>>

StoreModeA(r) ==
  /\ picked[r] # None
  /\ Put(r, picked[r])
  /\ picked' = [picked EXCEPT ![r] = None]
  /\ strays' = IF picked[r] \in active THEN strays ELSE strays \cup {r}
  /\ UNCHANGED <<keyVars, rotation, start, queued, sweep, faults, solo>>

\* Sealing: the browser's own envelope.
StoreModeB(r) ==
  /\ Put(r, ModeB)
  /\ UNCHANGED <<keyVars, rotation, start, queued, sweep, faults, picked, strays, solo>>

-----------------------------------------------------------------------------
Init ==
  /\ keys \in {0, 1} /\ active = 1 .. keys
  /\ rotation = <<>>
  /\ start = [s \in Starters |-> Waiting]
  /\ queued = {}
  /\ sweep = [w \in Workers |-> Asleep]
  /\ blob = [r \in Rows |-> [key |-> keys, text |-> 0]]
  /\ faults = 0
  /\ picked = [r \in Rows |-> None]
  /\ writes = 0 /\ wrote = [r \in Rows |-> 0]
  /\ beside = {} /\ strays = {} /\ solo = TRUE

Start(s) == \/ StartChecked(s) \/ StartLoaded(s) \/ StartCommitted(s)
            \/ StartRefused(s) \/ StartDispatched(s) \/ StartDies(s)
Step(w)  == Begin(w) \/ Select(w) \/ CommitBatch(w) \/ Finish(w) \/ Fail(w)

Next ==
  \/ \E s \in Starters : Start(s)
  \/ \E n \in DOMAIN rotation : Redispatch(n)
  \/ \E w \in Workers : Take(w) \/ Step(w) \/ Crash(w)
  \/ \E r \in Rows : PickKey(r) \/ StoreModeA(r) \/ StoreModeB(r)

Spec == Init /\ [][Next]_vars

\* A task that runs goes on running.
FairSpec == Spec /\ \A w \in Workers : WF_vars(Step(w))

-----------------------------------------------------------------------------
States    == {"pending", "running", "done", "failed"}
BlobType  == [key : Nat, text : Nat]
SweepType == [at : {"idle", "taken", "selecting", "ready"}, rot : Nat, seen : States,
              retired : SUBSET Nat, table : 1 .. Tables + 1,
              got : SUBSET Rows, said : [Rows -> Nat], held : SUBSET Rows]

\* The types; a blob's key, and every key anyone holds, is one the vault has.
TypeOK ==
  /\ keys \in Nat /\ active \subseteq 1 .. keys
  /\ rotation \in Seq([new : 0 .. keys, state : States])
  /\ start \in [Starters -> [at : {"idle", "checked", "loaded", "committed"}, holds : Nat]]
  /\ \A s \in Starters : start[s].at = "committed" => start[s].holds \in DOMAIN rotation
  /\ queued \subseteq DOMAIN rotation
  /\ sweep \in [Workers -> SweepType]
  /\ \A w \in Workers : Running(w) => sweep[w].rot \in DOMAIN rotation
  /\ faults \in Nat
  /\ blob \in [Rows -> BlobType] /\ \A r \in Rows : blob[r].key \in 0 .. keys
  /\ picked \in [Rows -> 0 .. keys]
  /\ writes \in Nat /\ wrote \in [Rows -> Nat]
  /\ beside \subseteq Rows /\ strays \subseteq Rows /\ solo \in BOOLEAN

\* "No data loss, ever" (rotation.py): through crashes, failures, sweeps that
\* overlap and rotations that race, a row says what its owner last wrote.  Only a
\* write between a batch's read and its commit is lost.
TextSurvives == \A r \in Rows \ beside : blob[r].text = wrote[r]

\* When the newest rotation is done, what is left under other keys was written under
\* one of them after it was retired, whatever sweeps crashed, failed or overlapped:
\* unless a whole batch of such rows stopped a sweep, or rotations overlapped.
DoneMeansMigrated ==
  /\ solo /\ Cardinality(strays) < BatchSize
  /\ Newest # 0 /\ rotation[Newest].state = "done"
  => \A r \in Rows \ strays : blob[r].key \in {ModeB, New(Newest)}

\* A sweep comes to an end although owners keep writing under keys it retires; two
\* rotations at once could undo each other for ever.
SweepsEnd == \A w \in Workers : Running(w) ~> ~ Running(w) \/ ~ solo

\* models/crypto.py: "At most one row per vault is ``active = true``": so it is as long
\* as requests come one after another, whatever becomes of each; not of two at once.
OneActiveKey == Cardinality(active) <= 1
=============================================================================
