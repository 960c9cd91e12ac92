------------------------------ MODULE EntryEditor ------------------------------
(***************************************************************************)
(* The Editor page on one journal entry, and the entry's row and revisions *)
(* behind it.                                                              *)
(*                                                                         *)
(* The page autosaves a second after the last keystroke, restores old      *)
(* versions and seals; it never waits for one request before it sends the  *)
(* next.  Each handler of the API reads the row, reads the history, and    *)
(* commits, without a row lock (READ COMMITTED, autoflush off), so another *)
(* request may commit between any two of these.                            *)
(*                                                                         *)
(* Texts are numbered in the order they were typed; 0 is the text the page *)
(* was opened on.                                                          *)
(***************************************************************************)
EXTENDS Naturals, FiniteSets

CONSTANTS
  Calls,         \* requests of the page, each sent once
  NoText,        \* a NULL body, an empty ref
  MaxText,       \* bound: edits
  MaxRevisions   \* MAX_REVISIONS_PER_ENTRY

Texts == 0 .. MaxText

ASSUME NoTextAssumption == NoText \notin Texts
ASSUME BoundsAssumption == MaxText \in Nat /\ MaxRevisions \in Nat \ {0}

VARIABLES
  ui,         \* shown (Tiptap), pendingDoc (its ref), doc, timer, status, sealed
  call,       \* per request: what it asks, how far its handler is, who awaits it
  entry,      \* the row: body, payload, sealed, public
  revs,       \* entry_revision: number and text
  fresh,      \* the newest revision is younger than REVISION_DEBOUNCE
  typed,      \* edits so far
  beside,     \* history: requests handled while a seal was, and the reverse
  calm        \* history: one thing at a time so far, and every answer heard

vars == <<ui, call, entry, revs, fresh, typed, beside, calm>>

TextOrNone == Texts \cup {NoText}
Revision   == [number : Nat, text : TextOrNone]
Kinds      == {"save", "restore", "seal", "publish"}

Unsent == [kind |-> "save", text |-> NoText, target |-> 0, at |-> "unsent",
           seen |-> NoText, number |-> 0, doomed |-> {}, awaited |-> FALSE]

Handled(q) == call[q].at \in {"answered", "refused", "failed"}
Open(q)    == call[q].at # "unsent" /\ (call[q].awaited \/ ~ Handled(q))
NoneOpen   == \A q \in Calls : ~ Open(q)
Awaits(K)  == \E q \in Calls : call[q].awaited /\ call[q].kind \in K

-----------------------------------------------------------------------------
(* The page.                                                               *)

\* What a mounted editor holds once useEntryDetail has answered.
Hydrated(e) == [shown |-> e.body, pendingDoc |-> NoText, doc |-> e.body,
                timer |-> FALSE, status |-> "idle", sealed |-> e.sealed]

Send(q, k, t, n) ==
  /\ call[q] = Unsent
  /\ call' = [call EXCEPT ![q] = [Unsent EXCEPT
       !.kind = k, !.text = t, !.target = n, !.at = "sent", !.awaited = TRUE]]
  /\ calm' = (calm /\ NoneOpen /\ (k = "save" \/ ~ ui.timer))
  /\ UNCHANGED <<entry, revs, fresh, typed, beside>>

\* onChange: the status is dirty and the debounce starts again.
Type ==
  /\ typed < MaxText /\ ~ ui.sealed
  /\ typed' = typed + 1
  /\ ui' = [ui EXCEPT !.shown = typed', !.pendingDoc = typed',
                      !.status = "dirty", !.timer = TRUE]
  /\ calm' = (calm /\ ~ Awaits({"restore", "seal"}))
  /\ UNCHANGED <<call, entry, revs, fresh, beside>>

\* The debounce fires and sends what the ref holds.
Autosave(q) ==
  /\ ui.timer
  /\ Send(q, "save", ui.pendingDoc, 0)
  /\ ui' = [ui EXCEPT !.timer = FALSE, !.status = "saving"]

\* doRestore, of a revision the panel listed; `busy' allows one at a time.
AskRestore(q) == \E r \in revs :
  /\ ~ ui.sealed /\ ~ Awaits({"restore"})
  /\ Send(q, "restore", NoText, r.number)
  /\ UNCHANGED ui

\* handleSeal: the pending autosave is dropped, and the ref sealed if there is one.
AskSeal(q) ==
  /\ ~ ui.sealed
  /\ Send(q, "seal", IF ui.pendingDoc # NoText THEN ui.pendingDoc ELSE ui.doc, 0)
  /\ ui' = [ui EXCEPT !.timer = FALSE]

AskPublish(q) ==
  /\ ~ ui.sealed
  /\ Send(q, "publish", NoText, 0)
  /\ UNCHANGED ui

\* Variant: the surface is not remounted after a restore.
AnsweredInPlace(q, ok) ==
  CASE call[q].kind = "save"          -> [ui EXCEPT !.status = IF ok THEN "saved" ELSE "error"]
    [] call[q].kind = "restore" /\ ok -> [ui EXCEPT !.doc = call[q].text]
    [] call[q].kind = "seal" /\ ok    -> [ui EXCEPT !.sealed = TRUE, !.status = "idle"]
    [] OTHER                          -> ui

\* What the page makes of an answer, or of a request that failed.  onRestored
\* remounts the surface and leaves the ref and the timer alone.
Answered(q, ok) ==
  CASE call[q].kind = "save"          -> [ui EXCEPT !.status = IF ok THEN "saved" ELSE "error"]
    [] call[q].kind = "restore" /\ ok -> [ui EXCEPT !.doc = call[q].text, !.shown = call[q].text]
    [] call[q].kind = "seal" /\ ok    -> [ui EXCEPT !.sealed = TRUE, !.status = "idle"]
    [] OTHER                          -> ui

Hear(q) ==
  /\ call[q].awaited /\ Handled(q)
  /\ ui' = Answered(q, call[q].at = "answered")
  /\ call' = [call EXCEPT ![q].awaited = FALSE]
  /\ UNCHANGED <<entry, revs, fresh, typed, beside, calm>>

\* A NetworkError or the 30 s timeout; the request may still be handled.
GiveUp(q) ==
  /\ call[q].awaited
  /\ ui' = Answered(q, FALSE)
  /\ call' = [call EXCEPT ![q].awaited = FALSE]
  /\ calm' = FALSE
  /\ UNCHANGED <<entry, revs, fresh, typed, beside>>

\* Leave and come back.  Unmounting clears the timer; requests stay under way.
Reopen ==
  /\ ui' = Hydrated(entry)
  /\ call' = [q \in Calls |-> [call[q] EXCEPT !.awaited = FALSE]]
  /\ calm' = (calm /\ NoneOpen /\ ~ ui.timer)
  /\ UNCHANGED <<entry, revs, fresh, typed, beside>>

-----------------------------------------------------------------------------
(* The API.                                                                *)

Reached(q, phase) == [call EXCEPT ![q].at = phase]

\* Variant: an autosave does not ask whether the entry is sealed.
RefusedBlind(q) ==
  CASE call[q].kind = "save"    -> FALSE
    [] call[q].kind = "restore" -> entry.sealed \/ \A r \in revs : r.number # call[q].target
    [] call[q].kind = "seal"    -> entry.sealed \/ entry.public
    [] call[q].kind = "publish" -> entry.sealed

\* 403, 404 and 409.
Refused(q) ==
  CASE call[q].kind = "save"    -> entry.sealed
    [] call[q].kind = "restore" -> entry.sealed \/ \A r \in revs : r.number # call[q].target
    [] call[q].kind = "seal"    -> entry.sealed \/ entry.public
    [] call[q].kind = "publish" -> entry.sealed

\* A second publish changes nothing.
Idle(q) == call[q].kind = "publish" /\ entry.public

\* What the request will write: of a restore, the text of its revision.
Content(q) == IF call[q].kind = "restore"
              THEN {r.text : r \in {s \in revs : s.number = call[q].target}}
              ELSE {call[q].text}

InHandler(q) == call[q].at \in {"selected", "ready"}

\* History only: who is between read and commit together with a seal, once q is.
Beside(q) ==
  {p \in Calls : /\ p # q /\ InHandler(p)
                 /\ "seal" \in {call[p].kind, call[q].kind}}

\* The SELECTs of the row, and of the revision to restore.
Select(q) ==
  /\ call[q].at = "sent"
  /\ \/ /\ Refused(q) \/ Idle(q)
        /\ call' = Reached(q, IF Refused(q) THEN "refused" ELSE "answered")
        /\ UNCHANGED beside
     \/ /\ ~ Refused(q) /\ ~ Idle(q)
        /\ \E t \in Content(q) :
             call' = [call EXCEPT ![q] = [@ EXCEPT !.at = "selected", !.seen = entry.body, !.text = t]]
        /\ beside' = beside \cup Beside(q)
  /\ UNCHANGED <<ui, entry, revs, fresh, typed, calm>>

\* _latest_revision: the numbers are compared, 0 stands for none.
IsLatest(n) == \A r \in revs : r.number <= n

\* Variant: the snapshot before a restore is debounced like the others.
SnapshotDueDebounced(q) ==
  IF call[q].kind = "publish" THEN TRUE
  ELSE call[q].text # call[q].seen /\ (revs = {} \/ ~ fresh)

\* An autosave that changes the body leaves one revision in ten minutes; restore
\* and publish force theirs.
SnapshotDue(q) ==
  \/ call[q].kind \in {"restore", "publish"}
  \/ call[q].kind = "save" /\ call[q].text # call[q].seen /\ (revs = {} \/ ~ fresh)

\* maybe_snapshot_revision and _prune_oldest: the new row waits for the commit.
Snapshot(q) == \E n \in {0} \cup {r.number : r \in revs} :
  /\ call[q].at = "selected" /\ call[q].kind # "seal"
  /\ IsLatest(n)
  /\ call' = [call EXCEPT ![q] = [@ EXCEPT
       !.at = "ready",
       !.number = IF SnapshotDue(q) THEN n + 1 ELSE 0,
       !.doomed = IF SnapshotDue(q)
                  THEN {r \in revs : Cardinality({s \in revs : s.number >= r.number}) >= MaxRevisions}
                  ELSE {}]]
  /\ UNCHANGED <<ui, entry, revs, fresh, typed, beside, calm>>

\* purge_plaintext_revisions deletes what it can see.
Purge(q) ==
  /\ call[q].at = "selected" /\ call[q].kind = "seal"
  /\ call' = [call EXCEPT ![q] = [@ EXCEPT !.at = "ready", !.doomed = revs]]
  /\ UNCHANGED <<ui, entry, revs, fresh, typed, beside, calm>>

\* An attribute that comes out as it was read is not in the UPDATE.
NewBody(q, t) == IF t = call[q].seen THEN entry.body ELSE t

\* Variant: the seal forgets the payload.
WrittenEmpty(q) ==
  CASE call[q].kind \in {"save", "restore"} -> [entry EXCEPT !.body = NewBody(q, call[q].text)]
    [] call[q].kind = "seal"    -> [entry EXCEPT !.sealed = TRUE, !.body = NewBody(q, NoText)]
    [] call[q].kind = "publish" -> [entry EXCEPT !.public = TRUE]

Written(q) ==
  CASE call[q].kind \in {"save", "restore"} -> [entry EXCEPT !.body = NewBody(q, call[q].text)]
    [] call[q].kind = "seal"    -> [entry EXCEPT !.sealed = TRUE, !.payload = call[q].text,
                                                 !.body = NewBody(q, NoText)]
    [] call[q].kind = "publish" -> [entry EXCEPT !.public = TRUE]

\* UNIQUE (entry_id, revision_number)
Collides(q) == call[q].number # 0 /\ \E r \in revs : r.number = call[q].number

\* The revision, the pruning or the purge, and the row, in one transaction.
Commit(q) ==
  /\ call[q].at = "ready" /\ ~ Collides(q)
  /\ entry' = Written(q)
  /\ revs' = (revs \ call[q].doomed)
             \cup {[number |-> n, text |-> call[q].seen] : n \in {call[q].number} \ {0}}
  /\ fresh' = (fresh \/ call[q].number # 0)
  /\ call' = Reached(q, IF call[q].kind = "restore" THEN "committed" ELSE "answered")
  /\ UNCHANGED <<ui, typed, beside, calm>>

\* IntegrityError: the loser of two snapshots is rolled back, its write included.
Rollback(q) ==
  /\ call[q].at = "ready" /\ Collides(q)
  /\ call' = Reached(q, "failed")
  /\ UNCHANGED <<ui, entry, revs, fresh, typed, beside, calm>>

\* session.refresh: a restore answers with the row as it is by then.
Refresh(q) ==
  /\ call[q].at = "committed"
  /\ call' = [call EXCEPT ![q] = [@ EXCEPT !.at = "answered", !.text = entry.body]]
  /\ UNCHANGED <<ui, entry, revs, fresh, typed, beside, calm>>

TenMinutesPass ==
  /\ fresh
  /\ fresh' = FALSE
  /\ UNCHANGED <<ui, call, entry, revs, typed, beside, calm>>

-----------------------------------------------------------------------------
Init ==
  /\ entry = [body |-> 0, payload |-> NoText, sealed |-> FALSE, public |-> FALSE]
  /\ ui = Hydrated(entry)
  /\ call = [q \in Calls |-> Unsent]
  /\ revs = {} /\ fresh = FALSE
  /\ typed = 0 /\ beside = {} /\ calm = TRUE

Handle(q) == Select(q) \/ Snapshot(q) \/ Purge(q) \/ Commit(q) \/ Rollback(q) \/ Refresh(q)

Next ==
  \/ Type \/ Reopen \/ TenMinutesPass
  \/ \E q \in Calls : \/ Autosave(q) \/ AskRestore(q) \/ AskSeal(q) \/ AskPublish(q)
                      \/ Hear(q) \/ GiveUp(q) \/ Handle(q)

Spec == Init /\ [][Next]_vars

-----------------------------------------------------------------------------
PageType  == [shown : TextOrNone, pendingDoc : TextOrNone, doc : TextOrNone,
              timer : BOOLEAN, sealed : BOOLEAN,
              status : {"idle", "dirty", "saving", "saved", "error"}]
CallType  == [kind : Kinds, text : TextOrNone, target : Nat,
              at : {"unsent", "sent", "selected", "ready", "committed",
                    "answered", "refused", "failed"},
              seen : TextOrNone, number : Nat, doomed : SUBSET Revision, awaited : BOOLEAN]
EntryType == [body : TextOrNone, payload : TextOrNone, sealed : BOOLEAN, public : BOOLEAN]

\* The types; the entry is sealed exactly when it has a payload.
TypeOK ==
  /\ ui \in PageType
  /\ call \in [Calls -> CallType]
  /\ entry \in EntryType /\ (entry.sealed <=> entry.payload # NoText)
  /\ revs \subseteq Revision
  /\ fresh \in BOOLEAN /\ calm \in BOOLEAN
  /\ typed \in Texts
  /\ beside \subseteq Calls

\* A sealed entry keeps no plaintext and is not public (seal_entry: "the server must
\* never see the plaintext again"), whatever is still under way when it is sealed:
\* only a request between its read and its commit together with the seal breaks it.
SealHolds ==
  entry.sealed /\ beside = {} => entry.body = NoText /\ revs = {} /\ ~ entry.public

\* A restore never destroys the text it replaces: unless someone else wrote since
\* it read the row, that text is in the history it leaves (restore_revision).
RestoreKeepsTheText ==
  [][\A q \in Calls :
       /\ call[q].kind = "restore" /\ call[q].at = "ready" /\ call'[q].at = "committed"
       /\ entry.body = call[q].seen
       => \E r \in revs' : r.text = entry.body]_vars

\* When nothing overlapped and the page says Saved, the server holds the text on
\* the screen, through autosaves, restores and reloads.
SavedIsStored ==
  calm /\ NoneOpen /\ ~ ui.timer /\ ui.status = "saved" => entry.body = ui.shown

\* handleSeal: "the doc being sealed IS the latest doc", the one on the screen.
SealsTheScreen ==
  calm /\ NoneOpen /\ entry.sealed /\ ui.shown # NoText => entry.payload = ui.shown
=============================================================================
