--------------------------- MODULE EntryEditorProofs ---------------------------
(***************************************************************************)
(* Safety of the Editor page and its API for every number of requests,     *)
(* edits and revisions.                                                    *)
(*                                                                         *)
(* The types alone are not inductive, because of the one clause that is    *)
(* not a type: a sealed entry has a payload.  Where the page finds a text  *)
(* to seal is a matter of the other texts, so Texted follows them: a body, *)
(* a ref or a revision is empty only where the entry is sealed already,    *)
(* and no handler gets past its SELECT then.  On top of it Sealing follows *)
(* a seal from its SELECT to its commit with nothing beside it, and what   *)
(* the seal leaves stays: whoever comes later is refused.                  *)
(***************************************************************************)
EXTENDS EntryEditor, TLAPS

\* Where an empty text may be.
TextedCall(q) ==
  /\ call[q].kind = "seal" => call[q].number = 0
  /\ call[q].kind = "save" /\ call[q].at # "unsent" => call[q].text # NoText
  /\ call[q].kind = "seal" /\ call[q].at # "unsent" /\ call[q].text = NoText => entry.sealed
  /\ call[q].at = "committed" => call[q].kind = "restore"
  /\ call[q].kind = "restore" /\ call[q].at = "answered" /\ call[q].text = NoText => entry.sealed
  /\ InHandler(q) => call[q].seen # NoText
  /\ InHandler(q) /\ call[q].kind # "publish" => call[q].text # NoText

Texted ==
  /\ ~ entry.sealed => entry.body # NoText
  /\ ui.timer => ui.pendingDoc # NoText
  /\ ui.doc = NoText => entry.sealed
  /\ \A r \in revs : r.text # NoText
  /\ \A q \in Calls : TextedCall(q)

Typed == TypeOK /\ Texted

\* The number of a restore that is about to commit.
Numbered == \A q \in Calls : call[q].at = "ready" /\ call[q].kind = "restore" => call[q].number # 0

Sealing ==
  /\ \A p, q \in Calls : p # q /\ InHandler(p) /\ InHandler(q) /\ call[q].kind = "seal" => beside # {}
  /\ beside = {} => \A q \in Calls :
       /\ InHandler(q) => ~ entry.sealed
       /\ InHandler(q) /\ call[q].kind = "seal" => ~ entry.public
       /\ call[q].at = "ready" /\ call[q].kind = "seal" => revs \subseteq call[q].doomed

Inv == Typed /\ Numbered /\ Sealing /\ SealHolds

-----------------------------------------------------------------------------
\* A request before it is sent is a request.
LEMMA UnsentType == Unsent \in CallType
BY DEF Unsent, CallType, TextOrNone, Texts, Kinds, Revision

\* The text the page was opened on is a text, and no empty one.
LEMMA TextsTyped == NoText \in TextOrNone /\ 0 \in TextOrNone /\ 0 # NoText
BY NoTextAssumption, BoundsAssumption DEF TextOrNone, Texts

\* What a page makes of a request is again a page.
LEMMA AnsweredType ==
  ASSUME TypeOK, NEW q \in Calls
  PROVE  Answered(q, TRUE) \in PageType /\ Answered(q, FALSE) \in PageType
BY DEF TypeOK, Answered, PageType, CallType, Kinds

\* A row that a request writes is a row.
LEMMA WrittenType ==
  ASSUME TypeOK, NEW q \in Calls
  PROVE  Written(q) \in EntryType
<1>1. call[q] \in CallType /\ entry \in EntryType
  BY DEF TypeOK
<1>2. NewBody(q, call[q].text) \in TextOrNone /\ NewBody(q, NoText) \in TextOrNone
  BY <1>1, TextsTyped DEF NewBody, CallType, EntryType
<1> QED BY <1>1, <1>2 DEF Written, CallType, EntryType, Kinds

\* The page as it is opened.
LEMMA TypedInit == Init => Typed
<1> SUFFICES ASSUME Init PROVE Typed OBVIOUS
<1>1. call \in [Calls -> CallType]
  BY UnsentType DEF Init
<1>2. entry \in EntryType /\ ui \in PageType
  BY TextsTyped DEF Init, EntryType, PageType, Hydrated
<1>3. TypeOK
  <2>1. typed \in Texts
    BY BoundsAssumption DEF Init, Texts
  <2>2. entry.sealed <=> entry.payload # NoText
    BY DEF Init
  <2> QED BY <1>1, <1>2, <2>1, <2>2 DEF Init, TypeOK
<1>4. Texted
  BY TextsTyped DEF Init, Texted, TextedCall, Hydrated, Unsent, InHandler
<1> QED BY <1>3, <1>4 DEF Typed

\* Types and empty texts, action by action.
LEMMA TypedNext == Typed /\ [Next]_vars => Typed'
<1> SUFFICES ASSUME Typed, [Next]_vars PROVE Typed' OBVIOUS
<1> USE TextsTyped DEF Typed
<1>1. ASSUME Type PROVE Typed'
  <2>1. typed' \in Texts /\ typed' # NoText
    BY <1>1, BoundsAssumption, NoTextAssumption DEF Type, TypeOK, Texts
  <2>2. ui' \in PageType
    BY <1>1, <2>1 DEF Type, TypeOK, PageType, TextOrNone
  <2>3. calm' \in BOOLEAN
    BY <1>1 DEF Type, TypeOK
  <2>4. TypeOK'
    BY <1>1, <2>1, <2>2, <2>3 DEF Type, TypeOK
  <2>5. ui'.pendingDoc = typed' /\ ui'.doc = ui.doc
    BY <1>1 DEF Type, TypeOK, PageType
  <2>6. Texted'
    BY <1>1, <2>1, <2>5 DEF Type, Texted, TextedCall, InHandler
  <2> QED BY <2>4, <2>6
<1>2. ASSUME Reopen PROVE Typed'
  <2>1. ui' \in PageType /\ ui'.doc = entry.body /\ ui'.timer = FALSE
    BY <1>2 DEF Reopen, TypeOK, Hydrated, PageType, EntryType
  <2>2. call' \in [Calls -> CallType]
    BY ZenonT(30), <1>2 DEF Reopen, TypeOK, CallType
  <2>3. \A q \in Calls : call'[q] = [call[q] EXCEPT !.awaited = FALSE]
    BY <1>2 DEF Reopen
  <2>4. \A q \in Calls : /\ call'[q].kind = call[q].kind /\ call'[q].at = call[q].at
                         /\ call'[q].text = call[q].text /\ call'[q].seen = call[q].seen
                         /\ call'[q].number = call[q].number
    <3> SUFFICES ASSUME NEW q \in Calls
                 PROVE  /\ call'[q].kind = call[q].kind /\ call'[q].at = call[q].at
                        /\ call'[q].text = call[q].text /\ call'[q].seen = call[q].seen
                        /\ call'[q].number = call[q].number
      OBVIOUS
    <3>1. call[q] \in CallType
      BY DEF TypeOK
    <3>2. call'[q] = [call[q] EXCEPT !.awaited = FALSE]
      BY <2>3
    <3> QED BY ONLY <3>1, <3>2 DEF CallType
  <2>5. calm' \in BOOLEAN
    BY <1>2 DEF Reopen, TypeOK
  <2>6. TypeOK'
    BY <1>2, <2>1, <2>2, <2>5 DEF Reopen, TypeOK
  <2>7. Texted'
    BY <1>2, <2>1, <2>4 DEF Reopen, Texted, TextedCall, InHandler
  <2> QED BY <2>6, <2>7
<1>3. ASSUME TenMinutesPass PROVE Typed'
  BY <1>3 DEF TenMinutesPass, TypeOK, Texted, TextedCall, InHandler
<1>4. ASSUME NEW q \in Calls, Autosave(q) PROVE Typed'
  <2>1. TypeOK'
    BY <1>4 DEF Autosave, Send, Unsent, TypeOK, PageType, CallType, Kinds
  <2>2. Texted'
    BY <1>4 DEF Autosave, Send, Unsent, TypeOK, PageType, CallType, Texted, TextedCall, InHandler
  <2> QED BY <2>1, <2>2
<1>5. ASSUME NEW q \in Calls, AskRestore(q) PROVE Typed'
  <2>1. PICK r \in revs : Send(q, "restore", NoText, r.number) /\ UNCHANGED ui
    BY <1>5 DEF AskRestore
  <2>2. r.number \in Nat
    BY DEF TypeOK, Revision
  <2>3. TypeOK'
    BY <2>1, <2>2 DEF Send, Unsent, TypeOK, CallType, Kinds
  <2>4. Texted'
    BY <2>1 DEF Send, Unsent, TypeOK, CallType, Texted, TextedCall, InHandler
  <2> QED BY <2>3, <2>4
<1>6. ASSUME NEW q \in Calls, AskSeal(q) PROVE Typed'
  <2>1. TypeOK'
    BY <1>6 DEF AskSeal, Send, Unsent, TypeOK, PageType, CallType, Kinds
  <2>2. Texted'
    BY <1>6 DEF AskSeal, Send, Unsent, TypeOK, PageType, CallType, Texted, TextedCall, InHandler
  <2> QED BY <2>1, <2>2
<1>7. ASSUME NEW q \in Calls, AskPublish(q) PROVE Typed'
  <2>1. TypeOK'
    BY <1>7 DEF AskPublish, Send, Unsent, TypeOK, PageType, CallType, Kinds
  <2>2. Texted'
    BY <1>7 DEF AskPublish, Send, Unsent, TypeOK, PageType, CallType, Texted, TextedCall, InHandler
  <2> QED BY <2>1, <2>2
<1>8. ASSUME NEW q \in Calls, Hear(q) \/ GiveUp(q) PROVE Typed'
  <2>1. \/ ui' = Answered(q, TRUE) /\ call[q].at = "answered"
        \/ ui' = Answered(q, FALSE)
    BY <1>8, Zenon DEF Hear, GiveUp
  <2>2. /\ UNCHANGED <<entry, revs, fresh, typed, beside>> /\ calm' \in BOOLEAN
        /\ call' = [call EXCEPT ![q].awaited = FALSE]
    BY <1>8 DEF Hear, GiveUp, TypeOK
  <2>3. call' \in [Calls -> CallType]
    BY ZenonT(30), <2>2 DEF TypeOK, CallType
  <2>4. TypeOK'
    <3>1. ui' \in PageType
      BY <2>1, AnsweredType
    <3> QED BY <2>2, <2>3, <3>1 DEF TypeOK
  <2>5. /\ ui'.timer = ui.timer /\ ui'.pendingDoc = ui.pendingDoc
        /\ \/ ui'.doc = ui.doc
           \/ ui'.doc = call[q].text /\ call[q].kind = "restore" /\ call[q].at = "answered"
    <3>1. call[q].kind \in Kinds /\ ui \in PageType
      BY DEF TypeOK, CallType
    <3>2. CASE ui' = Answered(q, TRUE) /\ call[q].at = "answered"
      BY <3>1, <3>2 DEF Answered, PageType, Kinds
    <3>3. CASE ui' = Answered(q, FALSE)
      BY <3>1, <3>3 DEF Answered, PageType, Kinds
    <3> QED BY <2>1, <3>2, <3>3
  <2>6. \A p \in Calls : /\ call'[p].kind = call[p].kind /\ call'[p].at = call[p].at
                         /\ call'[p].text = call[p].text /\ call'[p].seen = call[p].seen
                         /\ call'[p].number = call[p].number
    BY <2>2 DEF TypeOK, CallType
  <2>7. \A p \in Calls : TextedCall(p)'
    BY <2>2, <2>6 DEF Texted, TextedCall, InHandler
  <2>8. ui'.doc = NoText => entry.sealed
    BY <2>5 DEF Texted, TextedCall
  <2>9. Texted'
    BY <2>2, <2>5, <2>7, <2>8 DEF Texted
  <2> QED BY <2>4, <2>9
<1>9. ASSUME NEW q \in Calls, Select(q) PROVE Typed'
  <2>1. CASE call' = Reached(q, IF Refused(q) THEN "refused" ELSE "answered")
             /\ (Refused(q) \/ Idle(q)) /\ UNCHANGED beside
    <3>1. call[q].at = "sent" /\ UNCHANGED <<ui, entry, revs, fresh, typed, calm>>
      BY <1>9 DEF Select
    <3>2. TypeOK'
      BY <2>1, <3>1 DEF Reached, TypeOK, CallType
    <3>3. call[q].kind = "restore" => Refused(q)
      BY <2>1 DEF Idle
    <3>4. Texted'
      BY <2>1, <3>1, <3>3 DEF Reached, TypeOK, CallType, Texted, TextedCall, InHandler
    <3> QED BY <3>2, <3>4
  <2>2. CASE ~ Refused(q) /\ \E t \in Content(q) :
               call' = [call EXCEPT ![q] = [@ EXCEPT !.at = "selected", !.seen = entry.body, !.text = t]]
    <3>1. PICK t \in Content(q) :
            call' = [call EXCEPT ![q] = [@ EXCEPT !.at = "selected", !.seen = entry.body, !.text = t]]
      BY <2>2
    <3>2. call[q].at = "sent" /\ UNCHANGED <<ui, entry, revs, fresh, typed, calm>>
      BY <1>9 DEF Select
    <3>3. beside' \subseteq Calls
      BY <1>9 DEF Select, Beside, TypeOK
    <3>4. t \in TextOrNone /\ (call[q].kind = "restore" => t # NoText)
                           /\ (call[q].kind # "restore" => t = call[q].text)
      BY <3>1 DEF Content, TypeOK, Texted, Revision, CallType
    <3>5. entry.body \in TextOrNone /\ ~ entry.sealed
      BY <2>2 DEF Refused, TypeOK, EntryType, CallType, Kinds
    <3>6. call' \in [Calls -> CallType]
      <4>1. [call[q] EXCEPT !.at = "selected", !.seen = entry.body, !.text = t] \in CallType
        BY <3>4, <3>5 DEF TypeOK, CallType
      <4> QED BY <3>1, <4>1 DEF TypeOK
    <3>7. TypeOK'
      BY <3>2, <3>3, <3>6 DEF TypeOK
    <3>8. \A p \in Calls : /\ call'[p].kind = call[p].kind /\ call'[p].number = call[p].number
                           /\ p # q => call'[p] = call[p]
      BY <3>1 DEF TypeOK, CallType
    <3>9. call'[q].at = "selected" /\ call'[q].seen = entry.body /\ call'[q].text = t
      BY <3>1 DEF TypeOK, CallType
    <3>10. /\ call[q].kind = "seal" => call[q].number = 0
           /\ entry.body # NoText
           /\ call[q].kind # "publish" => t # NoText
      BY <3>2, <3>4, <3>5 DEF Texted, TextedCall, TypeOK, CallType, Kinds
    <3>11. TextedCall(q)'
      BY <3>2, <3>5, <3>8, <3>9, <3>10 DEF TextedCall, InHandler
    <3>12. \A p \in Calls : p # q => TextedCall(p)'
      BY <3>2, <3>8 DEF Texted, TextedCall, InHandler
    <3>13. Texted'
      BY <3>2, <3>11, <3>12 DEF Texted
    <3> QED BY <3>7, <3>13
  <2> QED BY <1>9, <2>1, <2>2 DEF Select
<1>10. ASSUME NEW q \in Calls, Snapshot(q) \/ Purge(q) PROVE Typed'
  <2>1. PICK n \in Nat, D \in SUBSET revs :
          /\ call' = [call EXCEPT ![q] = [@ EXCEPT !.at = "ready", !.number = n, !.doomed = D]]
          /\ call[q].kind = "seal" => n = 0
    <3>1. CASE Snapshot(q)
      <4>1. PICK m \in {0} \cup {r.number : r \in revs} :
              call' = [call EXCEPT ![q] = [@ EXCEPT
                !.at = "ready",
                !.number = IF SnapshotDue(q) THEN m + 1 ELSE 0,
                !.doomed = IF SnapshotDue(q)
                           THEN {r \in revs : Cardinality({s \in revs : s.number >= r.number}) >= MaxRevisions}
                           ELSE {}]]
        BY <3>1 DEF Snapshot
      <4>2. m \in Nat
        BY DEF TypeOK, Revision
      <4> DEFINE n == IF SnapshotDue(q) THEN m + 1 ELSE 0
                 D == IF SnapshotDue(q)
                      THEN {r \in revs : Cardinality({s \in revs : s.number >= r.number}) >= MaxRevisions}
                      ELSE {}
      <4>3. n \in Nat /\ D \in SUBSET revs
        BY <4>2
      <4>4. call[q].kind # "seal"
        BY <3>1 DEF Snapshot
      <4> HIDE DEF n, D
      <4>5. call' = [call EXCEPT ![q] = [@ EXCEPT !.at = "ready", !.number = n, !.doomed = D]]
        BY <4>1 DEF n, D
      <4> QED BY <4>3, <4>4, <4>5
    <3>2. CASE Purge(q)
      <4>1. call' = [call EXCEPT ![q] = [@ EXCEPT !.at = "ready", !.doomed = revs]]
            /\ call[q].kind = "seal"
        BY <3>2 DEF Purge
      <4>2. call[q].number = 0 /\ call \in [Calls -> CallType]
        BY <4>1 DEF Texted, TextedCall, TypeOK
      <4>3. [call[q] EXCEPT !.at = "ready", !.doomed = revs]
              = [call[q] EXCEPT !.at = "ready", !.number = 0, !.doomed = revs]
        BY <4>2 DEF CallType
      <4> QED BY <4>1, <4>3
    <3> QED BY <1>10, <3>1, <3>2
  <2>2. call[q].at = "selected" /\ UNCHANGED <<ui, entry, revs, fresh, typed, beside, calm>>
    BY <1>10 DEF Snapshot, Purge
  <2>3. call' \in [Calls -> CallType]
    <3>1. [call[q] EXCEPT !.at = "ready", !.number = n, !.doomed = D] \in CallType
      BY <2>1 DEF TypeOK, CallType
    <3> QED BY <2>1, <3>1 DEF TypeOK
  <2>4. TypeOK'
    BY <2>2, <2>3 DEF TypeOK
  <2>5. \A p \in Calls : /\ call'[p].kind = call[p].kind /\ call'[p].text = call[p].text
                         /\ call'[p].seen = call[p].seen
                         /\ p # q => call'[p] = call[p]
    BY <2>1 DEF TypeOK, CallType
  <2>6. call'[q].at = "ready" /\ call'[q].number = n
    BY <2>1 DEF TypeOK, CallType
  <2>7. TextedCall(q)'
    BY <2>1, <2>2, <2>5, <2>6 DEF Texted, TextedCall, InHandler
  <2>8. \A p \in Calls : p # q => TextedCall(p)'
    BY <2>2, <2>5 DEF Texted, TextedCall, InHandler
  <2>9. Texted'
    BY <2>2, <2>7, <2>8 DEF Texted
  <2> QED BY <2>4, <2>9
<1>11. ASSUME NEW q \in Calls, Commit(q) PROVE Typed'
  <2>1. call' = Reached(q, IF call[q].kind = "restore" THEN "committed" ELSE "answered")
        /\ call[q].at = "ready" /\ entry' = Written(q) /\ UNCHANGED <<ui, typed, beside, calm>>
    BY <1>11 DEF Commit
  <2>2. call' \in [Calls -> CallType]
    BY <2>1 DEF Reached, TypeOK, CallType
  <2>3. call[q].seen \in TextOrNone \ {NoText} /\ call[q].number \in Nat
    BY <2>1 DEF TypeOK, CallType, Texted, TextedCall, InHandler
  <2>4. revs' \subseteq Revision /\ \A r \in revs' : r.text # NoText
    BY <1>11, <2>3 DEF Commit, TypeOK, Texted, Revision
  <2>5. fresh' \in BOOLEAN
    BY <1>11 DEF Commit, TypeOK
  <2>6. entry' \in EntryType
    BY <2>1, WrittenType
  <2>7. /\ entry'.sealed <=> entry.sealed \/ call[q].kind = "seal"
        /\ entry'.payload = IF call[q].kind = "seal" THEN call[q].text ELSE entry.payload
        /\ entry'.body = CASE call[q].kind \in {"save", "restore"} -> NewBody(q, call[q].text)
                           [] call[q].kind = "seal" -> NewBody(q, NoText)
                           [] call[q].kind = "publish" -> entry.body
    BY <2>1 DEF Written, TypeOK, EntryType, CallType, Kinds
  <2>8. call[q].kind # "publish" => call[q].text # NoText
    BY <2>1 DEF Texted, TextedCall, InHandler
  <2>9. entry'.sealed <=> entry'.payload # NoText
    BY <2>7, <2>8 DEF TypeOK
  <2>10. TypeOK'
    BY <2>1, <2>2, <2>4, <2>5, <2>6, <2>9 DEF TypeOK
  <2>11. ~ entry'.sealed => entry'.body # NoText
    BY <2>7, <2>8 DEF Texted, NewBody, TypeOK, CallType, Kinds
  <2>12. \A p \in Calls : /\ call'[p].kind = call[p].kind /\ call'[p].text = call[p].text
                          /\ call'[p].seen = call[p].seen /\ call'[p].number = call[p].number
                          /\ p # q => call'[p] = call[p]
    BY <2>1 DEF Reached, TypeOK, CallType
  <2>13. call'[q].at = IF call[q].kind = "restore" THEN "committed" ELSE "answered"
    BY <2>1 DEF Reached, TypeOK, CallType
  <2>14. TextedCall(q)'
    BY <2>1, <2>7, <2>12, <2>13 DEF Texted, TextedCall, InHandler
  <2>15. \A p \in Calls : p # q => TextedCall(p)'
    BY <2>7, <2>12 DEF Texted, TextedCall, InHandler
  <2>16. Texted'
    BY <2>1, <2>4, <2>7, <2>11, <2>14, <2>15 DEF Texted
  <2> QED BY <2>10, <2>16
<1>12. ASSUME NEW q \in Calls, Rollback(q) PROVE Typed'
  <2>1. TypeOK'
    BY <1>12 DEF Rollback, Reached, TypeOK, CallType
  <2>2. Texted'
    BY <1>12 DEF Rollback, Reached, TypeOK, CallType, Texted, TextedCall, InHandler
  <2> QED BY <2>1, <2>2
<1>13. ASSUME NEW q \in Calls, Refresh(q) PROVE Typed'
  <2>1. entry.body \in TextOrNone
    BY DEF TypeOK, EntryType
  <2>2. TypeOK'
    <3>1. [call[q] EXCEPT !.at = "answered", !.text = entry.body] \in CallType
      BY <2>1 DEF TypeOK, CallType
    <3> QED BY <1>13, <3>1 DEF Refresh, TypeOK
  <2>3. /\ call'[q].kind = "restore" /\ call'[q].at = "answered" /\ call'[q].text = entry.body
        /\ \A p \in Calls : p # q => call'[p] = call[p]
    BY <1>13 DEF Refresh, TypeOK, CallType, Texted, TextedCall
  <2>4. TextedCall(q)'
    BY <1>13, <2>3 DEF Refresh, Texted, TextedCall, InHandler
  <2>5. \A p \in Calls : p # q => TextedCall(p)'
    BY <1>13, <2>3 DEF Refresh, Texted, TextedCall, InHandler
  <2>6. Texted'
    BY <1>13, <2>4, <2>5 DEF Refresh, Texted
  <2> QED BY <2>2, <2>6
<1>14. CASE UNCHANGED vars
  BY <1>14 DEF vars, TypeOK, Texted, TextedCall, InHandler
<1> QED BY <1>1, <1>2, <1>3, <1>4, <1>5, <1>6, <1>7, <1>8, <1>9, <1>10, <1>11, <1>12, <1>13, <1>14
        DEF Next, Handle
-----------------------------------------------------------------------------
(* The seal.                                                               *)

\* A seal that commits with nothing beside it leaves no plaintext.
LEMMA SealingNext == Inv /\ [Next]_vars => Numbered' /\ Sealing' /\ SealHolds'
<1> SUFFICES ASSUME Inv, [Next]_vars PROVE Numbered' /\ Sealing' /\ SealHolds' OBVIOUS
<1>1. TypeOK /\ Texted /\ Typed'
  BY TypedNext DEF Inv, Typed
<1>2. ASSUME NEW q \in Calls, \/ Autosave(q) \/ AskRestore(q) \/ AskSeal(q) \/ AskPublish(q)
                              \/ Hear(q) \/ GiveUp(q) \/ Rollback(q) \/ Refresh(q)
      PROVE  /\ UNCHANGED <<entry, revs, beside>>
             /\ \A p \in Calls : p # q => call'[p] = call[p]
             /\ InHandler(q)' => call'[q] = [call[q] EXCEPT !.awaited = FALSE]
  <2>1. CASE Autosave(q) \/ AskRestore(q) \/ AskSeal(q) \/ AskPublish(q)
    <3>1. PICK k \in Kinds, t \in TextOrNone, n \in Nat : Send(q, k, t, n)
      BY <1>1, <2>1, TextsTyped
         DEF Autosave, AskRestore, AskSeal, AskPublish, Kinds, TypeOK, PageType, Revision
    <3> QED BY <1>1, <3>1 DEF Send, Unsent, InHandler, TypeOK, CallType
  <2>2. CASE Hear(q) \/ GiveUp(q)
    BY <1>1, <2>2 DEF Hear, GiveUp, InHandler, TypeOK, CallType
  <2>3. CASE Rollback(q)
    BY <1>1, <2>3 DEF Rollback, Reached, InHandler, TypeOK, CallType
  <2>4. CASE Refresh(q)
    BY <1>1, <2>4 DEF Refresh, InHandler, TypeOK, CallType
  <2> QED BY <1>2, <2>1, <2>2, <2>3, <2>4
<1>3. ASSUME UNCHANGED <<entry, revs, beside>>,
             \A p \in Calls : InHandler(p)' => /\ call'[p].at = call[p].at /\ call'[p].kind = call[p].kind
                                               /\ call'[p].number = call[p].number
                                               /\ call'[p].doomed = call[p].doomed
      PROVE  Numbered' /\ Sealing' /\ SealHolds'
  BY <1>3 DEF Inv, Numbered, Sealing, SealHolds, InHandler
<1>4. ASSUME Type \/ Reopen \/ TenMinutesPass \/ UNCHANGED vars
      PROVE  Numbered' /\ Sealing' /\ SealHolds'
  <2>1. UNCHANGED <<entry, revs, beside>>
    BY <1>4 DEF Type, Reopen, TenMinutesPass, vars
  <2>2. \A p \in Calls : /\ call'[p].at = call[p].at /\ call'[p].kind = call[p].kind
                         /\ call'[p].number = call[p].number /\ call'[p].doomed = call[p].doomed
    BY <1>1, <1>4 DEF Type, Reopen, TenMinutesPass, vars, TypeOK, CallType
  <2> QED BY <1>3, <2>1, <2>2
<1>5. ASSUME NEW q \in Calls, \/ Autosave(q) \/ AskRestore(q) \/ AskSeal(q) \/ AskPublish(q)
                              \/ Hear(q) \/ GiveUp(q) \/ Rollback(q) \/ Refresh(q)
      PROVE  Numbered' /\ Sealing' /\ SealHolds'
  <2>1. \A p \in Calls : InHandler(p)' => /\ call'[p].at = call[p].at /\ call'[p].kind = call[p].kind
                                          /\ call'[p].number = call[p].number
                                          /\ call'[p].doomed = call[p].doomed
    <3>1. \A p \in Calls : p # q => call'[p] = call[p]
      BY <1>2, <1>5
    <3>2. InHandler(q)' => call'[q] = [call[q] EXCEPT !.awaited = FALSE]
      BY <1>2, <1>5
    <3>3. call[q] \in CallType
      BY <1>1 DEF TypeOK
    <3>4. InHandler(q)' => /\ call'[q].at = call[q].at /\ call'[q].kind = call[q].kind
                           /\ call'[q].number = call[q].number
                           /\ call'[q].doomed = call[q].doomed
      BY <3>2, <3>3 DEF CallType
    <3> QED BY <3>1, <3>4
  <2> QED BY <1>2, <1>3, <1>5, <2>1
<1>6. ASSUME NEW q \in Calls, Select(q) PROVE Numbered' /\ Sealing' /\ SealHolds'
  <2>1. UNCHANGED <<entry, revs>> /\ call[q].at = "sent"
    BY <1>6 DEF Select
  <2>2. CASE call' = Reached(q, IF Refused(q) THEN "refused" ELSE "answered") /\ UNCHANGED beside
    <3>1. \A p \in Calls : InHandler(p)' => p # q /\ call'[p] = call[p]
      BY <1>1, <2>2 DEF Reached, InHandler, TypeOK, CallType
    <3> QED BY <1>3, <2>1, <2>2, <3>1
  <2>3. CASE /\ ~ Refused(q)
             /\ \E t \in Content(q) :
                  call' = [call EXCEPT ![q] = [@ EXCEPT !.at = "selected", !.seen = entry.body, !.text = t]]
             /\ beside' = beside \cup Beside(q)
    <3>1. /\ call'[q].at = "selected" /\ call'[q].kind = call[q].kind
          /\ \A p \in Calls : p # q => call'[p] = call[p]
      BY <1>1, <2>3 DEF TypeOK, CallType
    <3>2. ~ entry.sealed /\ (call[q].kind = "seal" => ~ entry.public)
      BY <1>1, <2>3 DEF Refused, TypeOK, CallType, Kinds
    <3>3. \A p \in Calls : p # q /\ InHandler(p) /\ "seal" \in {call[p].kind, call[q].kind} => p \in beside'
      BY <2>3 DEF Beside
    <3>4. beside' = {} => beside = {}
      BY <2>3
    <3>5. Numbered'
      BY <3>1 DEF Inv, Numbered
    <3>6. Sealing'
      <4>1. ASSUME NEW p \in Calls, NEW r \in Calls, p # r, InHandler(p)', InHandler(r)',
                   call'[r].kind = "seal"
            PROVE  beside' # {}
        <5>1. CASE p = q
          BY <3>1, <3>3, <4>1, <5>1 DEF InHandler
        <5>2. CASE r = q
          BY <3>1, <3>3, <4>1, <5>2 DEF InHandler
        <5>3. CASE p # q /\ r # q
          BY <3>1, <3>4, <4>1, <5>3 DEF InHandler, Inv, Sealing
        <5> QED BY <5>1, <5>2, <5>3
      <4>2. ASSUME beside' = {}, NEW p \in Calls
            PROVE  /\ InHandler(p)' => ~ entry'.sealed
                   /\ InHandler(p)' /\ call'[p].kind = "seal" => ~ entry'.public
                   /\ call'[p].at = "ready" /\ call'[p].kind = "seal" => revs' \subseteq call'[p].doomed
        BY <2>1, <3>1, <3>2, <3>4, <4>2 DEF InHandler, Inv, Sealing
      <4> QED BY <4>1, <4>2 DEF Sealing
    <3>7. SealHolds'
      BY <2>1, <3>2 DEF SealHolds
    <3> QED BY <3>5, <3>6, <3>7
  <2> QED BY <1>6, <2>2, <2>3 DEF Select
<1>7. ASSUME NEW q \in Calls, Snapshot(q) \/ Purge(q) PROVE Numbered' /\ Sealing' /\ SealHolds'
  <2>1. UNCHANGED <<entry, revs, beside>> /\ call[q].at = "selected"
    BY <1>7 DEF Snapshot, Purge
  <2>2. /\ call'[q].at = "ready" /\ call'[q].kind = call[q].kind
        /\ call[q].kind = "seal" => call'[q].doomed = revs
        /\ \A p \in Calls : p # q => call'[p] = call[p]
    <3>1. CASE Snapshot(q)
      BY <1>1, <3>1 DEF Snapshot, TypeOK, CallType
    <3>2. CASE Purge(q)
      BY <1>1, <3>2 DEF Purge, TypeOK, CallType
    <3> QED BY <1>7, <3>1, <3>2
  <2>3. call[q].kind = "restore" => call'[q].number # 0
    <3>1. ASSUME call[q].kind = "restore" PROVE call'[q].number # 0
      <4>1. PICK m \in {0} \cup {r.number : r \in revs} :
              /\ Snapshot(q)
              /\ call'[q] = [call[q] EXCEPT
                   !.at = "ready", !.number = m + 1,
                   !.doomed = {r \in revs : Cardinality({s \in revs : s.number >= r.number}) >= MaxRevisions}]
        BY <1>1, <1>7, <3>1 DEF Snapshot, Purge, SnapshotDue, TypeOK
      <4>2. m \in Nat
        BY <1>1 DEF TypeOK, Revision
      <4> QED BY <1>1, <4>1, <4>2 DEF TypeOK, CallType
    <3> QED BY <3>1
  <2>4. Numbered'
    BY <2>2, <2>3 DEF Inv, Numbered
  <2>5. Sealing'
    BY <2>1, <2>2 DEF Inv, Sealing, InHandler
  <2>6. SealHolds'
    BY <2>1 DEF Inv, SealHolds
  <2> QED BY <2>4, <2>5, <2>6
<1>8. ASSUME NEW q \in Calls, Commit(q) PROVE Numbered' /\ Sealing' /\ SealHolds'
  <2>1. /\ call[q].at = "ready" /\ UNCHANGED beside /\ entry' = Written(q)
        /\ revs' = (revs \ call[q].doomed)
                   \cup {[number |-> n, text |-> call[q].seen] : n \in {call[q].number} \ {0}}
    BY <1>8 DEF Commit
  <2>2. ~ InHandler(q)' /\ \A p \in Calls : p # q => call'[p] = call[p]
    BY <1>1, <1>8 DEF Commit, Reached, InHandler, TypeOK, CallType
  <2>3. Numbered'
    BY <2>2 DEF Inv, Numbered, InHandler
  <2>4. CASE beside # {}
    BY <2>1, <2>3, <2>4 DEF Sealing, SealHolds
  <2>5. CASE beside = {} /\ call[q].kind = "seal"
    <3>1. \A p \in Calls : ~ InHandler(p)'
      BY <2>1, <2>2, <2>5 DEF Inv, Sealing, InHandler
    <3>2. revs' = {}
      <4>1. call[q].number = 0
        BY <1>1, <2>5 DEF Texted, TextedCall
      <4>2. revs \subseteq call[q].doomed
        BY <2>1, <2>5 DEF Inv, Sealing
      <4> QED BY <2>1, <4>1, <4>2
    <3>3. entry'.body = NoText /\ ~ entry'.public
      <4>1. call[q].seen # NoText /\ ~ entry.public
        BY <1>1, <2>1, <2>5 DEF Texted, TextedCall, InHandler, Inv, Sealing
      <4> QED BY <1>1, <2>1, <2>5, <4>1 DEF Written, NewBody, TypeOK, EntryType
    <3> QED BY <2>1, <2>3, <2>5, <3>1, <3>2, <3>3 DEF Sealing, SealHolds, InHandler
  <2>6. CASE beside = {} /\ call[q].kind # "seal"
    <3>1. ~ entry.sealed
      BY <2>1, <2>6 DEF Inv, Sealing, InHandler
    <3>2. ~ entry'.sealed
      BY <1>1, <2>1, <2>6, <3>1 DEF Written, TypeOK, EntryType, CallType, Kinds
    <3>3. \A p \in Calls : InHandler(p)' => call'[p].kind # "seal"
      BY <2>1, <2>2, <2>6 DEF Inv, Sealing, InHandler
    <3>4. Sealing'
      BY <2>1, <2>2, <2>6, <3>2, <3>3 DEF Inv, Sealing, InHandler
    <3> QED BY <2>3, <3>2, <3>4 DEF SealHolds
  <2> QED BY <2>4, <2>5, <2>6
<1> QED BY <1>4, <1>5, <1>6, <1>7, <1>8 DEF Next, Handle

\* Inv holds at the start and through every step.
LEMMA Inductive == Spec => []Inv
<1>1. Init => Inv
  BY TypedInit DEF Init, Inv, Numbered, Sealing, SealHolds, InHandler, Unsent
<1>2. Inv /\ [Next]_vars => Inv'
  BY TypedNext, SealingNext DEF Inv
<1> QED BY <1>1, <1>2, PTL DEF Spec

-----------------------------------------------------------------------------
\* The types, and a sealed entry has a payload (seal_entry, entries.py).
THEOREM TypeCorrect == Spec => []TypeOK
<1>1. Inv => TypeOK
  BY DEF Inv, Typed
<1> QED BY <1>1, Inductive, PTL

\* A sealed entry keeps no plaintext, in its row or its history, and is not public,
\* unless a request was between its read and its commit beside the seal.
THEOREM SealIsFinal == Spec => []SealHolds
<1>1. Inv => SealHolds
  BY DEF Inv
<1> QED BY <1>1, Inductive, PTL

\* A restore leaves the text it replaces in the history (restore_revision).
THEOREM RestoreIsSafe == Spec => RestoreKeepsTheText
<1> DEFINE Kept == \A q \in Calls :
       /\ call[q].kind = "restore" /\ call[q].at = "ready" /\ call'[q].at = "committed"
       /\ entry.body = call[q].seen
       => \E r \in revs' : r.text = entry.body
<1>1. Inv /\ [Next]_vars => [Kept]_vars
  <2> SUFFICES ASSUME Inv, Next,
                      NEW q \in Calls, call[q].kind = "restore", call[q].at = "ready",
                      call'[q].at = "committed", entry.body = call[q].seen
               PROVE  \E r \in revs' : r.text = entry.body
    OBVIOUS
  <2>1. TypeOK /\ call[q].number # 0
    BY DEF Inv, Typed, Numbered
  <2>2. CASE Commit(q)
    <3>1. [number |-> call[q].number, text |-> call[q].seen] \in revs'
      BY <2>1, <2>2 DEF Commit
    <3> QED BY <3>1
  <2>3. ASSUME NEW p \in Calls, p # q \/ ~ Commit(q),
               \/ Autosave(p) \/ AskRestore(p) \/ AskSeal(p) \/ AskPublish(p)
               \/ Hear(p) \/ GiveUp(p) \/ Handle(p)
        PROVE  call'[q].at # "committed"
    <3>1. CASE Autosave(p) \/ AskRestore(p) \/ AskSeal(p) \/ AskPublish(p)
      <4>1. PICK k, t, n : Send(p, k, t, n)
        BY <3>1 DEF Autosave, AskRestore, AskSeal, AskPublish
      <4>2. call'[p].at = "sent" /\ \A r \in Calls : r # p => call'[r] = call[r]
        BY <2>1, <4>1 DEF Send, Unsent, TypeOK
      <4> QED BY <4>2
    <3>2. CASE Hear(p) \/ GiveUp(p)
      BY <2>1, <3>2 DEF Hear, GiveUp, TypeOK, CallType
    <3>3. CASE Select(p)
      BY <2>1, <3>3 DEF Select, Reached, TypeOK, CallType
    <3>4. CASE Snapshot(p) \/ Purge(p)
      BY <2>1, <3>4 DEF Snapshot, Purge, TypeOK, CallType
    <3>5. CASE Commit(p) \/ Rollback(p)
      BY <2>1, <2>3, <3>5 DEF Commit, Rollback, Reached, TypeOK, CallType
    <3>6. CASE Refresh(p)
      BY <2>1, <3>6 DEF Refresh, TypeOK, CallType
    <3> QED BY <2>3, <3>1, <3>2, <3>3, <3>4, <3>5, <3>6 DEF Handle
  <2>4. ASSUME Type \/ Reopen \/ TenMinutesPass PROVE call'[q].at # "committed"
    BY <2>1, <2>4 DEF Type, Reopen, TenMinutesPass, TypeOK, CallType
  <2> QED BY <2>2, <2>3, <2>4 DEF Next, Handle
<1> QED BY <1>1, Inductive, PTL DEF Spec, RestoreKeepsTheText

-----------------------------------------------------------------------------
(* What is on the screen.                                                  *)

\* While one thing is done at a time, a request is under way alone and awaited.
Alone ==
  /\ beside = {}
  /\ \A q \in Calls : call[q].awaited => call[q].at # "unsent"
  /\ \A q \in Calls : Open(q) => call[q].awaited
  /\ \A p, q \in Calls : call[p].awaited /\ call[q].awaited => p = q

\* So what it read is still what the row holds, and what it wrote as well.
Reading == \A q \in Calls :
  /\ InHandler(q) => call[q].seen = entry.body
  /\ /\ call[q].awaited /\ call[q].kind \in {"save", "restore"} /\ call[q].at = "answered"
     => entry.body = call[q].text

\* What the page shows while the debounce runs, and while a save is under way.
Waiting ==
  /\ ui.timer => ui.pendingDoc = ui.shown /\ ~ Awaits({"restore", "seal"})
  /\ \A q \in Calls : call[q].awaited /\ call[q].kind = "save" /\ ~ ui.timer =>
       call[q].text = ui.shown /\ ui.status = "saving"

\* A page that says Saved shows the row, until a request it awaits has written.
Wrote(q) == call[q].kind # "publish" /\ call[q].at \in {"committed", "answered"}

Stored ==
  ~ ui.timer /\ ui.status = "saved" /\ (\A q \in Calls : call[q].awaited => ~ Wrote(q))
  => entry.body = ui.shown

Screen == calm => Alone /\ Reading /\ Waiting /\ Stored

\* The page knows of its seal, or awaits it; and with no restore the text it would
\* seal is the one it shows.
NoRestore == \A q \in Calls : call[q].kind # "restore"

Shut ==
  /\ entry.sealed => ui.sealed \/ Awaits({"seal"})
  /\ \A q \in Calls : call[q].awaited /\ call[q].kind = "seal" =>
       /\ entry.sealed <=> call[q].at = "answered"
       /\ NoRestore => call[q].text = ui.shown
  /\ NoRestore =>
       /\ ui.shown = IF ui.pendingDoc # NoText THEN ui.pendingDoc ELSE ui.doc
       /\ entry.sealed /\ ui.shown # NoText => entry.payload = ui.shown

\* A request that is sent: the page's texts stay as they are.
LEMMA SendStep ==
  ASSUME TypeOK, NEW q \in Calls, Autosave(q) \/ AskRestore(q) \/ AskSeal(q) \/ AskPublish(q)
  PROVE  /\ UNCHANGED <<entry, beside>>
         /\ calm' => calm /\ NoneOpen /\ ~ ui'.timer
         /\ call[q].at = "unsent" /\ ~ call[q].awaited /\ call[q].kind = "save"
         /\ call'[q].at = "sent" /\ call'[q].awaited
         /\ \A p \in Calls : p # q => call'[p] = call[p]
         /\ ui'.shown = ui.shown /\ ui'.doc = ui.doc /\ ui'.pendingDoc = ui.pendingDoc
         /\ ui'.sealed = ui.sealed
         /\ \/ /\ call'[q].kind = "save" /\ call'[q].text = ui.pendingDoc
               /\ ui.timer /\ ui'.status = "saving"
            \/ /\ call'[q].kind \in {"restore", "publish"}
               /\ ui'.status = ui.status /\ (calm' => ~ ui.timer)
            \/ /\ call'[q].kind = "seal" /\ ~ ui.sealed
               /\ call'[q].text = IF ui.pendingDoc # NoText THEN ui.pendingDoc ELSE ui.doc
               /\ ui'.status = ui.status /\ (calm' => ~ ui.timer)
<1>1. CASE Autosave(q)
  BY <1>1 DEF Autosave, Send, Unsent, TypeOK, PageType, CallType
<1>2. CASE AskRestore(q)
  <2>1. PICK r \in revs : Send(q, "restore", NoText, r.number) /\ UNCHANGED ui
    BY <1>2 DEF AskRestore
  <2> QED BY <2>1 DEF Send, Unsent, TypeOK, PageType, CallType
<1>3. CASE AskSeal(q)
  BY <1>3 DEF AskSeal, Send, Unsent, TypeOK, PageType, CallType
<1>4. CASE AskPublish(q)
  BY <1>4 DEF AskPublish, Send, Unsent, TypeOK, PageType, CallType
<1> QED BY <1>1, <1>2, <1>3, <1>4

\* An answer that is heard.
LEMMA HearStep ==
  ASSUME TypeOK, NEW q \in Calls, Hear(q)
  PROVE  /\ UNCHANGED <<entry, beside, calm>>
         /\ call[q].awaited /\ Handled(q) /\ ~ call'[q].awaited
         /\ \A p \in Calls : /\ p # q => call'[p] = call[p]
                             /\ call'[p].kind = call[p].kind /\ call'[p].at = call[p].at
                             /\ call'[p].text = call[p].text /\ call'[p].seen = call[p].seen
         /\ ui'.timer = ui.timer /\ ui'.pendingDoc = ui.pendingDoc
         /\ \/ /\ call[q].kind = "save" /\ ui'.shown = ui.shown /\ ui'.doc = ui.doc
               /\ ui'.sealed = ui.sealed
               /\ ui'.status = IF call[q].at = "answered" THEN "saved" ELSE "error"
            \/ /\ call[q].kind = "restore" /\ call[q].at = "answered"
               /\ ui'.shown = call[q].text /\ ui'.sealed = ui.sealed
            \/ /\ call[q].kind = "seal" /\ call[q].at = "answered"
               /\ ui'.shown = ui.shown /\ ui'.doc = ui.doc /\ ui'.sealed /\ ui'.status = "idle"
            \/ /\ call[q].kind \in {"restore", "seal"} => call[q].at # "answered"
               /\ call[q].kind # "save" /\ ui' = ui
<1>1. /\ UNCHANGED <<entry, beside, calm>> /\ call[q].awaited /\ Handled(q)
      /\ call' = [call EXCEPT ![q].awaited = FALSE]
      /\ ui' = Answered(q, call[q].at = "answered")
  BY DEF Hear
<1>2. ui \in PageType /\ call[q].kind \in Kinds
  BY DEF TypeOK, CallType
<1>3. /\ ~ call'[q].awaited
      /\ \A p \in Calls : /\ p # q => call'[p] = call[p]
                          /\ call'[p].kind = call[p].kind /\ call'[p].at = call[p].at
                          /\ call'[p].text = call[p].text /\ call'[p].seen = call[p].seen
  BY <1>1 DEF TypeOK, CallType
<1>4. CASE call[q].kind = "save"
  BY <1>1, <1>2, <1>3, <1>4 DEF Answered, PageType
<1>5. CASE call[q].kind = "restore"
  BY <1>1, <1>2, <1>3, <1>5 DEF Answered, PageType
<1>6. CASE call[q].kind = "seal"
  BY <1>1, <1>2, <1>3, <1>6 DEF Answered, PageType
<1>7. CASE call[q].kind = "publish"
  BY <1>1, <1>2, <1>3, <1>7 DEF Answered, PageType
<1> QED BY <1>2, <1>4, <1>5, <1>6, <1>7 DEF Kinds

\* A step of a handler: it commits, or it leaves the row alone.
LEMMA HandleStep ==
  ASSUME TypeOK, Texted, NEW q \in Calls, Handle(q)
  PROVE  /\ UNCHANGED <<ui, calm>>
         /\ beside' = beside \/ beside' = beside \cup Beside(q)
         /\ call[q].at \in {"sent", "selected", "ready", "committed"} /\ call'[q].at # "unsent"
         /\ call'[q].kind = call[q].kind /\ call'[q].awaited = call[q].awaited
         /\ call[q].kind # "restore" => call'[q].text = call[q].text
         /\ \A p \in Calls : p # q => call'[p] = call[p]
         /\ \/ /\ UNCHANGED entry /\ call'[q].at # "committed"
               /\ call[q].at = "committed" => call'[q].at = "answered"
               /\ call'[q].at = "answered" =>
                    \/ call[q].kind = "publish"
                    \/ call[q].kind = "restore" /\ call'[q].text = entry.body
               /\ InHandler(q)' => \/ InHandler(q) /\ call'[q].seen = call[q].seen
                                   \/ call'[q].seen = entry.body
            \/ /\ call[q].at = "ready" /\ entry' = Written(q)
               /\ call'[q].text = call[q].text
               /\ call'[q].at = IF call[q].kind = "restore" THEN "committed" ELSE "answered"
<1>1. CASE Select(q)
  <2>1. UNCHANGED <<ui, entry, calm>> /\ call[q].at = "sent"
    BY <1>1 DEF Select
  <2>2. CASE /\ Refused(q) \/ Idle(q)
             /\ call' = Reached(q, IF Refused(q) THEN "refused" ELSE "answered")
             /\ UNCHANGED beside
    BY <2>1, <2>2 DEF Reached, InHandler, Idle, TypeOK, CallType
  <2>3. CASE /\ \E t \in Content(q) :
                  call' = [call EXCEPT ![q] = [@ EXCEPT !.at = "selected", !.seen = entry.body, !.text = t]]
             /\ beside' = beside \cup Beside(q)
    BY <2>1, <2>3 DEF Content, InHandler, TypeOK, CallType
  <2> QED BY <1>1, <2>2, <2>3 DEF Select
<1>2. CASE Snapshot(q)
  BY <1>2 DEF Snapshot, InHandler, TypeOK, CallType
<1>3. CASE Purge(q)
  BY <1>3 DEF Purge, InHandler, TypeOK, CallType
<1>4. CASE Commit(q)
  BY <1>4 DEF Commit, Reached, TypeOK, CallType
<1>5. CASE Rollback(q)
  BY <1>5 DEF Rollback, Reached, InHandler, TypeOK, CallType
<1>6. CASE Refresh(q)
  BY <1>6 DEF Refresh, InHandler, TypeOK, CallType, Texted, TextedCall
<1> QED BY <1>1, <1>2, <1>3, <1>4, <1>5, <1>6 DEF Handle

\* The page is opened again.
LEMMA ReopenStep ==
  ASSUME TypeOK, Reopen
  PROVE  /\ UNCHANGED <<entry, beside>> /\ ui' = Hydrated(entry)
         /\ calm' => calm /\ NoneOpen
         /\ \A q \in Calls : /\ ~ call'[q].awaited /\ call'[q].at = call[q].at
                             /\ call'[q].kind = call[q].kind /\ call'[q].seen = call[q].seen
BY DEF Reopen, TypeOK, CallType

\* An edit.
LEMMA TypeStep ==
  ASSUME TypeOK, Type
  PROVE  /\ UNCHANGED <<call, entry, beside>>
         /\ typed' \in Texts /\ typed' # NoText
         /\ ui'.shown = typed' /\ ui'.pendingDoc = typed' /\ ui'.doc = ui.doc
         /\ ui'.timer /\ ui'.status = "dirty" /\ ui'.sealed = ui.sealed /\ ~ ui.sealed
         /\ calm' => calm /\ ~ Awaits({"restore", "seal"})
<1>1. typed' \in Texts /\ typed' # NoText
  BY BoundsAssumption, NoTextAssumption DEF Type, TypeOK, Texts
<1> QED BY <1>1 DEF Type, TypeOK, PageType

\* While one thing is done at a time, nothing comes beside it.
LEMMA AloneNext ==
  ASSUME TypeOK, Texted, calm => Alone, [Next]_vars, calm'
  PROVE  calm /\ Alone /\ Alone'
<1>1. ASSUME Type \/ TenMinutesPass \/ UNCHANGED vars PROVE calm /\ Alone'
  BY <1>1 DEF Type, TenMinutesPass, vars, Alone, Open, Handled
<1>2. ASSUME Reopen PROVE calm /\ Alone'
  BY <1>2, ReopenStep DEF Alone, NoneOpen, Open, Handled
<1>3. ASSUME NEW q \in Calls, Autosave(q) \/ AskRestore(q) \/ AskSeal(q) \/ AskPublish(q)
      PROVE  calm /\ Alone'
  <2>1. calm /\ NoneOpen /\ call'[q].at = "sent" /\ call'[q].awaited /\ UNCHANGED beside
        /\ \A p \in Calls : p # q => call'[p] = call[p]
    BY <1>3, SendStep
  <2>2. \A p \in Calls : ~ call[p].awaited
    BY <2>1 DEF Alone, NoneOpen, Open
  <2> QED BY <2>1, <2>2 DEF Alone, Open, NoneOpen, Handled
<1>4. ASSUME NEW q \in Calls, Hear(q) PROVE calm /\ Alone'
  BY ZenonT(30), <1>4, HearStep DEF Alone, Open, Handled
<1>5. ASSUME NEW q \in Calls, GiveUp(q) PROVE FALSE
  BY <1>5 DEF GiveUp
<1>6. ASSUME NEW q \in Calls, Handle(q) PROVE calm /\ Alone'
  <2>1. /\ calm /\ Open(q) /\ call'[q].at # "unsent" /\ call'[q].awaited = call[q].awaited
        /\ beside' = beside \/ beside' = beside \cup Beside(q)
        /\ \A p \in Calls : p # q => call'[p] = call[p]
    BY <1>6, HandleStep DEF Open, Handled
  <2>2. Beside(q) = {}
    BY <2>1 DEF Beside, Alone, Open, InHandler, Handled
  <2>3. beside' = {}
    BY <2>1, <2>2 DEF Alone
  <2>4. call[q].awaited /\ \A p \in Calls : call'[p].awaited = call[p].awaited
    BY <2>1 DEF Alone
  <2>5. \A p \in Calls : Open(p)' => call'[p].awaited
    BY <2>1, <2>4 DEF Alone, Open, Handled
  <2> QED BY <2>1, <2>3, <2>4, <2>5 DEF Alone
<1> QED BY <1>1, <1>2, <1>3, <1>4, <1>5, <1>6 DEF Next

\* The one request under way, if any: nobody else is read, awaited or in a handler.
LEMMA OnlyOne ==
  ASSUME Alone, NEW q \in Calls, Open(q) \/ call[q].awaited, NEW p \in Calls, p # q
  PROVE  ~ Open(p) /\ ~ call[p].awaited /\ ~ InHandler(p)
BY DEF Alone, Open, InHandler, Handled

\* The page and the row through every step, while one thing is done at a time.
LEMMA ScreenNext == Typed /\ Screen /\ [Next]_vars => Screen'
<1> SUFFICES ASSUME Typed, Screen, [Next]_vars, calm'
             PROVE  Alone' /\ Reading' /\ Waiting' /\ Stored'
  BY DEF Screen
<1>1. TypeOK /\ Texted
  BY DEF Typed
<1>2. calm /\ Alone /\ Alone' /\ Reading /\ Waiting /\ Stored
  BY <1>1, AloneNext DEF Screen
<1>3. ASSUME Type PROVE Reading' /\ Waiting' /\ Stored'
  <2>1. /\ UNCHANGED <<call, entry>> /\ ui'.timer /\ ui'.pendingDoc = ui'.shown
        /\ ~ Awaits({"restore", "seal"})
    BY <1>1, <1>3, TypeStep
  <2>2. ~ Awaits({"restore", "seal"})'
    BY <2>1 DEF Awaits
  <2> QED BY <1>2, <2>1, <2>2 DEF Reading, Waiting, Stored, InHandler
<1>4. ASSUME TenMinutesPass \/ UNCHANGED vars PROVE Reading' /\ Waiting' /\ Stored'
  BY <1>2, <1>4 DEF TenMinutesPass, vars, Reading, Waiting, Stored, InHandler, Awaits, Wrote
<1>5. ASSUME Reopen PROVE Reading' /\ Waiting' /\ Stored'
  <2>1. /\ ~ ui'.timer /\ ui'.status = "idle" /\ UNCHANGED entry
        /\ \A q \in Calls : /\ ~ call'[q].awaited /\ call'[q].at = call[q].at
                            /\ call'[q].seen = call[q].seen
    BY <1>1, <1>5, ReopenStep DEF Hydrated
  <2> QED BY <1>2, <2>1 DEF Reading, Waiting, Stored, InHandler
<1>6. ASSUME NEW q \in Calls, Autosave(q) \/ AskRestore(q) \/ AskSeal(q) \/ AskPublish(q)
      PROVE  Reading' /\ Waiting' /\ Stored'
  <2>1. /\ UNCHANGED entry /\ NoneOpen /\ ~ ui'.timer /\ ui'.shown = ui.shown
        /\ call'[q].at = "sent" /\ call'[q].awaited
        /\ \A p \in Calls : p # q => call'[p] = call[p]
        /\ \/ /\ call'[q].kind = "save" /\ call'[q].text = ui.pendingDoc
              /\ ui.timer /\ ui'.status = "saving"
           \/ /\ call'[q].kind # "save" /\ ui'.status = ui.status /\ ~ ui.timer
    BY <1>1, <1>6, SendStep
  <2>2. \A p \in Calls : ~ call[p].awaited /\ ~ InHandler(p)
    BY <1>2, <2>1 DEF Alone, NoneOpen, Open, InHandler, Handled
  <2>3. Reading'
    BY <2>1, <2>2 DEF Reading, InHandler
  <2>4. Waiting'
    BY <1>2, <2>1, <2>2 DEF Waiting
  <2>5. Stored'
    BY <1>2, <2>1, <2>2 DEF Stored
  <2> QED BY <2>3, <2>4, <2>5
<1>7. ASSUME NEW q \in Calls, Hear(q) PROVE Reading' /\ Waiting' /\ Stored'
  <2>1. /\ UNCHANGED entry /\ call[q].awaited
        /\ \A p \in Calls : /\ call'[p].kind = call[p].kind /\ call'[p].at = call[p].at
                            /\ call'[p].text = call[p].text /\ call'[p].seen = call[p].seen
        /\ ui'.timer = ui.timer /\ ui'.pendingDoc = ui.pendingDoc
    BY <1>1, <1>7, HearStep
  <2>2. \A p \in Calls : ~ call'[p].awaited /\ (p # q => ~ call[p].awaited)
    BY <1>1, <1>2, <1>7, HearStep, OnlyOne
  <2>3. Reading'
    BY <1>2, <2>1, <2>2 DEF Reading, InHandler
  <2>4. SUFFICES /\ ui.timer => ui'.shown = ui.shown
                 /\ ~ ui.timer /\ ui'.status = "saved" => entry.body = ui'.shown
    <3>1. ~ Awaits({"restore", "seal"})'
      BY <2>2 DEF Awaits
    <3> QED BY <1>2, <2>1, <2>2, <2>3, <3>1 DEF Waiting, Stored
  <2>5. CASE /\ call[q].kind = "save" /\ ui'.shown = ui.shown
             /\ ui'.status = IF call[q].at = "answered" THEN "saved" ELSE "error"
    BY <1>2, <2>1, <2>5 DEF Waiting, Reading
  <2>6. CASE call[q].kind = "restore" /\ call[q].at = "answered" /\ ui'.shown = call[q].text
    BY <1>2, <2>1, <2>6 DEF Waiting, Reading, Awaits
  <2>7. CASE call[q].kind = "seal" /\ ui'.shown = ui.shown /\ ui'.status = "idle"
    BY <2>7
  <2>8. CASE (call[q].kind \in {"restore", "seal"} => call[q].at # "answered")
             /\ call[q].kind # "save" /\ ui' = ui
    <3>1. ~ Wrote(q)
      <4>1. Handled(q) /\ call[q].kind \in Kinds
        BY <1>1, <1>7, HearStep DEF TypeOK, CallType
      <4> QED BY <2>8, <4>1 DEF Wrote, Handled, Kinds
    <3> QED BY <1>2, <2>2, <2>8, <3>1 DEF Stored
  <2> QED BY <1>1, <1>7, <2>5, <2>6, <2>7, <2>8, HearStep
<1>8. ASSUME NEW q \in Calls, Handle(q) PROVE Reading' /\ Waiting' /\ Stored'
  <2>1. /\ UNCHANGED ui
        /\ call[q].at \in {"sent", "selected", "ready", "committed"}
        /\ call'[q].kind = call[q].kind /\ call'[q].awaited = call[q].awaited
        /\ call[q].kind # "restore" => call'[q].text = call[q].text
        /\ \A p \in Calls : p # q => call'[p] = call[p]
    BY <1>1, <1>8, HandleStep
  <2>2. call[q].awaited /\ \A p \in Calls : p # q => ~ call'[p].awaited /\ ~ InHandler(p)'
    <3>1. Open(q)
      BY <2>1 DEF Open, Handled
    <3>2. \A p \in Calls : p # q => ~ call[p].awaited /\ ~ InHandler(p)
      BY <1>2, <3>1, OnlyOne
    <3> QED BY <1>2, <2>1, <3>1, <3>2 DEF Alone, InHandler
  <2>3. Waiting'
    <3>1. Awaits({"restore", "seal"})' => Awaits({"restore", "seal"})
      BY <2>1 DEF Awaits
    <3> QED BY <1>2, <2>1, <3>1 DEF Waiting
  <2>4. CASE /\ UNCHANGED entry /\ call'[q].at # "committed"
             /\ call[q].at = "committed" => call'[q].at = "answered"
             /\ call'[q].at = "answered" =>
                  \/ call[q].kind = "publish"
                  \/ call[q].kind = "restore" /\ call'[q].text = entry.body
             /\ InHandler(q)' => \/ InHandler(q) /\ call'[q].seen = call[q].seen
                                 \/ call'[q].seen = entry.body
    <3>1. Reading'
      BY <1>2, <2>1, <2>2, <2>4 DEF Reading
    <3>2. Stored'
      <4>1. call[q].at # "committed" \/ call[q].kind = "restore"
        BY <1>1 DEF Texted, TextedCall
      <4>2. Wrote(q) => Wrote(q)'
        BY <2>1, <2>4, <4>1 DEF Wrote
      <4> QED BY <1>2, <2>1, <2>2, <2>4, <4>2 DEF Stored
    <3> QED BY <2>3, <3>1, <3>2
  <2>5. CASE /\ call[q].at = "ready" /\ entry' = Written(q)
             /\ call'[q].text = call[q].text
             /\ call'[q].at = IF call[q].kind = "restore" THEN "committed" ELSE "answered"
    <3>1. call[q].seen = entry.body
      BY <1>2, <2>5 DEF Reading, InHandler
    <3>2. /\ call[q].kind \in {"save", "restore"} => entry'.body = call[q].text
          /\ call[q].kind = "publish" => entry'.body = entry.body
      BY <1>1, <2>5, <3>1 DEF Written, NewBody, TypeOK, EntryType
    <3>3. Reading'
      BY <2>1, <2>2, <2>5, <3>2 DEF Reading, InHandler
    <3>4. Stored'
      <4>1. CASE call[q].kind = "publish"
        BY <1>2, <2>1, <2>2, <3>2, <4>1 DEF Stored, Wrote
      <4>2. CASE call[q].kind # "publish"
        BY <2>1, <2>2, <2>5, <4>2 DEF Stored, Wrote
      <4> QED BY <4>1, <4>2
    <3> QED BY <2>3, <3>3, <3>4
  <2> QED BY <1>1, <1>8, <2>4, <2>5, HandleStep
<1>9. ASSUME NEW q \in Calls, GiveUp(q) PROVE FALSE
  BY <1>9 DEF GiveUp
<1> QED BY <1>2, <1>3, <1>4, <1>5, <1>6, <1>7, <1>8, <1>9 DEF Next

\* No page's text but a restore's gets behind the page's back.
LEMMA ShutNext ==
  Inv /\ Screen /\ (calm => Shut) /\ [Next]_vars => (calm' => Shut')
<1> SUFFICES ASSUME Inv, Screen, calm => Shut, [Next]_vars, calm' PROVE Shut' OBVIOUS
<1>1. TypeOK /\ Texted
  BY DEF Inv, Typed
<1>2. calm /\ Alone /\ Alone' /\ Shut
  BY <1>1, AloneNext DEF Screen
<1>3. /\ \A q \in Calls : InHandler(q) => ~ entry.sealed
      /\ entry.sealed => entry.body = NoText
  BY <1>2 DEF Inv, Sealing, SealHolds, Alone
<1>4. ASSUME Type PROVE Shut'
  <2>1. /\ UNCHANGED <<call, entry>> /\ ui'.shown = ui'.pendingDoc /\ ui'.pendingDoc # NoText
        /\ ~ ui.sealed /\ ~ Awaits({"restore", "seal"})
    BY <1>1, <1>4, TypeStep
  <2>2. \A q \in Calls : ~ (call[q].awaited /\ call[q].kind = "seal")
    BY <2>1 DEF Awaits
  <2>3. ~ entry.sealed
    BY <1>2, <2>1, <2>2 DEF Shut, Awaits
  <2> QED BY <2>1, <2>2, <2>3 DEF Shut
<1>5. ASSUME TenMinutesPass \/ UNCHANGED vars PROVE Shut'
  BY <1>2, <1>5 DEF TenMinutesPass, vars, Shut, Awaits, NoRestore
<1>6. ASSUME Reopen PROVE Shut'
  <2>1. /\ UNCHANGED entry /\ ui'.shown = entry.body /\ ui'.doc = entry.body
        /\ ui'.pendingDoc = NoText /\ ui'.sealed = entry.sealed
        /\ \A q \in Calls : ~ call'[q].awaited
    BY <1>1, <1>6, ReopenStep DEF Hydrated
  <2> QED BY <1>3, <2>1 DEF Shut
<1>7. ASSUME NEW q \in Calls, Autosave(q) \/ AskRestore(q) \/ AskSeal(q) \/ AskPublish(q)
      PROVE  Shut'
  <2>1. /\ UNCHANGED entry /\ NoneOpen
        /\ call[q].kind = "save" /\ call'[q].at = "sent"
        /\ \A p \in Calls : p # q => call'[p] = call[p]
        /\ ui'.shown = ui.shown /\ ui'.doc = ui.doc /\ ui'.pendingDoc = ui.pendingDoc
        /\ ui'.sealed = ui.sealed
        /\ call'[q].kind = "seal" =>
             /\ ~ ui.sealed
             /\ call'[q].text = IF ui.pendingDoc # NoText THEN ui.pendingDoc ELSE ui.doc
    BY <1>1, <1>7, SendStep
  <2>2. \A p \in Calls : ~ call[p].awaited
    BY <1>2, <2>1 DEF Alone, NoneOpen, Open
  <2>3. NoRestore' => NoRestore
    BY <2>1 DEF NoRestore
  <2>4. entry.sealed => ui.sealed
    BY <1>2, <2>2 DEF Shut, Awaits
  <2>5. ASSUME NEW p \in Calls, call'[p].awaited, call'[p].kind = "seal"
        PROVE  /\ entry'.sealed <=> call'[p].at = "answered"
               /\ NoRestore' => call'[p].text = ui'.shown
    <3>1. p = q
      BY <2>1, <2>2, <2>5
    <3> QED BY <1>2, <2>1, <2>3, <2>4, <2>5, <3>1 DEF Shut
  <2> QED BY <1>2, <2>1, <2>3, <2>4, <2>5 DEF Shut
<1>8. ASSUME NEW q \in Calls, Hear(q) PROVE Shut'
  <2>1. /\ UNCHANGED entry /\ call[q].awaited
        /\ \A p \in Calls : ~ call'[p].awaited /\ call'[p].kind = call[p].kind
        /\ ui'.pendingDoc = ui.pendingDoc
    BY <1>1, <1>2, <1>8, HearStep, OnlyOne
  <2>2. NoRestore' => NoRestore
    BY <2>1 DEF NoRestore
  <2>3. NoRestore => ui'.shown = ui.shown /\ ui'.doc = ui.doc
    BY <1>1, <1>8, HearStep DEF NoRestore
  <2>4. entry.sealed => ui'.sealed
    <3>1. ASSUME entry.sealed, ~ ui.sealed PROVE call[q].kind = "seal" /\ call[q].at = "answered"
      <4>1. PICK p \in Calls : call[p].awaited /\ call[p].kind = "seal"
        BY <1>2, <3>1 DEF Shut, Awaits
      <4>2. p = q
        BY <1>2, <2>1, <4>1 DEF Alone
      <4> QED BY <1>2, <3>1, <4>1, <4>2 DEF Shut
    <3>2. ui.sealed => ui'.sealed
      BY <1>1, <1>8, HearStep
    <3> QED BY <1>1, <1>8, <3>1, <3>2, HearStep
  <2> QED BY <1>2, <2>1, <2>2, <2>3, <2>4 DEF Shut
<1>9. ASSUME NEW q \in Calls, Handle(q) PROVE Shut'
  <2>1. /\ UNCHANGED ui
        /\ call[q].at \in {"sent", "selected", "ready", "committed"}
        /\ call'[q].kind = call[q].kind /\ call'[q].awaited = call[q].awaited
        /\ call[q].kind # "restore" => call'[q].text = call[q].text
        /\ \A p \in Calls : p # q => call'[p] = call[p]
    BY <1>1, <1>9, HandleStep
  <2>2. call[q].awaited /\ \A p \in Calls : p # q => ~ call'[p].awaited
    <3>1. Open(q)
      BY <2>1 DEF Open, Handled
    <3> QED BY <1>2, <2>1, <3>1, OnlyOne DEF Alone
  <2>3. (NoRestore' => NoRestore) /\ (Awaits({"seal"}) => Awaits({"seal"})')
    BY <2>1 DEF NoRestore, Awaits
  <2>4. CASE UNCHANGED entry /\ (call'[q].at = "answered" => call[q].kind \in {"publish", "restore"})
    BY <1>2, <2>1, <2>2, <2>3, <2>4 DEF Shut
  <2>5. CASE /\ call[q].at = "ready" /\ entry' = Written(q)
             /\ call'[q].at = IF call[q].kind = "restore" THEN "committed" ELSE "answered"
    <3>1. ~ entry.sealed
      BY <1>3, <2>5 DEF InHandler
    <3>2. CASE call[q].kind = "seal"
      <4>1. entry'.sealed /\ entry'.payload = call[q].text /\ call'[q].at = "answered"
        BY <1>1, <2>5, <3>2 DEF Written, TypeOK, EntryType
      <4>2. Awaits({"seal"})'
        BY <2>1, <2>2, <3>2 DEF Awaits
      <4> QED BY <1>2, <2>1, <2>2, <2>3, <3>2, <4>1, <4>2 DEF Shut
    <3>3. CASE call[q].kind # "seal"
      <4>1. ~ entry'.sealed
        BY <1>1, <2>5, <3>1, <3>3 DEF Written, TypeOK, EntryType, CallType, Kinds
      <4> QED BY <1>2, <2>1, <2>2, <2>3, <3>3, <4>1 DEF Shut
    <3> QED BY <3>2, <3>3
  <2> QED BY <1>1, <1>9, <2>4, <2>5, HandleStep
<1>10. ASSUME NEW q \in Calls, GiveUp(q) PROVE FALSE
  BY <1>10 DEF GiveUp
<1> QED BY <1>4, <1>5, <1>6, <1>7, <1>8, <1>9, <1>10 DEF Next

\* Screen and Shut hold at the start and through every step.
LEMMA OnScreen == Spec => [](Inv /\ Screen /\ (calm => Shut))
<1>1. Init => Screen /\ (calm => Shut)
  BY DEF Init, Screen, Alone, Reading, Waiting, Stored, Shut, Awaits, Hydrated, Unsent, Open,
         Handled, InHandler
<1>2. Inv /\ Screen /\ [Next]_vars => Screen'
  BY ScreenNext DEF Inv
<1> QED BY <1>1, <1>2, ShutNext, Inductive, PTL DEF Spec

-----------------------------------------------------------------------------
\* When nothing overlapped and the page says Saved, the server holds the text on the
\* screen, through autosaves, restores, publications and reloads (Editor.tsx).
THEOREM SavedTextIsStored == Spec => []SavedIsStored
<1>1. Screen => SavedIsStored
  <2> SUFFICES ASSUME Screen, calm, NoneOpen, ~ ui.timer, ui.status = "saved"
               PROVE  entry.body = ui.shown
    BY DEF SavedIsStored
  <2>1. \A q \in Calls : ~ call[q].awaited
    BY DEF Screen, Alone, NoneOpen, Open
  <2> QED BY <2>1 DEF Screen, Stored
<1> QED BY <1>1, OnScreen, PTL

\* Where no version was restored, handleSeal keeps its word, "the doc being sealed IS
\* the latest doc": that SealsTheScreen fails takes a restore, which leaves the ref.
THEOREM SealsWithoutRestores ==
  Spec => []((\A q \in Calls : call[q].kind # "restore") => SealsTheScreen)
<1>1. (calm => Shut) => ((\A q \in Calls : call[q].kind # "restore") => SealsTheScreen)
  BY DEF Shut, NoRestore, SealsTheScreen
<1> QED BY <1>1, OnScreen, PTL
================================================================================
