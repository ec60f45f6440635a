---------------------------- MODULE ContentEditor ----------------------------
(***************************************************************************)
(* The draft editor (components/admin-content-editor.tsx) open in several  *)
(* tabs on one content item, the append requests in flight between them    *)
(* and the API, and the other administrators who move the item's status.   *)
(*                                                                         *)
(* A request may be lost before it reaches the API, its answer may be lost *)
(* on the way back, and it may arrive after its tab was closed.  A tab     *)
(* takes one step per render: a handler sees the state the last one left.  *)
(***************************************************************************)
EXTENDS ContentStore

CONSTANT Editors  \* the tabs

VARIABLES
  mounted,    \* the tabs that show the editor
  state,      \* EditorState per tab, None until the first load succeeds
  loading,    \* per tab, what loadEditor has read so far, None if none runs
  loadError,  \* per tab, whether the last load failed
  issues,     \* per tab, whether validation issues are listed
  deleting,   \* per tab, whether the modal "Remove this block?" is open
  requests,   \* appends on their way to the API
  replies     \* per tab, the API's answer on its way back

tabVars == <<mounted, state, loading, loadError, issues, deleting>>
netVars == <<requests, replies>>
vars == <<store, tabVars, netVars>>

\* How a request fails: 409, one of 401 and 403, and everything else (the
\* network, 404, 5xx, an answer that does not parse).
Causes == {"conflict", "denied", "unavailable"}

\* Of the statuses of the item and of the revision the editor only asks whether
\* they are DRAFT.  savedDocument is the JSON text that "dirty" compares with.
EditorState ==
  [itemIsDraft: BOOLEAN, revisionIsDraft: BOOLEAN, revision: Nat,
   document: Documents, savedDocument: Documents,
   error: Causes \cup {"none"}, busy: BOOLEAN, blocked: BOOLEAN]

\* latest is 0 until the item was read.
Load == [latest: Nat, itemIsDraft: BOOLEAN]
StartOfLoad == [latest |-> 0, itemIsDraft |-> FALSE]

\* from is None when the tab that sent the request is gone.
Request == [from: Editors \cup {None}, base: Nat, document: Documents]

\* cause is "none" when the revision was committed.
Reply == [cause: Causes \cup {"none"}, revision: Nat, revisionIsDraft: BOOLEAN]

ASSUME NoneAssumption ==
  /\ None \notin Editors
  /\ None \notin EditorState
  /\ None \notin Load
  /\ None \notin Reply

TypeOK ==
  /\ StoreTypeOK
  /\ mounted \subseteq Editors
  /\ state \in [Editors -> EditorState \cup {None}]
  /\ loading \in [Editors -> Load \cup {None}]
  /\ loadError \in [Editors -> BOOLEAN]
  /\ issues \in [Editors -> BOOLEAN]
  /\ deleting \in [Editors -> BOOLEAN]
  /\ requests \subseteq Request
  /\ replies \in [Editors -> Reply \cup {None}]

Init ==
  /\ StoreInit
  /\ mounted = {}
  /\ state = [e \in Editors |-> None]
  /\ loading = [e \in Editors |-> None]
  /\ loadError = [e \in Editors |-> FALSE]
  /\ issues = [e \in Editors |-> FALSE]
  /\ deleting = [e \in Editors |-> FALSE]
  /\ requests = {}
  /\ replies = [e \in Editors |-> None]

-----------------------------------------------------------------------------
(***************************************************************************)
(* Loading: GET the item, GET its latest revision (for the title), GET     *)
(* the latest revision again.  Revisions do not change, so only the status *)
(* can differ between the last two; they are one step here.                *)
(***************************************************************************)

\* The page with the editor is entered, and left by any link or by Back.
Open(e) ==
  /\ e \notin mounted
  /\ mounted' = mounted \cup {e}
  /\ loading' = [loading EXCEPT ![e] = StartOfLoad]
  /\ UNCHANGED <<store, state, loadError, issues, deleting, netVars>>

Close(e) ==
  /\ e \in mounted
  /\ mounted' = mounted \ {e}
  /\ state' = [state EXCEPT ![e] = None]
  /\ loading' = [loading EXCEPT ![e] = None]
  /\ loadError' = [loadError EXCEPT ![e] = FALSE]
  /\ issues' = [issues EXCEPT ![e] = FALSE]
  /\ deleting' = [deleting EXCEPT ![e] = FALSE]
  /\ requests' = {IF r.from = e THEN [r EXCEPT !.from = None] ELSE r : r \in requests}
  /\ replies' = [replies EXCEPT ![e] = None]
  /\ UNCHANGED store

ReadItem(e) ==
  /\ loading[e] # None
  /\ loading[e].latest = 0
  /\ loading' = [loading EXCEPT ![e] = [latest |-> Latest, itemIsDraft |-> IsDraft]]
  /\ UNCHANGED <<store, mounted, state, loadError, issues, deleting, netVars>>

LoadedState(load) ==
  [itemIsDraft |-> load.itemIsDraft, revisionIsDraft |-> IsDraft,
   revision |-> load.latest,
   document |-> revisions[load.latest], savedDocument |-> revisions[load.latest],
   error |-> "none", busy |-> FALSE, blocked |-> FALSE]

ReadRevision(e) ==
  /\ loading[e] # None
  /\ loading[e].latest # 0
  /\ state' = [state EXCEPT ![e] = LoadedState(loading[e])]
  /\ loading' = [loading EXCEPT ![e] = None]
  /\ issues' = [issues EXCEPT ![e] = FALSE]
  /\ UNCHANGED <<store, mounted, loadError, deleting, netVars>>

\* Mutation: the failed reload forgets to reset busy.
StillBusy(current) == current

\* Mutation: the failed reload falls back to what was saved last.
AfterFailedLoadRollback(current) ==
  IF current = None THEN None
  ELSE [current EXCEPT !.busy = FALSE, !.document = current.savedDocument]

\* What a failed load leaves of the state it was to replace.
AfterFailedLoad(current) ==
  IF current = None THEN None ELSE [current EXCEPT !.busy = FALSE]

LoadFails(e) ==
  /\ loading[e] # None
  /\ loading' = [loading EXCEPT ![e] = None]
  /\ loadError' = [loadError EXCEPT ![e] = TRUE]
  /\ state' = [state EXCEPT ![e] = AfterFailedLoad(@)]
  /\ UNCHANGED <<store, mounted, issues, deleting, netVars>>

\* "Try again" in place of the editor, after the first load failed.
RetryLoad(e) ==
  /\ state[e] = None
  /\ loadError[e]
  /\ loadError' = [loadError EXCEPT ![e] = FALSE]
  /\ loading' = [loading EXCEPT ![e] = StartOfLoad]
  /\ UNCHANGED <<store, mounted, state, issues, deleting, netVars>>

\* Mutation: only the conflict panel offers to reload.
ReloadOfferedOnce(e) == state[e].error = "conflict"

\* The panels above the document that offer to reload.
ReloadOffered(e) == state[e].error = "conflict" \/ loadError[e]

RequestingState(current) == [current EXCEPT !.busy = TRUE, !.error = "none"]

ReloadLatest(e) ==
  /\ state[e] # None
  /\ ReloadOffered(e)
  /\ ~state[e].busy
  /\ ~deleting[e]
  /\ loadError' = [loadError EXCEPT ![e] = FALSE]
  /\ state' = [state EXCEPT ![e] = RequestingState(@)]
  /\ loading' = [loading EXCEPT ![e] = StartOfLoad]
  /\ UNCHANGED <<store, mounted, issues, deleting, netVars>>

-----------------------------------------------------------------------------
(***************************************************************************)
(* Editing.  Every control is disabled unless the draft is editable and no *)
(* request runs, and out of reach while the modal dialog is open.          *)
(***************************************************************************)

Editable(e) ==
  /\ state[e] # None
  /\ state[e].itemIsDraft
  /\ state[e].revisionIsDraft

\* Mutation: the controls stay enabled while a request runs.
CanEditAnytime(e) == Editable(e) /\ ~deleting[e]

CanEdit(e) == Editable(e) /\ ~state[e].busy /\ ~deleting[e]

Dirty(e) == state[e].document # state[e].savedDocument

UpdateDocument(current, document) == [current EXCEPT !.document = document]

\* An edit, or taking back one that was not saved yet.
Edit(e) ==
  /\ CanEdit(e)
  /\ \/ \E k \in Edits \ state[e].document :
          state' = [state EXCEPT ![e] = UpdateDocument(@, @.document \cup {k})]
     \/ \E k \in state[e].document \ state[e].savedDocument :
          state' = [state EXCEPT ![e] = UpdateDocument(@, @.document \ {k})]
  /\ UNCHANGED <<store, mounted, loading, loadError, issues, deleting, netVars>>

RequestDelete(e) ==
  /\ CanEdit(e)
  /\ deleting' = [deleting EXCEPT ![e] = TRUE]
  /\ UNCHANGED <<store, mounted, state, loading, loadError, issues, netVars>>

\* Confirming does not look at busy: the dialog is what keeps requests away.
ConfirmDelete(e) ==
  /\ deleting[e]
  /\ \E k \in Edits \ state[e].document :
       state' = [state EXCEPT ![e] = UpdateDocument(@, @.document \cup {k})]
  /\ deleting' = [deleting EXCEPT ![e] = FALSE]
  /\ UNCHANGED <<store, mounted, loading, loadError, issues, netVars>>

CancelDelete(e) ==
  /\ deleting[e]
  /\ deleting' = [deleting EXCEPT ![e] = FALSE]
  /\ UNCHANGED <<store, mounted, state, loading, loadError, issues, netVars>>

-----------------------------------------------------------------------------
(***************************************************************************)
(* Saving.                                                                 *)
(***************************************************************************)

\* Mutation: the base is looked up when saving.
AppendRequestOnLatest(e) ==
  [from |-> e, base |-> Latest, document |-> state[e].document]

AppendRequest(e) ==
  [from |-> e, base |-> state[e].revision, document |-> state[e].document]

SaveDraft(e) ==
  /\ CanEdit(e)
  /\ Dirty(e)
  /\ ~state[e].blocked
  /\ issues' = [issues EXCEPT ![e] = ~Valid(state[e].document)]
  /\ IF Valid(state[e].document)
     THEN /\ state' = [state EXCEPT ![e] = RequestingState(@)]
          /\ requests' = requests \cup {AppendRequest(e)}
     ELSE UNCHANGED <<state, requests>>
  /\ UNCHANGED <<store, mounted, loading, loadError, deleting, replies>>

\* The API's answer goes to the tab that asked, if it is still there.
Answer(r, reply) ==
  /\ requests' = requests \ {r}
  /\ replies' = IF r.from = None THEN replies ELSE [replies EXCEPT ![r.from] = reply]
  /\ UNCHANGED tabVars

AcceptAppend(r) ==
  /\ CommitRevision(r.base, r.document)
  /\ Answer(r, [cause |-> "none", revision |-> Latest + 1, revisionIsDraft |-> IsDraft])

\* 409 to a request the API may refuse; otherwise it has no effect because
\* the session is over, the API is failing or the request never got there.
RejectAppend(r) ==
  /\ \E cause \in Causes :
       /\ cause = "conflict" => Conflicts(r.base)
       /\ Answer(r, [cause |-> cause, revision |-> 0, revisionIsDraft |-> IsDraft])
  /\ UNCHANGED store

\* Mutation: the reply does not move the baseline.
SavedStateOldBaseline(current, saved) ==
  [current EXCEPT !.revision = saved.revision,
                  !.revisionIsDraft = saved.revisionIsDraft,
                  !.document = revisions[saved.revision],
                  !.busy = FALSE, !.error = "none"]

\* The item is not read again: its status is still the one first loaded.
SavedState(current, saved) ==
  [current EXCEPT !.revision = saved.revision,
                  !.revisionIsDraft = saved.revisionIsDraft,
                  !.document = revisions[saved.revision],
                  !.savedDocument = revisions[saved.revision],
                  !.busy = FALSE, !.error = "none"]

ReceiveSaved(e) ==
  /\ replies[e] # None
  /\ replies[e].cause = "none"
  /\ state' = [state EXCEPT ![e] = SavedState(@, replies[e])]
  /\ issues' = [issues EXCEPT ![e] = FALSE]
  /\ replies' = [replies EXCEPT ![e] = None]
  /\ UNCHANGED <<store, mounted, loading, loadError, deleting, requests>>

IsBlocked(cause) == cause \in {"denied", "conflict"}

FailedState(current, cause) ==
  [current EXCEPT !.busy = FALSE, !.error = cause, !.blocked = IsBlocked(cause)]

SaveFails(e, cause) ==
  /\ state' = [state EXCEPT ![e] = FailedState(@, cause)]
  /\ replies' = [replies EXCEPT ![e] = None]
  /\ UNCHANGED <<store, mounted, loading, loadError, issues, deleting, requests>>

ReceiveRejection(e) ==
  /\ replies[e] # None
  /\ replies[e].cause # "none"
  /\ SaveFails(e, replies[e].cause)

\* The answer is lost: the tab cannot tell whether the revision was committed.
LoseReply(e) == replies[e] # None /\ SaveFails(e, "unavailable")

-----------------------------------------------------------------------------

OtherAdministrators ==
  /\ PublishItem \/ ArchiveItem \/ ReviewItem
  /\ UNCHANGED <<tabVars, netVars>>

\* loadEditor settles: the browser answers every fetch or fails it.
LoadStep(e) == ReadItem(e) \/ ReadRevision(e) \/ LoadFails(e)

\* An append settles: it is answered or fails, and the tab hears of it.
HandleAppend(r) == AcceptAppend(r) \/ RejectAppend(r)
HandleAppendOf(e) == \E r \in requests : r.from = e /\ HandleAppend(r)
SaveSettles(e) == ReceiveSaved(e) \/ ReceiveRejection(e) \/ LoseReply(e)

UserStep(e) ==
  \/ Open(e) \/ Close(e) \/ RetryLoad(e) \/ ReloadLatest(e)
  \/ Edit(e) \/ RequestDelete(e) \/ ConfirmDelete(e) \/ CancelDelete(e)
  \/ SaveDraft(e)

Next ==
  \/ \E e \in Editors : UserStep(e) \/ LoadStep(e) \/ SaveSettles(e)
  \/ \E r \in requests : HandleAppend(r)
  \/ OtherAdministrators

Spec == Init /\ [][Next]_vars

\* Only what the browser and the API owe is fair; no user has to do anything.
Fairness ==
  \A e \in Editors : /\ WF_vars(LoadStep(e))
                     /\ WF_vars(HandleAppendOf(e))
                     /\ WF_vars(SaveSettles(e))

FairSpec == Spec /\ Fairness

-----------------------------------------------------------------------------
(***************************************************************************)
(* Properties.                                                             *)
(***************************************************************************)

\* The document "dirty" compares with is the content of the very revision the
\* next save names as its base: a save can only overwrite what its author saw.
BaselineIsBaseRevision ==
  \A e \in Editors : state[e] # None =>
    /\ state[e].revision \in 1 .. Latest
    /\ state[e].savedDocument = revisions[state[e].revision]
    /\ state[e].savedDocument \subseteq state[e].document

\* The answer to a save replaces what the tab shows, so nothing may be typed,
\* removed or reloaded in between: what is shown is still what was sent.
SaveInFlightIsShown ==
  /\ \A r \in requests : r.from # None =>
       /\ state[r.from] # None
       /\ state[r.from].document = r.document
       /\ state[r.from].revision = r.base
  /\ \A e \in Editors : replies[e] # None /\ replies[e].cause = "none" =>
       /\ state[e] # None
       /\ state[e].document = revisions[replies[e].revision]

\* A tab is busy exactly while one request of its own is outstanding: no path
\* leaves it disabled for good, and none runs a reload and a save at once.
BusyIsOneRequest ==
  \A e \in Editors :
    LET saving == \E r \in requests : r.from = e
        answered == replies[e] # None
        reloading == loading[e] # None
    IN  state[e] # None =>
          /\ state[e].busy <=> (saving \/ answered \/ reloading)
          /\ ~(saving /\ answered) /\ ~(saving /\ reloading) /\ ~(answered /\ reloading)

\* An idle tab whose saving is blocked by a conflict offers the way out, also
\* after a reload failed.  (Blocked by 401 or 403 it does not: see README.)
ConflictHasWayOut ==
  \A e \in Editors :
    state[e] # None /\ state[e].blocked /\ ~state[e].busy =>
      state[e].error = "denied" \/ ReloadOffered(e)

\* One edit more, or one less that had not been saved.
OneEdit(current, document) ==
  \/ \E k \in Edits \ current.document : document = current.document \cup {k}
  \/ \E k \in current.document \ current.savedDocument : document = current.document \ {k}

\* The reload that e asked for has succeeded.
ReloadArrives(e) ==
  /\ loading[e] # None
  /\ loading[e].latest # 0
  /\ loading'[e] = None
  /\ ~loadError'[e]
  /\ state'[e] = LoadedState(loading[e])

\* Local edits survive every save, lost answer, failed save and failed reload: as
\* long as its page is not left, the document that a tab shows changes by an edit
\* of its author while no request runs, or by a reload that succeeds.
LocalEditsKept ==
  [][\A e \in Editors :
       state[e] # None /\ e \in mounted' =>
         /\ state'[e] # None
         /\ \/ state'[e].document = state[e].document
            \/ ~state[e].busy /\ ~state'[e].busy /\ OneEdit(state[e], state'[e].document)
            \/ ReloadArrives(e)]_vars

\* The drafts of all tabs together keep the promise of RevisionHistory.
History == INSTANCE RevisionHistory WITH history <- revisions
RefinesHistory == History!Spec

\* Whatever a tab waits for, it stops waiting.
Waiting(e) == loading[e] # None \/ (state[e] # None /\ state[e].busy)
EveryWaitEnds == \A e \in Editors : Waiting(e) ~> ~Waiting(e)
=============================================================================
