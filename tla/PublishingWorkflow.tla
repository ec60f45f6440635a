------------------------- MODULE PublishingWorkflow -------------------------
(***************************************************************************)
(* The detail page of one content item with its publishing workflow        *)
(* (components/admin-content-detail.tsx, admin-content-publishing-         *)
(* workflow.tsx): read the item and its revisions, preview one, confirm    *)
(* its publication or the archiving of the item in a modal dialog, verify  *)
(* what readers are served and read everything again.                      *)
(*                                                                         *)
(* Other administrators work on the same item.  A page that is left with a *)
(* call in flight adds nothing to what they may do, so leaving only resets *)
(* the page.                                                               *)
(***************************************************************************)
EXTENDS ContentStore

CONSTANTS
  DEFAULT_PAGE_SIZE,  \* the revisions of a page; 25 in the code
  MaxRevisions        \* bounds how many revisions others add

ASSUME PageSizeAssumption == DEFAULT_PAGE_SIZE \in Nat \ {0}
ASSUME MaxRevisionsAssumption == MaxRevisions \in Nat \ {0}

VARIABLES
  published,      \* the revision the item publishes, 0 if there is none
  publications,   \* the revisions that have a publishedAt
  result,         \* what the page shows, None before the first answer
  load,           \* the answers so far of the load in flight, None if none runs
  selection,      \* the revision chosen for preview and the latest one then
  preview,        \* the last answer of a preview
  previewLoad,    \* the revision whose preview is being read, 0 for none
  confirmAction,  \* what the open dialog asks to confirm
  operation,      \* what the buttons wait for
  calls,          \* the executions of confirm() that have not ended
  actionError,    \* whether the last operation is shown as failed
  outcome         \* the success message shown

serverVars == <<store, published, publications>>
detailVars == <<result, load>>
previewVars == <<selection, preview, previewLoad>>
actionVars == <<confirmAction, operation, calls, actionError, outcome>>
vars == <<serverVars, detailVars, previewVars, actionVars>>

Actions == {"publish", "archive"}

\* Of the item's status the page asks whether it is ARCHIVED; listed is the
\* newest revision listed, marked are those listed as published.
Item == [latest: Nat, archived: BOOLEAN]
Result == [item: Item \cup {None}, listed: Nat, marked: SUBSET Nat, error: BOOLEAN]
Load == [item: Item \cup {None}, listed: Nat, marked: SUBSET Nat]
StartOfLoad == [item |-> None, listed |-> 0, marked |-> {}]

Selection == [latest: Nat, revision: Nat]
Preview == [revision: Nat, loaded: BOOLEAN]

Call == [action: Actions, revision: Nat, phase: {"sent", "accepted", "rejected", "verifying"}]
Outcome == [kind: {"none", "verified", "unverified", "archived"}, revision: Nat]
NoOutcome == [kind |-> "none", revision |-> 0]

ASSUME NoneAssumption ==
  /\ None \notin Item
  /\ None \notin Result
  /\ None \notin Load
  /\ None \notin Selection
  /\ None \notin Preview

TypeOK ==
  /\ StoreTypeOK
  /\ published \in 0 .. Latest
  /\ publications \subseteq 1 .. Latest
  /\ result \in Result \cup {None}
  /\ load \in Load \cup {None}
  /\ selection \in Selection \cup {None}
  /\ preview \in Preview \cup {None}
  /\ previewLoad \in 0 .. Latest
  /\ confirmAction \in Actions \cup {"none"}
  /\ operation \in Actions \cup {"none"}
  /\ calls \subseteq Call
  /\ actionError \in BOOLEAN
  /\ outcome \in Outcome

PageInit ==
  /\ result = None
  /\ load = StartOfLoad
  /\ selection = None
  /\ preview = None
  /\ previewLoad = 0
  /\ confirmAction = "none"
  /\ operation = "none"
  /\ calls = {}
  /\ actionError = FALSE
  /\ outcome = NoOutcome

Init ==
  /\ StoreInit
  /\ published = 0
  /\ publications = {}
  /\ PageInit

\* listRevisions() reads one page, the newest revisions, and the detail page
\* drops the cursor to the others.
Listed(newest) == {n \in 1 .. newest : newest < n + DEFAULT_PAGE_SIZE}

-----------------------------------------------------------------------------
(***************************************************************************)
(* What the page derives from its state on every render.                   *)
(***************************************************************************)

Shown == result # None /\ result.item # None

\* The revision selected: the one chosen, as long as the latest is the same.
SelectedOf(shown, chosen) ==
  IF chosen # None /\ chosen.latest = shown.item.latest
  THEN chosen.revision
  ELSE shown.item.latest

Selected == IF Shown THEN SelectedOf(result, selection) ELSE 0

Refreshing == load # None \/ (Shown /\ result.error)

\* Mutation: only a refresh makes the workflow busy.
BusyRefreshing == Refreshing

Busy == operation # "none" \/ Refreshing

Previewed == preview # None /\ preview.revision = Selected /\ preview.loaded

\* Mutation: the dialog is not modal.
ReachableBehindDialog == Shown /\ ~Busy

\* The modal dialog keeps the page behind it out of reach.
Reachable == Shown /\ ~Busy /\ confirmAction = "none"

\* The effect that reads the preview runs again when the selection changes; the
\* answer to the read it replaces is ignored.
FollowSelection ==
  previewLoad' = IF Selected' # Selected THEN Selected' ELSE previewLoad

-----------------------------------------------------------------------------
(***************************************************************************)
(* Reading the item and its revisions: two requests whose answers belong   *)
(* to different moments.                                                   *)
(***************************************************************************)

ReadItem ==
  /\ load # None
  /\ load.item = None
  /\ load' = [load EXCEPT !.item = [latest |-> Latest, archived |-> status = "ARCHIVED"]]
  /\ UNCHANGED <<serverVars, result, previewVars, actionVars>>

ReadRevisions ==
  /\ load # None
  /\ load.listed = 0
  /\ load' = [load EXCEPT !.listed = Latest, !.marked = publications \cap Listed(Latest)]
  /\ UNCHANGED <<serverVars, result, previewVars, actionVars>>

ShowItem ==
  /\ load # None
  /\ load.item # None
  /\ load.listed # 0
  /\ result' = [item |-> load.item, listed |-> load.listed, marked |-> load.marked, error |-> FALSE]
  /\ load' = None
  /\ UNCHANGED <<serverVars, selection, preview, actionVars>>
  /\ FollowSelection

\* What was shown stays, marked as not up to date.
LoadFails ==
  /\ load # None
  /\ load' = None
  /\ result' = IF Shown
               THEN [result EXCEPT !.error = TRUE]
               ELSE [item |-> None, listed |-> 0, marked |-> {}, error |-> TRUE]
  /\ UNCHANGED <<serverVars, previewVars, actionVars>>

\* "Try again": also offered while the load it started last still runs.
Retry ==
  /\ result # None
  /\ result.error
  /\ confirmAction = "none"
  /\ load' = StartOfLoad
  /\ UNCHANGED <<serverVars, result, previewVars, actionVars>>

\* The page is left, and entered again.
Leave ==
  /\ result' = None
  /\ load' = StartOfLoad
  /\ selection' = None
  /\ preview' = None
  /\ previewLoad' = 0
  /\ confirmAction' = "none"
  /\ operation' = "none"
  /\ calls' = {}
  /\ actionError' = FALSE
  /\ outcome' = NoOutcome
  /\ UNCHANGED serverVars

-----------------------------------------------------------------------------
(***************************************************************************)
(* Preview.                                                                *)
(***************************************************************************)

SelectRevision(n) ==
  /\ Reachable
  /\ n \in Listed(result.listed)
  /\ selection' = [latest |-> result.item.latest, revision |-> n]
  /\ actionError' = FALSE
  /\ outcome' = NoOutcome
  /\ UNCHANGED <<serverVars, detailVars, preview, confirmAction, operation, calls>>
  /\ FollowSelection

PreviewArrives ==
  /\ previewLoad # 0
  /\ \E loaded \in BOOLEAN : preview' = [revision |-> previewLoad, loaded |-> loaded]
  /\ previewLoad' = 0
  /\ UNCHANGED <<serverVars, detailVars, selection, actionVars>>

-----------------------------------------------------------------------------
(***************************************************************************)
(* Publishing and archiving.                                               *)
(***************************************************************************)

ChooseAction(action) ==
  /\ Reachable
  /\ ~result.item.archived
  /\ action = "publish" => Selected \in Listed(result.listed) /\ Previewed
  /\ confirmAction' = action
  /\ actionError' = FALSE
  /\ outcome' = NoOutcome
  /\ UNCHANGED <<serverVars, detailVars, previewVars, operation, calls>>

\* Cancel, or Escape, which closes the dialog also while the operation runs.
CloseDialog ==
  /\ confirmAction # "none"
  /\ confirmAction' = "none"
  /\ UNCHANGED <<serverVars, detailVars, previewVars, operation, calls, actionError, outcome>>

Confirm ==
  /\ confirmAction # "none"
  /\ ~Busy
  /\ operation' = confirmAction
  /\ calls' = calls \cup {[action |-> confirmAction, revision |-> Selected, phase |-> "sent"]}
  /\ actionError' = FALSE
  /\ outcome' = NoOutcome
  /\ UNCHANGED <<serverVars, detailVars, previewVars, confirmAction>>

Publish(n) ==
  /\ PublishItem
  /\ published' = n
  /\ publications' = publications \cup {n}

Archive == ArchiveItem /\ UNCHANGED <<published, publications>>

Accept(call) ==
  /\ call.phase = "sent"
  /\ IF call.action = "publish" THEN Publish(call.revision) ELSE Archive
  /\ calls' = (calls \ {call}) \cup {[call EXCEPT !.phase = "accepted"]}
  /\ UNCHANGED <<detailVars, previewVars, confirmAction, operation, actionError, outcome>>

\* Refused by the API, or lost on the way there or on the way back.
Reject(call) ==
  /\ call.phase \in {"sent", "accepted"}
  /\ calls' = (calls \ {call}) \cup {[call EXCEPT !.phase = "rejected"]}
  /\ UNCHANGED <<serverVars, detailVars, previewVars, confirmAction, operation, actionError, outcome>>

\* Mutation: the operation is not reset.
FinishStuck(call) ==
  /\ calls' = calls \ {call}
  /\ confirmAction' = "none"
  /\ UNCHANGED operation

\* The finally block of confirm().
Finish(call) ==
  /\ calls' = calls \ {call}
  /\ operation' = "none"
  /\ confirmAction' = "none"

ReportFailure(call) ==
  /\ call.phase = "rejected"
  /\ actionError' = TRUE
  /\ Finish(call)
  /\ UNCHANGED <<serverVars, detailVars, previewVars, outcome>>

\* Mutation: the page is not asked to read again.
OnRefreshForgotten == UNCHANGED <<load, result>>

\* onRefresh() of the page: a new load replaces the one in flight, if any.
OnRefresh == load' = StartOfLoad /\ UNCHANGED result

\* Mutation: a call that failed counts as archived.
ReportArchivedAnyway(call) ==
  /\ call.phase \in {"accepted", "rejected"}
  /\ call.action = "archive"
  /\ outcome' = [kind |-> "archived", revision |-> 0]
  /\ OnRefresh
  /\ Finish(call)
  /\ UNCHANGED <<serverVars, previewVars, actionError>>

ReportArchived(call) ==
  /\ call.phase = "accepted"
  /\ call.action = "archive"
  /\ outcome' = [kind |-> "archived", revision |-> 0]
  /\ OnRefresh
  /\ Finish(call)
  /\ UNCHANGED <<serverVars, previewVars, actionError>>

StartVerification(call) ==
  /\ call.phase = "accepted"
  /\ call.action = "publish"
  /\ OnRefresh
  /\ calls' = (calls \ {call}) \cup {[call EXCEPT !.phase = "verifying"]}
  /\ UNCHANGED <<serverVars, previewVars, confirmAction, operation, actionError, outcome>>

\* GET content/<slug>: the revision readers are served, 0 for 404.
PublicRevision == IF status = "ARCHIVED" THEN 0 ELSE published

\* A public read that fails leaves the publication unverified, like one that
\* returns another revision.
ReportPublished(call) ==
  /\ call.phase = "verifying"
  /\ \/ /\ PublicRevision = call.revision
        /\ outcome' = [kind |-> "verified", revision |-> call.revision]
     \/ outcome' = [kind |-> "unverified", revision |-> call.revision]
  /\ Finish(call)
  /\ UNCHANGED <<serverVars, detailVars, previewVars, actionError>>

-----------------------------------------------------------------------------

OtherAdministrators ==
  /\ \/ /\ Latest < MaxRevisions
        /\ \E document \in Documents : CommitRevision(Latest, document)
        /\ UNCHANGED <<published, publications>>
     \/ \E n \in 1 .. Latest : Publish(n)
     \/ Archive
     \/ ReviewItem /\ UNCHANGED <<published, publications>>
  /\ UNCHANGED <<detailVars, previewVars, actionVars>>

LoadStep == ReadItem \/ ReadRevisions \/ ShowItem \/ LoadFails

CallStep(call) ==
  \/ Accept(call) \/ Reject(call) \/ ReportFailure(call)
  \/ ReportArchived(call) \/ StartVerification(call) \/ ReportPublished(call)

UserStep ==
  \/ Retry \/ Leave \/ CloseDialog \/ Confirm
  \/ \E n \in 1 .. Latest : SelectRevision(n)
  \/ \E action \in Actions : ChooseAction(action)

Next ==
  \/ UserStep \/ LoadStep \/ PreviewArrives
  \/ \E call \in calls : CallStep(call)
  \/ OtherAdministrators

Spec == Init /\ [][Next]_vars

\* The browser settles every fetch; no user has to do anything.
Fairness ==
  /\ WF_vars(LoadStep)
  /\ WF_vars(PreviewArrives)
  /\ WF_vars(\E call \in calls : CallStep(call))

FairSpec == Spec /\ Fairness

-----------------------------------------------------------------------------
(***************************************************************************)
(* Properties.                                                             *)
(***************************************************************************)

\* The API is asked for one change at a time, also when the dialog is closed
\* with Escape under a running operation.
OneOperation ==
  /\ \A call, other \in calls : call = other
  /\ \A call \in calls : operation = call.action

\* The revision the dialog asks about, and then the one being published, stays
\* the one selected and previewed behind it, whatever loads meanwhile.
ConfirmedIsPreviewed ==
  /\ confirmAction = "publish" /\ operation = "none" =>
       preview # None /\ preview.revision = Selected
  /\ \A call \in calls : call.phase = "sent" /\ call.action = "publish" =>
       call.revision = Selected /\ preview # None /\ preview.revision = Selected

\* What is reported as done was done: a published revision carries its
\* publication and an archived item is archived.
OutcomeIsTrue ==
  /\ outcome.kind \in {"verified", "unverified"} => outcome.revision \in publications
  /\ outcome.kind = "archived" => status = "ARCHIVED"

\* A page that reports success and is up to date also shows it; a publication
\* may only be missing from a page full of newer revisions.
OutcomeIsShown ==
  ~Refreshing =>
    /\ outcome.kind \in {"verified", "unverified"} =>
         \/ outcome.revision \in result.marked
         \/ outcome.revision + DEFAULT_PAGE_SIZE <= result.listed
    /\ outcome.kind = "archived" => result.item.archived

\* An item this page knows to be archived is never published or archived again
\* by it.
ArchivedIsFinal ==
  [][\A call \in calls' \ calls :
       call.phase = "sent" => Shown /\ ~result.item.archived]_vars

\* To a user who stays the buttons come back, or the page offers to try again.
WorkflowRecovers ==
  <>[][~Leave]_vars => (Busy ~> (~Busy \/ (result # None /\ result.error)))
=============================================================================
