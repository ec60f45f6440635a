---------------------- MODULE PublishingWorkflowProofs ----------------------
(***************************************************************************)
(* Proofs about PublishingWorkflow, whatever the other administrators add  *)
(* and publish meanwhile.  The inductive invariant follows an operation    *)
(* from the dialog to its outcome: while it is confirmed and sent, nothing *)
(* the page shows can move; once it is accepted, every load that answers   *)
(* was started later and must show it.                                     *)
(***************************************************************************)
EXTENDS PublishingWorkflow, TLAPS

\* What the page knows of is there.
Existing ==
  /\ Shown => result.item.latest \in 1 .. Latest
  /\ result # None => result.listed \in 0 .. Latest
  /\ load # None =>
       /\ load.listed \in 0 .. Latest
       /\ load.item # None => load.item.latest \in 1 .. Latest
  /\ selection # None => selection.revision \in 1 .. Latest
  /\ \A call \in calls : call.action = "publish" => call.revision \in 1 .. Latest

\* The preview being read is that of the selection.
PreviewFollows == previewLoad = 0 \/ previewLoad = Selected

\* The preview shown last was one of revision n.
PreviewOf(n) == preview # None /\ preview.revision = n

\* What an open dialog that waits for the user relies on.
DialogOK ==
  confirmAction # "none" /\ operation = "none" =>
    /\ Shown
    /\ ~Refreshing
    /\ ~result.item.archived
    /\ confirmAction = "publish" => PreviewOf(Selected)

\* The page lists revision n as published, unless it says it is not up to date or
\* lists newer ones only, and so will the load in flight.
WillMark(n) ==
  IF load # None
  THEN \/ load.listed = 0
       \/ n \in load.marked
       \/ n + DEFAULT_PAGE_SIZE <= load.listed
  ELSE \/ result.error
       \/ n \in result.marked
       \/ n + DEFAULT_PAGE_SIZE <= result.listed

\* The same of the item being archived.
WillArchive ==
  IF load # None
  THEN load.item = None \/ load.item.archived
  ELSE result.error \/ result.item.archived

CallOK(call) ==
  /\ operation = call.action
  /\ Shown
  /\ call.phase # "verifying" => ~Refreshing
  /\ call.phase = "sent" =>
       /\ ~result.item.archived
       /\ call.action = "publish" => call.revision = Selected /\ PreviewOf(Selected)
  /\ call.phase = "accepted" /\ call.action = "archive" => status = "ARCHIVED"
  /\ call.phase = "accepted" /\ call.action = "publish" => call.revision \in publications
  /\ call.phase = "verifying" =>
       /\ call.action = "publish"
       /\ call.revision \in publications
       /\ WillMark(call.revision)

CallsOK ==
  /\ \A call, other \in calls : call = other
  /\ \A call \in calls : CallOK(call)

OutcomeOK ==
  /\ outcome.kind # "none" => Shown
  /\ outcome.kind \in {"verified", "unverified"} =>
       outcome.revision \in publications /\ WillMark(outcome.revision)
  /\ outcome.kind = "archived" => status = "ARCHIVED" /\ WillArchive

IInv ==
  /\ TypeOK
  /\ Existing
  /\ PreviewFollows
  /\ DialogOK
  /\ CallsOK
  /\ OutcomeOK

\* The revision selected exists, and there is one as soon as an item is shown.
LEMMA SelectedExists ==
  ASSUME TypeOK, Existing
  PROVE  Selected \in 0 .. Latest /\ (Shown => Selected \in 1 .. Latest) /\ Latest \in Nat \ {0}
<1>1. Latest \in Nat \ {0} BY DEF TypeOK, StoreTypeOK, Latest
<1>2. Shown => Selected \in 1 .. Latest
  BY DEF TypeOK, Existing, Selected, SelectedOf, Shown
<1> QED BY <1>1, <1>2 DEF Selected

\* The values the handlers start from have the right types.
LEMMA StartTypes == StartOfLoad \in Load /\ NoOutcome \in Outcome /\ StartOfLoad # None
BY NoneAssumption DEF StartOfLoad, Load, NoOutcome, Outcome

\* What the page shows depends on the page alone.
LEMMA PageFrame ==
  ASSUME UNCHANGED <<detailVars, selection>>
  PROVE  /\ UNCHANGED <<Shown, Selected, Refreshing, WillArchive>>
         /\ \A n : WillMark(n)' = WillMark(n)
BY DEF detailVars, Shown, Selected, SelectedOf, Refreshing, WillArchive, WillMark

\* A revision that is published when the page is read is on it, or older than all
\* on it.
LEMMA PublishedListed ==
  ASSUME TypeOK, NEW n \in publications
  PROVE  n \in Listed(Latest) \/ n + DEFAULT_PAGE_SIZE <= Latest
<1>1. n \in 1 .. Latest /\ Latest \in Nat BY DEF TypeOK, StoreTypeOK, Latest
<1> QED BY <1>1, PageSizeAssumption DEF Listed

\* The item read exists; the page still shows what it showed.
LEMMA ReadItemStep ==
  ASSUME IInv, ReadItem
  PROVE  IInv'
<1> USE SelectedExists, NoneAssumption DEF IInv, serverVars, detailVars, previewVars, actionVars, store, vars, ReadItem, Item, Load, Shown, Latest
<1>0. /\ load # None /\ load' \in Load /\ load' # None
      /\ load'.listed = load.listed /\ load'.marked = load.marked
      /\ load'.item # None /\ (load'.item.archived <=> status = "ARCHIVED")
  <2> DEFINE item == [latest |-> Latest, archived |-> status = "ARCHIVED"]
  <2>1. item \in Item BY DEF TypeOK
  <2>2. load \in Load /\ load' = [load EXCEPT !.item = item] BY DEF TypeOK
  <2>3. item # None /\ (item.archived <=> status = "ARCHIVED") BY <2>1
  <2> HIDE DEF item
  <2> QED BY <2>1, <2>2, <2>3
<1>1. TypeOK' BY DEF TypeOK, StoreTypeOK, Existing, CallsOK, CallOK, DialogOK
<1>2. Existing' BY <1>1 DEF TypeOK, StoreTypeOK, Existing, CallsOK, CallOK, DialogOK
<1>3. PreviewFollows' BY DEF PreviewFollows, Selected, SelectedOf, Existing, TypeOK
<1>4. DialogOK' BY DEF DialogOK, Refreshing, Selected, SelectedOf, PreviewOf, PreviewFollows, CallsOK, CallOK, TypeOK
<1>5. CallsOK'
  <2>1. \A n : WillMark(n)' = WillMark(n) BY <1>0 DEF WillMark
  <2>2. UNCHANGED <<Shown, Selected, Refreshing>> BY <1>0 DEF Selected, SelectedOf, Refreshing
  <2> QED BY <2>1, <2>2 DEF CallsOK, CallOK, PreviewOf
<1>6. OutcomeOK'
  <2>1. \A n : WillMark(n)' = WillMark(n) BY <1>0 DEF WillMark
  <2>2. UNCHANGED Shown OBVIOUS
  <2>3. WillArchive' <=> status = "ARCHIVED" BY <1>0 DEF WillArchive
  <2> QED BY <2>1, <2>2, <2>3 DEF OutcomeOK
<1> QED BY <1>1, <1>2, <1>3, <1>4, <1>5, <1>6

\* The list read has every publication made so far.
LEMMA ReadRevisionsStep ==
  ASSUME IInv, ReadRevisions
  PROVE  IInv'
<1> USE SelectedExists, NoneAssumption DEF IInv, serverVars, detailVars, previewVars, actionVars, store, vars, ReadRevisions, Load, Shown, Latest
<1>0. /\ load # None /\ load' \in Load /\ load' # None
      /\ load'.item = load.item
      /\ load'.listed = Latest /\ load'.marked = publications \cap Listed(Latest)
  <2>1. publications \cap Listed(Latest) \in SUBSET Nat /\ Latest \in Nat BY DEF TypeOK, StoreTypeOK
  <2> QED BY <2>1 DEF TypeOK
<1>1. TypeOK' BY <1>0 DEF TypeOK, StoreTypeOK
<1>2. Existing' BY <1>1 DEF TypeOK, StoreTypeOK, Existing, CallsOK, CallOK, DialogOK
<1>3. PreviewFollows' BY DEF PreviewFollows, Selected, SelectedOf, Existing, TypeOK
<1>4. DialogOK' BY DEF DialogOK, Refreshing, Selected, SelectedOf, PreviewOf, PreviewFollows, CallsOK, CallOK, TypeOK
<1>5. CallsOK'
  <2>1. \A n \in publications : WillMark(n)' BY <1>0, PublishedListed DEF WillMark
  <2>2. UNCHANGED <<Shown, Selected, Refreshing>> BY <1>0 DEF Selected, SelectedOf, Refreshing
  <2> QED BY <2>1, <2>2 DEF CallsOK, CallOK, PreviewOf
<1>6. OutcomeOK'
  <2>1. \A n \in publications : WillMark(n)' BY <1>0, PublishedListed DEF WillMark
  <2>2. UNCHANGED Shown OBVIOUS
  <2>3. WillArchive' = WillArchive BY <1>0 DEF WillArchive
  <2> QED BY <2>1, <2>2, <2>3 DEF OutcomeOK
<1> QED BY <1>1, <1>2, <1>3, <1>4, <1>5, <1>6

\* A load that completes replaces what is shown; the selection may move on.
LEMMA ShowItemStep ==
  ASSUME IInv, ShowItem
  PROVE  IInv'
<1> USE SelectedExists, NoneAssumption DEF IInv, serverVars, detailVars, previewVars, actionVars, store, vars, ShowItem, FollowSelection, Shown, Latest
<1>0. /\ load # None /\ load.item \in Item /\ load' = None /\ result' \in Result /\ result' # None
      /\ result'.item = load.item /\ result'.item # None /\ ~result'.error
      /\ result'.listed = load.listed /\ result'.marked = load.marked /\ load.listed # 0
      /\ Shown' /\ ~Refreshing'
  <2> DEFINE shown == [item |-> load.item, listed |-> load.listed, marked |-> load.marked, error |-> FALSE]
  <2>1. load # None /\ load \in Load /\ load.item \in Item /\ load.listed # 0 BY DEF TypeOK, Load
  <2>2. shown \in Result BY <2>1 DEF Result, Load
  <2>4. shown # None /\ load.item # None BY <2>1, <2>2
  <2>3. result' = shown /\ load' = None OBVIOUS
  <2> QED BY <2>1, <2>2, <2>4, <2>3 DEF Refreshing, Shown
<1>1. TypeOK'
  <2>1. Selected' \in 0 .. Latest
    BY <1>0 DEF Selected, SelectedOf, Existing, TypeOK, StoreTypeOK, Selection
  <2> QED BY <1>0, <2>1 DEF TypeOK, StoreTypeOK
<1>2. Existing' BY <1>0 DEF Existing
<1>3. PreviewFollows' BY DEF PreviewFollows, Selected, SelectedOf, Existing, TypeOK
<1>4. DialogOK' BY <1>0 DEF DialogOK, Refreshing, CallsOK, CallOK, PreviewOf
<1>5. CallsOK'
  <2>1. \A n : WillMark(n) => WillMark(n)' BY <1>0 DEF WillMark
  <2>2. Refreshing BY <1>0 DEF Refreshing
  <2> QED BY <1>0, <2>1, <2>2 DEF CallsOK, CallOK, PreviewOf, TypeOK, Call
<1>6. OutcomeOK'
  <2>1. \A n : WillMark(n) => WillMark(n)' BY <1>0 DEF WillMark
  <2>2. WillArchive => WillArchive' BY <1>0 DEF WillArchive
  <2> QED BY <1>0, <2>1, <2>2 DEF OutcomeOK
<1> QED BY <1>1, <1>2, <1>3, <1>4, <1>5, <1>6

\* A load that fails marks what is shown as not up to date.
LEMMA LoadFailsStep ==
  ASSUME IInv, LoadFails
  PROVE  IInv'
<1> USE SelectedExists, NoneAssumption DEF IInv, serverVars, detailVars, previewVars, actionVars, store, vars, LoadFails, Result, Shown, Latest
<1>1. TypeOK' BY DEF TypeOK, StoreTypeOK, Existing, CallsOK, CallOK, DialogOK
<1>2. Existing' BY <1>1 DEF TypeOK, StoreTypeOK, Existing, CallsOK, CallOK, DialogOK
<1>3. PreviewFollows' BY DEF PreviewFollows, Selected, SelectedOf, Existing, TypeOK
<1>4. DialogOK' BY DEF DialogOK, Refreshing, Selected, SelectedOf, PreviewOf, PreviewFollows, CallsOK, CallOK, TypeOK
<1>5. CallsOK' BY DEF CallsOK, CallOK, DialogOK, Refreshing, Selected, SelectedOf, PreviewOf, PreviewFollows, WillMark, TypeOK, StoreTypeOK
<1>6. OutcomeOK' BY DEF OutcomeOK, WillMark, WillArchive, TypeOK, StoreTypeOK, Refreshing, CallsOK, CallOK
<1> QED BY <1>1, <1>2, <1>3, <1>4, <1>5, <1>6

\* A new load knows nothing yet.
LEMMA RetryStep ==
  ASSUME IInv, Retry
  PROVE  IInv'
<1> USE SelectedExists, NoneAssumption DEF IInv, serverVars, detailVars, previewVars, actionVars, store, vars, Retry, StartOfLoad, Load, Shown, Latest
<1>1. TypeOK' BY DEF TypeOK, StoreTypeOK, Existing, CallsOK, CallOK, DialogOK
<1>2. Existing' BY <1>1 DEF TypeOK, StoreTypeOK, Existing, CallsOK, CallOK, DialogOK
<1>3. PreviewFollows' BY DEF PreviewFollows, Selected, SelectedOf, Existing, TypeOK
<1>4. DialogOK' BY DEF DialogOK, Refreshing, Selected, SelectedOf, PreviewOf, PreviewFollows, CallsOK, CallOK, TypeOK
<1>5. CallsOK' BY DEF CallsOK, CallOK, DialogOK, Refreshing, Selected, SelectedOf, PreviewOf, PreviewFollows, WillMark, TypeOK, StoreTypeOK
<1>6. OutcomeOK' BY DEF OutcomeOK, WillMark, WillArchive, TypeOK, StoreTypeOK, Refreshing, CallsOK, CallOK
<1> QED BY <1>1, <1>2, <1>3, <1>4, <1>5, <1>6

\* Leaving forgets everything.
LEMMA LeaveStep ==
  ASSUME IInv, Leave
  PROVE  IInv'
<1> USE SelectedExists, NoneAssumption DEF IInv, serverVars, detailVars, previewVars, actionVars, store, vars, Leave, NoOutcome, Shown, Latest
<1>1. TypeOK'
  <2>1. Latest \in Nat BY SelectedExists
  <2>2. StoreTypeOK' /\ published' \in 0 .. Latest' /\ publications' \subseteq 1 .. Latest'
    BY DEF TypeOK, StoreTypeOK
  <2>3. /\ result' \in Result \cup {None} /\ load' \in Load \cup {None}
        /\ selection' \in Selection \cup {None} /\ preview' \in Preview \cup {None}
    BY StartTypes
  <2>4. previewLoad' \in 0 .. Latest' BY <2>1
  <2>5. /\ confirmAction' \in Actions \cup {"none"} /\ operation' \in Actions \cup {"none"}
        /\ calls' \subseteq Call /\ actionError' \in BOOLEAN /\ outcome' \in Outcome
    BY StartTypes
  <2> QED BY <2>2, <2>3, <2>4, <2>5 DEF TypeOK
<1>2. Existing' BY DEF Existing, StartOfLoad
<1>3. PreviewFollows' BY DEF PreviewFollows, Selected, SelectedOf, Existing, TypeOK
<1>4. DialogOK' BY DEF DialogOK, Refreshing, Selected, SelectedOf, PreviewOf, PreviewFollows, CallsOK, CallOK, TypeOK
<1>5. CallsOK' BY DEF CallsOK, CallOK, DialogOK, Refreshing, Selected, SelectedOf, PreviewOf, PreviewFollows, WillMark, TypeOK, StoreTypeOK
<1>6. OutcomeOK' BY DEF OutcomeOK, WillMark, WillArchive, TypeOK, StoreTypeOK, Refreshing, CallsOK, CallOK
<1> QED BY <1>1, <1>2, <1>3, <1>4, <1>5, <1>6

\* Selecting happens while nothing waits.
LEMMA SelectRevisionStep ==
  ASSUME IInv, NEW n \in 1 .. Latest, SelectRevision(n)
  PROVE  IInv'
<1> USE SelectedExists, NoneAssumption DEF IInv, serverVars, detailVars, previewVars, actionVars, store, vars, SelectRevision, Reachable, Busy, NoOutcome, Outcome, Selection, FollowSelection, Shown, Latest
<1>1. TypeOK'
  <2>1. selection' \in Selection /\ selection' # None
    BY DEF TypeOK, StoreTypeOK, Existing, Result, Item
  <2>2. Selected' \in 0 .. Latest BY <2>1 DEF Selected, SelectedOf, Existing
  <2> QED BY <2>1, <2>2, StartTypes DEF TypeOK, StoreTypeOK
<1>2. Existing' BY <1>1 DEF TypeOK, StoreTypeOK, Existing, CallsOK, CallOK, DialogOK
<1>3. PreviewFollows' BY DEF PreviewFollows, Selected, SelectedOf, Existing, TypeOK
<1>4. DialogOK' BY DEF DialogOK, Refreshing, Selected, SelectedOf, PreviewOf, PreviewFollows, CallsOK, CallOK, TypeOK
<1>5. CallsOK' BY DEF CallsOK, CallOK, DialogOK, Refreshing, Selected, SelectedOf, PreviewOf, PreviewFollows, WillMark, TypeOK, StoreTypeOK
<1>6. OutcomeOK' BY DEF OutcomeOK, WillMark, WillArchive, TypeOK, StoreTypeOK, Refreshing, CallsOK, CallOK
<1> QED BY <1>1, <1>2, <1>3, <1>4, <1>5, <1>6

\* The preview that arrives is that of the selection.
LEMMA PreviewArrivesStep ==
  ASSUME IInv, PreviewArrives
  PROVE  IInv'
<1> USE SelectedExists, NoneAssumption DEF IInv, serverVars, detailVars, previewVars, actionVars, store, vars, PreviewArrives, Preview, Shown, Latest
<1>1. TypeOK' BY DEF TypeOK, StoreTypeOK, Existing, CallsOK, CallOK, DialogOK
<1>2. Existing' BY <1>1 DEF TypeOK, StoreTypeOK, Existing, CallsOK, CallOK, DialogOK
<1>3. PreviewFollows' BY DEF PreviewFollows, Selected, SelectedOf, Existing, TypeOK
<1>4. DialogOK' BY DEF DialogOK, Refreshing, Selected, SelectedOf, PreviewOf, PreviewFollows, CallsOK, CallOK, TypeOK
<1>5. CallsOK' BY DEF CallsOK, CallOK, DialogOK, Refreshing, Selected, SelectedOf, PreviewOf, PreviewFollows, WillMark, TypeOK, StoreTypeOK
<1>6. OutcomeOK' BY DEF OutcomeOK, WillMark, WillArchive, TypeOK, StoreTypeOK, Refreshing, CallsOK, CallOK
<1> QED BY <1>1, <1>2, <1>3, <1>4, <1>5, <1>6

\* A dialog opens over an up-to-date page that shows the preview.
LEMMA ChooseActionStep ==
  ASSUME IInv, NEW action \in Actions, ChooseAction(action)
  PROVE  IInv'
<1> USE SelectedExists, NoneAssumption DEF IInv, serverVars, detailVars, previewVars, actionVars, store, vars, ChooseAction, Reachable, Busy, NoOutcome, Outcome, Previewed, Actions, Shown, Latest
<1>1. TypeOK' BY StartTypes DEF TypeOK, StoreTypeOK
<1>2. Existing' BY <1>1 DEF TypeOK, StoreTypeOK, Existing, CallsOK, CallOK, DialogOK
<1>3. PreviewFollows' BY DEF PreviewFollows, Selected, SelectedOf, Existing, TypeOK
<1>4. DialogOK' BY DEF DialogOK, Refreshing, Selected, SelectedOf, PreviewOf, PreviewFollows, CallsOK, CallOK, TypeOK
<1>5. CallsOK' BY DEF CallsOK, CallOK, DialogOK, Refreshing, Selected, SelectedOf, PreviewOf, PreviewFollows, WillMark, TypeOK, StoreTypeOK
<1>6. OutcomeOK' BY DEF OutcomeOK, WillMark, WillArchive, TypeOK, StoreTypeOK, Refreshing, CallsOK, CallOK
<1> QED BY <1>1, <1>2, <1>3, <1>4, <1>5, <1>6

\* A dialog that closes leaves the operation running.
LEMMA CloseDialogStep ==
  ASSUME IInv, CloseDialog
  PROVE  IInv'
<1> USE SelectedExists, NoneAssumption DEF IInv, serverVars, detailVars, previewVars, actionVars, store, vars, CloseDialog, Shown, Latest
<1>1. TypeOK' BY DEF TypeOK, StoreTypeOK, Existing, CallsOK, CallOK, DialogOK
<1>2. Existing' BY <1>1 DEF TypeOK, StoreTypeOK, Existing, CallsOK, CallOK, DialogOK
<1>3. PreviewFollows' BY DEF PreviewFollows, Selected, SelectedOf, Existing, TypeOK
<1>4. DialogOK' BY DEF DialogOK, Refreshing, Selected, SelectedOf, PreviewOf, PreviewFollows, CallsOK, CallOK, TypeOK
<1>5. CallsOK' BY DEF CallsOK, CallOK, DialogOK, Refreshing, Selected, SelectedOf, PreviewOf, PreviewFollows, WillMark, TypeOK, StoreTypeOK
<1>6. OutcomeOK' BY DEF OutcomeOK, WillMark, WillArchive, TypeOK, StoreTypeOK, Refreshing, CallsOK, CallOK
<1> QED BY <1>1, <1>2, <1>3, <1>4, <1>5, <1>6

\* Confirming sends what the dialog asked about.
LEMMA ConfirmStep ==
  ASSUME IInv, Confirm
  PROVE  IInv'
<1> USE SelectedExists, NoneAssumption DEF IInv, serverVars, detailVars, previewVars, actionVars, store, vars, Confirm, Busy, NoOutcome, Outcome, Call, Actions, Shown, Latest
<1>1. TypeOK'
  <2>1. confirmAction \in Actions /\ Selected \in Nat BY DEF TypeOK
  <2>2. [action |-> confirmAction, revision |-> Selected, phase |-> "sent"] \in Call BY <2>1
  <2> QED BY <2>1, <2>2, StartTypes DEF TypeOK, StoreTypeOK
<1>2. Existing' BY <1>1 DEF TypeOK, StoreTypeOK, Existing, CallsOK, CallOK, DialogOK
<1>3. PreviewFollows' BY DEF PreviewFollows, Selected, SelectedOf, Existing, TypeOK
<1>4. DialogOK' BY DEF DialogOK, Refreshing, Selected, SelectedOf, PreviewOf, PreviewFollows, CallsOK, CallOK, TypeOK
<1>5. CallsOK' BY DEF CallsOK, CallOK, DialogOK, Refreshing, Selected, SelectedOf, PreviewOf, PreviewFollows, WillMark, TypeOK, StoreTypeOK
<1>6. OutcomeOK' BY DEF OutcomeOK, WillMark, WillArchive, TypeOK, StoreTypeOK, Refreshing, CallsOK, CallOK
<1> QED BY <1>1, <1>2, <1>3, <1>4, <1>5, <1>6

\* The API does what the call asks for.
LEMMA AcceptStep ==
  ASSUME IInv, NEW call \in calls, Accept(call)
  PROVE  IInv'
<1> USE SelectedExists, NoneAssumption DEF IInv, serverVars, detailVars, previewVars, actionVars, store, vars, Accept, Publish, PublishItem, Archive, ArchiveItem, Call, Actions, Statuses, StoreTypeOK, Latest, Shown, Latest
<1>1. TypeOK' BY DEF TypeOK, StoreTypeOK, Existing, CallsOK, CallOK, DialogOK
<1>2. Existing' BY <1>1 DEF TypeOK, StoreTypeOK, Existing, CallsOK, CallOK, DialogOK
<1>3. PreviewFollows' BY DEF PreviewFollows, Selected, SelectedOf, Existing, TypeOK
<1>4. DialogOK' BY DEF DialogOK, Refreshing, Selected, SelectedOf, PreviewOf, PreviewFollows, CallsOK, CallOK, TypeOK
<1>5. CallsOK' BY DEF CallsOK, CallOK, DialogOK, Refreshing, Selected, SelectedOf, PreviewOf, PreviewFollows, WillMark, TypeOK, StoreTypeOK
<1>6. OutcomeOK' BY DEF OutcomeOK, WillMark, WillArchive, TypeOK, StoreTypeOK, Refreshing, CallsOK, CallOK
<1> QED BY <1>1, <1>2, <1>3, <1>4, <1>5, <1>6

\* A call that fails changes nothing that is shown.
LEMMA RejectStep ==
  ASSUME IInv, NEW call \in calls, Reject(call)
  PROVE  IInv'
<1> USE SelectedExists, NoneAssumption DEF IInv, serverVars, detailVars, previewVars, actionVars, store, vars, Reject, Call, Shown, Latest
<1>1. TypeOK' BY DEF TypeOK, StoreTypeOK, Existing, CallsOK, CallOK, DialogOK
<1>2. Existing' BY <1>1 DEF TypeOK, StoreTypeOK, Existing, CallsOK, CallOK, DialogOK
<1>3. PreviewFollows' BY DEF PreviewFollows, Selected, SelectedOf, Existing, TypeOK
<1>4. DialogOK' BY DEF DialogOK, Refreshing, Selected, SelectedOf, PreviewOf, PreviewFollows, CallsOK, CallOK, TypeOK
<1>5. CallsOK' BY DEF CallsOK, CallOK, DialogOK, Refreshing, Selected, SelectedOf, PreviewOf, PreviewFollows, WillMark, TypeOK, StoreTypeOK
<1>6. OutcomeOK' BY DEF OutcomeOK, WillMark, WillArchive, TypeOK, StoreTypeOK, Refreshing, CallsOK, CallOK
<1> QED BY <1>1, <1>2, <1>3, <1>4, <1>5, <1>6

\* The failure of the only call leaves the page idle.
LEMMA ReportFailureStep ==
  ASSUME IInv, NEW call \in calls, ReportFailure(call)
  PROVE  IInv'
<1> USE SelectedExists, NoneAssumption DEF IInv, serverVars, detailVars, previewVars, actionVars, store, vars, ReportFailure, Finish, Shown, Latest
<1>1. TypeOK' BY DEF TypeOK, StoreTypeOK, Existing, CallsOK, CallOK, DialogOK
<1>2. Existing' BY <1>1 DEF TypeOK, StoreTypeOK, Existing, CallsOK, CallOK, DialogOK
<1>3. PreviewFollows' BY DEF PreviewFollows, Selected, SelectedOf, Existing, TypeOK
<1>4. DialogOK' BY DEF DialogOK, Refreshing, Selected, SelectedOf, PreviewOf, PreviewFollows, CallsOK, CallOK, TypeOK
<1>5. CallsOK' BY DEF CallsOK, CallOK, DialogOK, Refreshing, Selected, SelectedOf, PreviewOf, PreviewFollows, WillMark, TypeOK, StoreTypeOK
<1>6. OutcomeOK' BY DEF OutcomeOK, WillMark, WillArchive, TypeOK, StoreTypeOK, Refreshing, CallsOK, CallOK
<1> QED BY <1>1, <1>2, <1>3, <1>4, <1>5, <1>6

\* The archived item is reported and read again.
LEMMA ReportArchivedStep ==
  ASSUME IInv, NEW call \in calls, ReportArchived(call)
  PROVE  IInv'
<1> USE SelectedExists, NoneAssumption DEF IInv, serverVars, detailVars, previewVars, actionVars, store, vars, ReportArchived, Finish, OnRefresh, StartOfLoad, Load, Outcome, Shown, Latest
<1>1. TypeOK' BY DEF TypeOK, StoreTypeOK, Existing, CallsOK, CallOK, DialogOK
<1>2. Existing' BY <1>1 DEF TypeOK, StoreTypeOK, Existing, CallsOK, CallOK, DialogOK
<1>3. PreviewFollows' BY DEF PreviewFollows, Selected, SelectedOf, Existing, TypeOK
<1>4. DialogOK' BY DEF DialogOK, Refreshing, Selected, SelectedOf, PreviewOf, PreviewFollows, CallsOK, CallOK, TypeOK
<1>5. CallsOK' BY DEF CallsOK, CallOK, DialogOK, Refreshing, Selected, SelectedOf, PreviewOf, PreviewFollows, WillMark, TypeOK, StoreTypeOK
<1>6. OutcomeOK' BY DEF OutcomeOK, WillMark, WillArchive, TypeOK, StoreTypeOK, Refreshing, CallsOK, CallOK
<1> QED BY <1>1, <1>2, <1>3, <1>4, <1>5, <1>6

\* The published item is read again while it is verified.
LEMMA StartVerificationStep ==
  ASSUME IInv, NEW call \in calls, StartVerification(call)
  PROVE  IInv'
<1> USE SelectedExists, NoneAssumption DEF IInv, serverVars, detailVars, previewVars, actionVars, store, vars, StartVerification, OnRefresh, StartOfLoad, Load, Call, Shown, Latest
<1>1. TypeOK' BY DEF TypeOK, StoreTypeOK, Existing, CallsOK, CallOK, DialogOK
<1>2. Existing' BY <1>1 DEF TypeOK, StoreTypeOK, Existing, CallsOK, CallOK, DialogOK
<1>3. PreviewFollows' BY DEF PreviewFollows, Selected, SelectedOf, Existing, TypeOK
<1>4. DialogOK' BY DEF DialogOK, Refreshing, Selected, SelectedOf, PreviewOf, PreviewFollows, CallsOK, CallOK, TypeOK
<1>5. CallsOK' BY DEF CallsOK, CallOK, DialogOK, Refreshing, Selected, SelectedOf, PreviewOf, PreviewFollows, WillMark, TypeOK, StoreTypeOK
<1>6. OutcomeOK' BY DEF OutcomeOK, WillMark, WillArchive, TypeOK, StoreTypeOK, Refreshing, CallsOK, CallOK
<1> QED BY <1>1, <1>2, <1>3, <1>4, <1>5, <1>6

\* What was verified is being read again.
LEMMA ReportPublishedStep ==
  ASSUME IInv, NEW call \in calls, ReportPublished(call)
  PROVE  IInv'
<1> USE SelectedExists, NoneAssumption DEF IInv, serverVars, detailVars, previewVars, actionVars, store, vars, ReportPublished, Finish, Outcome, Call, Shown, Latest
<1>1. TypeOK' BY DEF TypeOK, StoreTypeOK, Existing, CallsOK, CallOK, DialogOK
<1>2. Existing' BY <1>1 DEF TypeOK, StoreTypeOK, Existing, CallsOK, CallOK, DialogOK
<1>3. PreviewFollows' BY DEF PreviewFollows, Selected, SelectedOf, Existing, TypeOK
<1>4. DialogOK' BY DEF DialogOK, Refreshing, Selected, SelectedOf, PreviewOf, PreviewFollows, CallsOK, CallOK, TypeOK
<1>5. CallsOK' BY DEF CallsOK, CallOK, DialogOK, Refreshing, Selected, SelectedOf, PreviewOf, PreviewFollows, WillMark, TypeOK, StoreTypeOK
<1>6. OutcomeOK' BY DEF OutcomeOK, WillMark, WillArchive, TypeOK, StoreTypeOK, Refreshing, CallsOK, CallOK
<1> QED BY <1>1, <1>2, <1>3, <1>4, <1>5, <1>6

\* Others only add revisions, publications and a last status.
LEMMA OtherAdministratorsStep ==
  ASSUME IInv, OtherAdministrators
  PROVE  IInv'
<1> USE SelectedExists, NoneAssumption DEF IInv, serverVars, detailVars, previewVars, actionVars, store, vars, OtherAdministrators, Publish, PublishItem, Archive, ArchiveItem, ReviewItem, CommitRevision, Statuses, StoreTypeOK, Latest, Documents, Shown, Latest
<1>1. TypeOK'
  <2>1. /\ revisions' \in Seq(Documents) /\ revisions' # <<>>
        /\ Latest <= Latest' /\ status' \in Statuses
    BY DEF TypeOK, StoreTypeOK
  <2>2. published' \in 0 .. Latest' /\ publications' \subseteq 1 .. Latest'
    <3>1. published \in 0 .. Latest /\ publications \subseteq 1 .. Latest /\ Latest' \in Nat
          /\ Latest \in Nat
      BY <2>1 DEF TypeOK
    <3>2. \/ UNCHANGED <<published, publications>>
          \/ \E n \in 1 .. Latest : published' = n /\ publications' = publications \cup {n}
      OBVIOUS
    <3>3. Latest \in Nat /\ Latest' \in Nat /\ Latest <= Latest' BY <2>1, <3>1
    <3> HIDE DEF Latest
    <3>4. CASE UNCHANGED <<published, publications>> BY <3>1, <3>3, <3>4
    <3>5. CASE \E n \in 1 .. Latest : published' = n /\ publications' = publications \cup {n}
      BY <3>1, <3>3, <3>5
    <3> QED BY <3>2, <3>4, <3>5
  <2> QED BY <2>1, <2>2 DEF TypeOK, StoreTypeOK
<1>2. Existing' BY <1>1 DEF TypeOK, StoreTypeOK, Existing, CallsOK, CallOK, DialogOK
<1>3. PreviewFollows' BY DEF PreviewFollows, Selected, SelectedOf, Existing, TypeOK
<1>4. DialogOK' BY DEF DialogOK, Refreshing, Selected, SelectedOf, PreviewOf, PreviewFollows, CallsOK, CallOK, TypeOK
<1>5. CallsOK' BY DEF CallsOK, CallOK, DialogOK, Refreshing, Selected, SelectedOf, PreviewOf, PreviewFollows, WillMark, TypeOK, StoreTypeOK
<1>6. OutcomeOK' BY DEF OutcomeOK, WillMark, WillArchive, TypeOK, StoreTypeOK, Refreshing, CallsOK, CallOK
<1> QED BY <1>1, <1>2, <1>3, <1>4, <1>5, <1>6

\* Nothing is shown, chosen or under way at first.
LEMMA InitOK == Init => IInv
<1> SUFFICES ASSUME Init PROVE IInv OBVIOUS
<1>1. revisions \in Seq(Documents) /\ revisions # <<>> /\ Len(revisions) = 1
  BY DEF Init, StoreInit, Documents
<1>2. TypeOK
  <2>1. StoreTypeOK BY <1>1 DEF Init, StoreInit, StoreTypeOK, Statuses
  <2>2. published \in 0 .. Latest /\ publications \subseteq 1 .. Latest /\ previewLoad \in 0 .. Latest
    BY <1>1 DEF Init, PageInit, Latest
  <2> QED BY <2>1, <2>2, StartTypes DEF Init, PageInit, TypeOK
<1>3. ~Shown /\ Selected = 0 BY DEF Init, PageInit, Shown, Selected
<1>4. Existing BY <1>1, <1>3 DEF Init, PageInit, Existing, StartOfLoad, Latest
<1>5. PreviewFollows /\ DialogOK /\ CallsOK /\ OutcomeOK
  BY DEF Init, PageInit, PreviewFollows, DialogOK, CallsOK, OutcomeOK, NoOutcome
<1> QED BY <1>2, <1>4, <1>5 DEF IInv

\* Nothing of the invariant depends on more than the variables.
LEMMA StutterStep == IInv /\ UNCHANGED vars => IInv'
BY DEF IInv, vars, serverVars, detailVars, previewVars, actionVars, store, TypeOK, StoreTypeOK,
       Existing, PreviewFollows, DialogOK, CallsOK, CallOK, OutcomeOK, WillMark, WillArchive,
       PreviewOf, Shown, Selected, SelectedOf, Refreshing, Latest

\* The invariant is inductive: one lemma per action.
LEMMA StepOK == IInv /\ [Next]_vars => IInv'
<1> SUFFICES ASSUME IInv, [Next]_vars PROVE IInv' OBVIOUS
<1>1. CASE UserStep
  BY <1>1, RetryStep, LeaveStep, CloseDialogStep, ConfirmStep, SelectRevisionStep, ChooseActionStep
  DEF UserStep
<1>2. CASE LoadStep
  BY <1>2, ReadItemStep, ReadRevisionsStep, ShowItemStep, LoadFailsStep DEF LoadStep
<1>3. CASE PreviewArrives BY <1>3, PreviewArrivesStep
<1>4. ASSUME NEW call \in calls, CallStep(call) PROVE IInv'
  BY <1>4, AcceptStep, RejectStep, ReportFailureStep, ReportArchivedStep, StartVerificationStep,
     ReportPublishedStep
  DEF CallStep
<1>5. CASE OtherAdministrators BY <1>5, OtherAdministratorsStep
<1>6. CASE UNCHANGED vars BY <1>6, StutterStep
<1> QED BY <1>1, <1>2, <1>3, <1>4, <1>5, <1>6 DEF Next

\* The inductive invariant holds in every reachable state.
THEOREM Invariance == Spec => []IInv
BY InitOK, StepOK, PTL DEF Spec

\* Type correctness: in particular only revisions that exist are published.
THEOREM TypeCorrect == Spec => []TypeOK
BY Invariance, PTL DEF IInv

\* One operation at a time, also after the dialog was closed under it.
THEOREM OneOperationCorrect == Spec => []OneOperation
<1>1. IInv => OneOperation BY DEF IInv, CallsOK, CallOK, OneOperation
<1> QED BY <1>1, Invariance, PTL

\* What is confirmed and sent is what is selected and previewed.
THEOREM PreviewCorrect == Spec => []ConfirmedIsPreviewed
<1>1. IInv => ConfirmedIsPreviewed
  BY DEF IInv, CallsOK, CallOK, DialogOK, PreviewOf, ConfirmedIsPreviewed
<1> QED BY <1>1, Invariance, PTL

\* No success is reported of what was not done.
THEOREM OutcomeTrue == Spec => []OutcomeIsTrue
<1>1. IInv => OutcomeIsTrue BY DEF IInv, OutcomeOK, OutcomeIsTrue
<1> QED BY <1>1, Invariance, PTL

\* A page that is up to date shows the success it reports.
THEOREM OutcomeShown == Spec => []OutcomeIsShown
<1>1. IInv => OutcomeIsShown
  BY DEF IInv, OutcomeOK, OutcomeIsShown, WillMark, WillArchive, Refreshing
<1> QED BY <1>1, Invariance, PTL

\* A call that is sent is sent for an item not shown as archived.
THEOREM ArchivedCorrect == Spec => ArchivedIsFinal
<1>1. ASSUME IInv, [Next]_vars, NEW call \in calls' \ calls, call.phase = "sent"
      PROVE  Shown /\ ~result.item.archived
  <2>1. CASE Confirm
    BY <1>1, <2>1 DEF Confirm, Busy, IInv, DialogOK
  <2>2. ASSUME ~Confirm PROVE FALSE
    <3>1. ASSUME NEW c \in calls, CallStep(c) PROVE FALSE
      <4>1. c \in Call BY <1>1 DEF IInv, TypeOK
      <4>2. PICK phase \in {"accepted", "rejected", "verifying"} :
              calls' \subseteq calls \cup {[c EXCEPT !.phase = phase]}
        BY <3>1 DEF CallStep, Accept, Reject, ReportFailure, ReportArchived, StartVerification,
                    ReportPublished, Finish
      <4>3. call = [c EXCEPT !.phase = phase] BY <1>1, <4>2
      <4> QED BY <1>1, <4>1, <4>2, <4>3 DEF Call
    <3>2. calls' \subseteq calls \/ \E c \in calls : CallStep(c)
      BY <1>1, <2>2 DEF Next, vars, actionVars, UserStep, Retry, Leave, CloseDialog, SelectRevision,
         ChooseAction, LoadStep, ReadItem, ReadRevisions, ShowItem, LoadFails, PreviewArrives,
         OtherAdministrators
    <3> QED BY <1>1, <3>1, <3>2
  <2> QED BY <2>1, <2>2
<1>2. IInv /\ [Next]_vars =>
        [\A call \in calls' \ calls :
           call.phase = "sent" => Shown /\ ~result.item.archived]_vars
  BY <1>1
<1> QED BY <1>2, Invariance, PTL DEF Spec, ArchivedIsFinal
=============================================================================
