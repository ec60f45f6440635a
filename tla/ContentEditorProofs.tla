------------------------- MODULE ContentEditorProofs -------------------------
(***************************************************************************)
(* Proofs about ContentEditor, for any number of tabs, edits and saves.    *)
(***************************************************************************)
EXTENDS ContentEditor, TLAPS

-----------------------------------------------------------------------------
(***************************************************************************)
(* Type correctness.                                                       *)
(***************************************************************************)

\* The updates the handlers make to the editor state yield an editor state.
LEMMA StateTypes ==
  ASSUME NEW s \in EditorState, NEW d \in Documents, NEW c \in Causes
  PROVE  /\ RequestingState(s) \in EditorState
         /\ UpdateDocument(s, d) \in EditorState
         /\ FailedState(s, c) \in EditorState
         /\ [s EXCEPT !.busy = FALSE] \in EditorState
<1> USE DEF EditorState, Causes
<1>1. RequestingState(s) \in EditorState
  BY DEF RequestingState
<1>2. UpdateDocument(s, d) \in EditorState
  BY DEF UpdateDocument
<1>3. FailedState(s, c) \in EditorState
  <2>1. IsBlocked(c) \in BOOLEAN
    BY DEF IsBlocked
  <2> QED
    BY <2>1 DEF FailedState
<1>4. [s EXCEPT !.busy = FALSE] \in EditorState
  OBVIOUS
<1> QED
  BY <1>1, <1>2, <1>3, <1>4

\* What loadEditor and a saved reply put in the state is an editor state too.
LEMMA NewStateTypes ==
  ASSUME StoreTypeOK, NEW n \in 1 .. Latest
  PROVE  /\ \A load \in Load : load.latest = n => LoadedState(load) \in EditorState
         /\ \A s \in EditorState, saved \in Reply :
              saved.revision = n => SavedState(s, saved) \in EditorState
<1> USE DEF EditorState, Causes
<1>1. n \in Nat /\ revisions[n] \in Documents
  BY DEF StoreTypeOK, Latest
<1>2. ASSUME NEW load \in Load, load.latest = n
      PROVE  LoadedState(load) \in EditorState
  BY <1>1, <1>2 DEF LoadedState, Load, IsDraft
<1>3. ASSUME NEW s \in EditorState, NEW saved \in Reply, saved.revision = n
      PROVE  SavedState(s, saved) \in EditorState
  BY <1>1, <1>3 DEF SavedState, Reply
<1> QED
  BY <1>2, <1>3

-----------------------------------------------------------------------------
(***************************************************************************)
(* The inductive invariant: what holds of a tab, of a request in flight,   *)
(* and of both together.                                                   *)
(***************************************************************************)

Saving(e) == \E r \in requests : r.from = e
Answered(e) == replies[e] # None
Loading(e) == loading[e] # None

\* A tab that shows a draft.
ShownOK(e) ==
  /\ state[e].revision \in 1 .. Latest
  /\ state[e].savedDocument = revisions[state[e].revision]
  /\ state[e].savedDocument \subseteq state[e].document
  /\ state[e].busy <=> (Saving(e) \/ Answered(e) \/ Loading(e))
  /\ ~(Saving(e) /\ Answered(e)) /\ ~(Saving(e) /\ Loading(e)) /\ ~(Answered(e) /\ Loading(e))
  /\ deleting[e] => ~state[e].busy
  /\ Saving(e) \/ Answered(e) => ~state[e].blocked
  /\ state[e].blocked /\ ~state[e].busy => state[e].error = "denied" \/ ReloadOffered(e)

TabOK(e) ==
  /\ e \notin mounted => state[e] = None /\ ~Loading(e) /\ ~loadError[e]
  /\ Loading(e) => loading[e].latest <= Latest /\ ~loadError[e]
  /\ state[e] = None => ~Saving(e) /\ ~Answered(e) /\ ~deleting[e]
  /\ state[e] # None => ShownOK(e)
  /\ Answered(e) /\ replies[e].cause = "none" =>
       /\ replies[e].revision \in 1 .. Latest
       /\ revisions[replies[e].revision] = state[e].document

RequestOK(r) ==
  /\ r.base \in 1 .. Latest
  /\ revisions[r.base] \subseteq r.document
  /\ revisions[r.base] # r.document
  /\ Valid(r.document)
  /\ r.from # None => /\ state[r.from] # None
                      /\ state[r.from].document = r.document
                      /\ state[r.from].revision = r.base

IInv ==
  /\ TypeOK
  /\ \A e \in Editors : TabOK(e)
  /\ \A r \in requests : RequestOK(r)

\* The store between two states: revisions are added, never changed.
StoreGrows ==
  /\ Latest \in Nat /\ Latest' \in Nat /\ Latest <= Latest'
  /\ \A n \in 1 .. Latest : revisions'[n] = revisions[n]

\* A step that leaves a tab and its requests alone leaves its invariant alone,
\* whatever it does to other tabs and to the store.
LEMMA TabFrame ==
  ASSUME TypeOK, StoreGrows, NEW f \in Editors, TabOK(f),
         state'[f] = state[f], loading'[f] = loading[f], loadError'[f] = loadError[f],
         deleting'[f] = deleting[f], replies'[f] = replies[f], Saving(f)' <=> Saving(f),
         f \in mounted' <=> f \in mounted
  PROVE  TabOK(f)'
<1>1. CASE state[f] = None
  BY <1>1 DEF TabOK, Loading, Answered, StoreGrows, TypeOK, Load
<1>2. CASE state[f] # None
  <2>1. ShownOK(f)'
    BY <1>2 DEF TabOK, ShownOK, Loading, Answered, ReloadOffered, StoreGrows
  <2> QED
    BY <1>2, <2>1 DEF TabOK, Loading, Answered, StoreGrows, TypeOK, Load
<1> QED
  BY <1>1, <1>2

\* A request stays in order while revisions are added and its tab shows the
\* same document on top of the same revision.
LEMMA RequestFrame ==
  ASSUME StoreGrows, NEW r, RequestOK(r),
         r.from # None => state'[r.from] # None /\ state'[r.from].document = state[r.from].document
                          /\ state'[r.from].revision = state[r.from].revision
  PROVE  RequestOK(r)'
BY DEF RequestOK, StoreGrows, Valid

\* A tab has at most one request in flight.
LEMMA OneRequest ==
  ASSUME IInv, NEW q \in requests, NEW r \in requests, q.from = r.from, r.from # None
  PROVE  q = r
<1>1. q.base = r.base /\ q.document = r.document
  BY DEF IInv, RequestOK
<1> QED
  BY <1>1 DEF IInv, TypeOK, Request

\* A step of one tab that sends and answers nothing: what is left to show of
\* it is its own tab's invariant, and that it keeps what it has in flight.
LEMMA LocalStep ==
  ASSUME IInv, NEW e \in Editors, UNCHANGED <<store, requests>>, TypeOK', TabOK(e)',
         \A f \in Editors \ {e} :
           /\ state'[f] = state[f] /\ loading'[f] = loading[f] /\ loadError'[f] = loadError[f]
           /\ deleting'[f] = deleting[f] /\ replies'[f] = replies[f]
           /\ f \in mounted' <=> f \in mounted,
         Saving(e) => /\ state'[e] # None
                      /\ state'[e].document = state[e].document
                      /\ state'[e].revision = state[e].revision
  PROVE  IInv'
<1>1. StoreGrows
  BY DEF IInv, TypeOK, StoreTypeOK, StoreGrows, Latest, store
<1>2. \A f \in Editors : TabOK(f)'
  <2> SUFFICES ASSUME NEW f \in Editors, f # e
               PROVE  TabOK(f)'
    OBVIOUS
  <2> QED
    BY <1>1, TabFrame DEF IInv, Saving
<1>3. \A r \in requests' : RequestOK(r)'
  <2> SUFFICES ASSUME NEW r \in requests
               PROVE  RequestOK(r)'
    OBVIOUS
  <2>1. RequestOK(r) /\ r \in Request
    BY DEF IInv, TypeOK
  <2>2. r.from # None => state'[r.from] # None /\ state'[r.from].document = state[r.from].document
                          /\ state'[r.from].revision = state[r.from].revision
    BY <2>1 DEF Saving, RequestOK, Request
  <2> QED
    BY <1>1, <2>1, <2>2, RequestFrame
<1> QED
  BY <1>2, <1>3 DEF IInv

-----------------------------------------------------------------------------
(***************************************************************************)
(* Every step preserves the invariant.                                     *)
(***************************************************************************)

\* A tab that opens has nothing but a load.
LEMMA OpenStep ==
  ASSUME IInv, NEW e \in Editors, Open(e)
  PROVE  IInv'
<1>1. TypeOK'
  BY DEF IInv, TypeOK, StoreTypeOK, Open, StartOfLoad, Load, netVars, store
<1>2. TabOK(e)'
  <2>1. state'[e] = None /\ ~Saving(e)' /\ ~Answered(e)' /\ ~deleting'[e]
    BY DEF IInv, TabOK, Open, Saving, Answered, netVars
  <2>2. e \in mounted' /\ loading'[e] = StartOfLoad /\ ~loadError'[e]
    BY DEF IInv, TypeOK, TabOK, Open
  <2> QED
    BY <1>1, <2>1, <2>2 DEF TabOK, Answered, StartOfLoad, TypeOK, StoreTypeOK, Latest
<1> QED
  BY <1>1, <1>2, LocalStep DEF IInv, TypeOK, TabOK, Open, netVars

\* A tab that closes leaves only orphaned requests, which name no tab.
LEMMA CloseStep ==
  ASSUME IInv, NEW e \in Editors, Close(e)
  PROVE  IInv'
<1> DEFINE Orphaned(r) == IF r.from = e THEN [r EXCEPT !.from = None] ELSE r
<1>1. \A r \in requests : Orphaned(r) \in Request /\ Orphaned(r).from # e
                         /\ Orphaned(r).base = r.base /\ Orphaned(r).document = r.document
                         /\ (r.from # e => Orphaned(r) = r)
                         /\ (r.from = e => Orphaned(r).from = None)
  BY NoneAssumption DEF IInv, TypeOK, Request
<1>2. requests' = {Orphaned(r) : r \in requests}
  BY DEF Close
<1> HIDE DEF Orphaned
<1>3. TypeOK'
  <2>1. requests' \subseteq Request
    BY <1>1, <1>2
  <2> QED
    BY <2>1 DEF IInv, TypeOK, StoreTypeOK, Close, store
<1>4. StoreGrows
  BY DEF IInv, TypeOK, StoreTypeOK, StoreGrows, Latest, Close, store
<1>5. ASSUME NEW f \in Editors \ {e}
      PROVE  TabOK(f)'
  <2>1. Saving(f)' <=> Saving(f)
    BY <1>1, <1>2, NoneAssumption DEF Saving
  <2> QED
    BY <1>4, <2>1, TabFrame DEF IInv, TypeOK, Close
<1>6. TabOK(e)'
  <2>1. ~Saving(e)'
    BY <1>1, <1>2 DEF Saving
  <2> QED
    BY <2>1 DEF IInv, TypeOK, TabOK, Close, Loading, Answered
<1>7. ASSUME NEW r \in requests
      PROVE  RequestOK(Orphaned(r))'
  <2>1. RequestOK(r) /\ r \in Request
    BY DEF IInv, TypeOK
  <2>2. CASE r.from = e
    BY <1>1, <1>4, <2>1, <2>2 DEF RequestOK, StoreGrows, Valid
  <2>3. CASE r.from # e
    <3>1. r.from # None => state'[r.from] = state[r.from]
      BY <2>1, <2>3 DEF IInv, TypeOK, Close, Request
    <3>2. RequestOK(r)'
      BY <1>4, <2>1, <3>1, RequestFrame DEF RequestOK
    <3> QED
      BY <1>1, <2>3, <3>2
  <2> QED
    BY <2>2, <2>3
<1> QED
  BY <1>2, <1>3, <1>5, <1>6, <1>7 DEF IInv

\* Trying again starts a load where none was.
LEMMA RetryLoadStep ==
  ASSUME IInv, NEW e \in Editors, RetryLoad(e)
  PROVE  IInv'
<1>1. TypeOK'
  BY DEF IInv, TypeOK, StoreTypeOK, RetryLoad, StartOfLoad, Load, netVars, store
<1>2. TabOK(e)'
  <2>1. state'[e] = None /\ ~Saving(e)' /\ ~Answered(e)' /\ ~deleting'[e]
    BY DEF IInv, TabOK, RetryLoad, Saving, Answered, netVars
  <2>2. e \in mounted' /\ loading'[e] = StartOfLoad /\ ~loadError'[e]
    BY DEF IInv, TypeOK, TabOK, RetryLoad
  <2> QED
    BY <1>1, <2>1, <2>2 DEF TabOK, Answered, StartOfLoad, TypeOK, StoreTypeOK, Latest
<1> QED
  BY <1>1, <1>2, LocalStep DEF IInv, TypeOK, TabOK, RetryLoad, netVars

\* A reload starts in an idle tab and makes it busy.
LEMMA ReloadLatestStep ==
  ASSUME IInv, NEW e \in Editors, ReloadLatest(e)
  PROVE  IInv'
<1>1. state[e] \in EditorState /\ TabOK(e) /\ ShownOK(e)
  BY DEF IInv, TypeOK, TabOK, ReloadLatest
<1>2. TypeOK'
  <2>1. RequestingState(state[e]) \in EditorState /\ StartOfLoad \in Load
    BY <1>1, StateTypes, EditsAssumption DEF StartOfLoad, Load, Documents, Causes
  <2> QED
    BY <2>1 DEF IInv, TypeOK, StoreTypeOK, ReloadLatest, netVars, store
<1>3. /\ state'[e] = RequestingState(state[e]) /\ loading'[e] = StartOfLoad
      /\ ~Saving(e)' /\ ~Answered(e)' /\ ~deleting'[e] /\ e \in mounted' /\ ~loadError'[e]
  BY <1>1 DEF IInv, TypeOK, TabOK, ShownOK, ReloadLatest, Saving, Answered, netVars
<1>4. /\ state'[e] \in EditorState /\ state'[e].busy /\ state'[e].error = "none"
      /\ state'[e].document = state[e].document /\ state'[e].revision = state[e].revision
      /\ state'[e].savedDocument = state[e].savedDocument
      /\ StartOfLoad.latest = 0
  BY <1>1, <1>3, StateTypes DEF RequestingState, EditorState, StartOfLoad
<1>5. StartOfLoad \in Load /\ loading'[e] # None /\ state'[e] # None
  <2>1. StartOfLoad \in Load
    BY DEF StartOfLoad, Load
  <2> QED
    BY <1>3, <1>4, <2>1, NoneAssumption
<1>6. TabOK(e)'
  <2>1. ShownOK(e)'
    BY <1>1, <1>3, <1>4, <1>5 DEF ShownOK, Loading, Latest, ReloadLatest, store
  <2> QED
    BY <1>3, <1>4, <1>5, <2>1, <1>2 DEF TabOK, Answered, TypeOK, StoreTypeOK, Latest
<1>7. ~Saving(e)
  BY <1>3 DEF Saving, ReloadLatest, netVars
<1> QED
  BY <1>2, <1>6, <1>7, LocalStep DEF IInv, TypeOK, ReloadLatest, netVars

\* The first half of a load changes nothing that is shown.
LEMMA ReadItemStep ==
  ASSUME IInv, NEW e \in Editors, ReadItem(e)
  PROVE  IInv'
<1> DEFINE load == [latest |-> Latest, itemIsDraft |-> IsDraft]
<1>1. load \in Load /\ load.latest = Latest
  BY DEF IInv, TypeOK, StoreTypeOK, Latest, IsDraft, Load
<1>2. load # None
  BY <1>1, NoneAssumption
<1>3. loading' = [loading EXCEPT ![e] = load]
  BY DEF ReadItem
<1> HIDE DEF load
<1>4. TypeOK'
  BY <1>1, <1>3 DEF IInv, TypeOK, StoreTypeOK, ReadItem, netVars, store
<1>5. TabOK(e)'
  <2>1. TabOK(e) /\ e \in mounted' /\ loading'[e] = load /\ loading[e] # None
    BY <1>3 DEF IInv, TypeOK, TabOK, ReadItem, Loading
  <2>2. ASSUME state[e] # None
        PROVE  ShownOK(e)'
    BY <1>2, <2>1, <2>2 DEF TabOK, ShownOK, Loading, Saving, Answered, ReloadOffered, Latest,
                            ReadItem, netVars, store
  <2> QED
    BY <1>1, <2>1, <2>2 DEF TabOK, Saving, Answered, Loading, Latest, ReadItem, netVars, store,
                            IInv, TypeOK, StoreTypeOK
<1> QED
  BY <1>3, <1>4, <1>5, LocalStep DEF IInv, TypeOK, TabOK, ReadItem, netVars

\* The second half of a load shows a revision that exists.
LEMMA ReadRevisionStep ==
  ASSUME IInv, NEW e \in Editors, ReadRevision(e)
  PROVE  IInv'
<1> DEFINE new == LoadedState(loading[e])
<1>1. TabOK(e) /\ loading[e] \in Load /\ loading[e].latest \in 1 .. Latest
  BY DEF IInv, TypeOK, StoreTypeOK, TabOK, ReadRevision, Loading, Load, Latest
<1>2. new \in EditorState
  BY <1>1, NewStateTypes DEF IInv, TypeOK
<1>3. /\ new # None
      /\ new.revision = loading[e].latest /\ new.savedDocument = revisions[loading[e].latest]
      /\ new.document = new.savedDocument /\ new.busy = FALSE /\ new.blocked = FALSE
  BY <1>2, NoneAssumption DEF LoadedState
<1>4. state' = [state EXCEPT ![e] = new] /\ loading' = [loading EXCEPT ![e] = None]
  BY DEF ReadRevision
<1> HIDE DEF new
<1>5. TypeOK'
  BY <1>2, <1>4 DEF IInv, TypeOK, StoreTypeOK, ReadRevision, netVars, store
<1>6. state'[e] = new /\ ~Loading(e)' /\ e \in mounted' /\ ~Saving(e) /\ ~Answered(e) /\ ~deleting[e]
  BY <1>1, <1>4 DEF IInv, TypeOK, TabOK, ShownOK, ReadRevision, Loading
<1>7. TabOK(e)'
  <2>1. ShownOK(e)'
    BY <1>1, <1>3, <1>6 DEF ShownOK, Saving, Answered, Latest, ReadRevision, netVars, store
  <2> QED
    BY <1>3, <1>6, <2>1 DEF TabOK, Answered, ReadRevision, netVars
<1> QED
  BY <1>4, <1>5, <1>6, <1>7, LocalStep DEF IInv, TypeOK, ReadRevision, netVars

\* A load that fails leaves the tab idle with what it showed.
LEMMA LoadFailsStep ==
  ASSUME IInv, NEW e \in Editors, LoadFails(e)
  PROVE  IInv'
<1>1. TabOK(e) /\ Loading(e)
  BY DEF IInv, LoadFails, Loading
<1>2. CASE state[e] = None
  <2>1. state' = state
    BY <1>2 DEF LoadFails, AfterFailedLoad, IInv, TypeOK
  <2>2. TypeOK'
    BY <2>1 DEF IInv, TypeOK, StoreTypeOK, LoadFails, netVars, store
  <2>3. TabOK(e)'
    BY <1>1, <1>2, <2>1 DEF IInv, TypeOK, TabOK, LoadFails, Loading, Saving, Answered, netVars, store
  <2> QED
    BY <1>1, <1>2, <2>1, <2>2, <2>3, LocalStep DEF IInv, TypeOK, TabOK, LoadFails, netVars
<1>3. CASE state[e] # None
  <2> DEFINE new == [state[e] EXCEPT !.busy = FALSE]
  <2>1. state[e] \in EditorState
    BY <1>3 DEF IInv, TypeOK
  <2>2. new \in EditorState
    BY <2>1, StateTypes, EditsAssumption DEF Documents, Causes
  <2>3. /\ new # None /\ new.busy = FALSE
        /\ new.revision = state[e].revision /\ new.savedDocument = state[e].savedDocument
        /\ new.document = state[e].document /\ new.blocked = state[e].blocked
    BY <2>1, <2>2, NoneAssumption DEF EditorState
  <2>4. state' = [state EXCEPT ![e] = new] /\ loading' = [loading EXCEPT ![e] = None]
    BY <1>3 DEF LoadFails, AfterFailedLoad, IInv, TypeOK
  <2> HIDE DEF new
  <2>5. TypeOK'
    BY <2>2, <2>4 DEF IInv, TypeOK, StoreTypeOK, LoadFails, netVars, store
  <2>6. /\ state'[e] = new /\ ~Loading(e)' /\ loadError'[e] /\ e \in mounted'
        /\ ~Saving(e) /\ ~Answered(e) /\ ~deleting[e]
    BY <1>1, <1>3, <2>4 DEF IInv, TypeOK, TabOK, ShownOK, LoadFails, Loading
  <2>7. TabOK(e)'
    <3>1. ShownOK(e)'
      BY <1>1, <1>3, <2>3, <2>6 DEF TabOK, ShownOK, Saving, Answered, ReloadOffered, Latest,
                                    LoadFails, netVars, store
    <3> QED
      BY <2>3, <2>6, <3>1 DEF TabOK, Answered, LoadFails, netVars
  <2> QED
    BY <2>4, <2>5, <2>6, <2>7, LocalStep DEF IInv, TypeOK, LoadFails, netVars
<1> QED
  BY <1>2, <1>3

\* A change of the document of an idle tab that keeps its baseline, by typing
\* or from the dialog, which may close.
LEMMA DocumentStep ==
  ASSUME IInv, NEW e \in Editors, state[e] # None, ~state[e].busy,
         NEW d \in Documents, state[e].savedDocument \subseteq d,
         state' = [state EXCEPT ![e] = UpdateDocument(@, d)],
         deleting' \in {deleting, [deleting EXCEPT ![e] = FALSE]},
         UNCHANGED <<store, mounted, loading, loadError, issues, netVars>>
  PROVE  IInv'
<1> DEFINE new == UpdateDocument(state[e], d)
<1>1. state[e] \in EditorState /\ TabOK(e) /\ ShownOK(e)
  BY DEF IInv, TypeOK, TabOK
<1>2. new \in EditorState
  BY <1>1, StateTypes DEF Causes
<1>3. /\ new # None /\ new.document = d /\ new.error = state[e].error
      /\ new.revision = state[e].revision /\ new.savedDocument = state[e].savedDocument
      /\ new.busy = state[e].busy /\ new.blocked = state[e].blocked
  BY <1>1, <1>2, NoneAssumption DEF UpdateDocument, EditorState
<1>4. state'[e] = new /\ ~Saving(e) /\ ~Answered(e) /\ ~Loading(e)
  BY <1>1 DEF IInv, TypeOK, ShownOK
<1>5. TypeOK'
  BY <1>2 DEF IInv, TypeOK, StoreTypeOK, netVars, store
<1> HIDE DEF new
<1>6. TabOK(e)'
  <2>1. ShownOK(e)'
    BY <1>1, <1>3, <1>4 DEF ShownOK, Saving, Answered, Loading, ReloadOffered, Latest, netVars, store
  <2> QED
    BY <1>1, <1>3, <1>4, <2>1 DEF TabOK, Answered, Loading, netVars
<1> QED
  BY <1>4, <1>5, <1>6, LocalStep DEF IInv, TypeOK, netVars

\* An edit happens in an idle tab and stays above the baseline.
LEMMA EditStep ==
  ASSUME IInv, NEW e \in Editors, Edit(e)
  PROVE  IInv'
<1>1. /\ state[e] # None /\ ~state[e].busy /\ state[e] \in EditorState
      /\ state[e].savedDocument \subseteq state[e].document /\ state[e].document \subseteq Edits
  BY DEF Edit, CanEdit, Editable, IInv, TypeOK, TabOK, ShownOK, EditorState, Documents
<1>2. PICK d \in Documents : /\ state[e].savedDocument \subseteq d
                             /\ state' = [state EXCEPT ![e] = UpdateDocument(@, d)]
  <2>1. CASE \E k \in Edits \ state[e].document :
               state' = [state EXCEPT ![e] = UpdateDocument(@, @.document \cup {k})]
    BY <1>1, <2>1 DEF Documents
  <2>2. CASE \E k \in state[e].document \ state[e].savedDocument :
               state' = [state EXCEPT ![e] = UpdateDocument(@, @.document \ {k})]
    BY <1>1, <2>2 DEF Documents
  <2> QED
    BY <2>1, <2>2 DEF Edit
<1> QED
  BY <1>1, <1>2, DocumentStep DEF Edit

\* The dialog opens in idle tabs only, and confirming it is an edit.
LEMMA DialogStep ==
  ASSUME IInv, NEW e \in Editors,
         RequestDelete(e) \/ ConfirmDelete(e) \/ CancelDelete(e)
  PROVE  IInv'
<1>1. CASE ConfirmDelete(e)
  <2>1. /\ state[e] # None /\ ~state[e].busy /\ state[e] \in EditorState
        /\ state[e].savedDocument \subseteq state[e].document /\ state[e].document \subseteq Edits
    BY <1>1 DEF ConfirmDelete, IInv, TypeOK, TabOK, ShownOK, EditorState, Documents
  <2>2. PICK d \in Documents : /\ state[e].savedDocument \subseteq d
                               /\ state' = [state EXCEPT ![e] = UpdateDocument(@, d)]
    BY <1>1, <2>1 DEF ConfirmDelete, Documents
  <2>3. deleting' \in {deleting, [deleting EXCEPT ![e] = FALSE]}
    BY <1>1 DEF ConfirmDelete
  <2> QED
    BY <1>1, <2>1, <2>2, <2>3, DocumentStep DEF ConfirmDelete
<1>2. CASE RequestDelete(e) \/ CancelDelete(e)
  <2>1. TypeOK' /\ UNCHANGED <<store, mounted, state, loading, loadError, issues, netVars>>
    BY <1>2 DEF RequestDelete, CancelDelete, IInv, TypeOK, StoreTypeOK, netVars, store
  <2>2. state[e] # None /\ (deleting'[e] => ~state[e].busy)
    BY <1>2 DEF RequestDelete, CancelDelete, CanEdit, Editable, IInv, TypeOK, TabOK
  <2>3. TabOK(e)'
    <3>1. ShownOK(e)'
      BY <2>1, <2>2 DEF IInv, TabOK, ShownOK, Saving, Answered, Loading, ReloadOffered, Latest, netVars, store
    <3> QED
      BY <2>1, <2>2, <3>1 DEF IInv, TabOK, Saving, Answered, Loading, Latest, netVars, store
  <2>4. \A f \in Editors \ {e} : deleting'[f] = deleting[f]
    BY <1>2 DEF RequestDelete, CancelDelete, IInv, TypeOK
  <2> QED
    BY <2>1, <2>2, <2>3, <2>4, LocalStep DEF netVars
<1> QED
  BY <1>1, <1>2

\* A save sends what is shown on top of the baseline.
LEMMA SaveDraftStep ==
  ASSUME IInv, NEW e \in Editors, SaveDraft(e)
  PROVE  IInv'
<1>1. /\ state[e] # None /\ state[e] \in EditorState /\ TabOK(e) /\ ShownOK(e)
      /\ ~state[e].busy /\ ~state[e].blocked /\ ~deleting[e]
      /\ state[e].document # state[e].savedDocument
  BY DEF SaveDraft, CanEdit, Editable, Dirty, IInv, TypeOK, TabOK
<1>2. ~Saving(e) /\ ~Answered(e) /\ ~Loading(e) /\ e \in mounted
  BY <1>1 DEF ShownOK, TabOK
<1>3. issues' \in [Editors -> BOOLEAN]
  BY DEF SaveDraft, Valid, IInv, TypeOK
<1>4. CASE ~Valid(state[e].document)
  <2>1. UNCHANGED <<store, mounted, state, loading, loadError, deleting, requests, replies>>
    BY <1>4 DEF SaveDraft
  <2>2. TypeOK' /\ TabOK(e)'
    <3>1. TypeOK'
      BY <1>3, <2>1 DEF IInv, TypeOK, StoreTypeOK, store
    <3>2. ShownOK(e)'
      BY <1>1, <2>1 DEF ShownOK, Saving, Answered, Loading, ReloadOffered, Latest, store
    <3> QED
      BY <1>1, <2>1, <3>1, <3>2 DEF TabOK, Saving, Answered, Loading, Latest, store
  <2> QED
    BY <1>2, <2>1, <2>2, LocalStep
<1>5. CASE Valid(state[e].document)
  <2> DEFINE new == RequestingState(state[e])
             sent == AppendRequest(e)
  <2>1. state' = [state EXCEPT ![e] = new] /\ requests' = requests \cup {sent}
        /\ UNCHANGED <<store, mounted, loading, loadError, deleting, replies>>
    BY <1>5 DEF SaveDraft
  <2>2. new \in EditorState /\ sent \in Request
    BY <1>1, StateTypes, EditsAssumption DEF AppendRequest, Request, EditorState, Documents, Causes
  <2>3. /\ new # None /\ new.busy /\ new.document = state[e].document
        /\ new.revision = state[e].revision /\ new.savedDocument = state[e].savedDocument
        /\ new.blocked = state[e].blocked
        /\ sent.from = e /\ sent.base = state[e].revision /\ sent.document = state[e].document
    BY <1>1, <2>2, NoneAssumption DEF RequestingState, AppendRequest, EditorState
  <2> HIDE DEF new, sent
  <2>4. TypeOK' /\ StoreGrows /\ state'[e] = new
    BY <1>3, <2>1, <2>2 DEF IInv, TypeOK, StoreTypeOK, StoreGrows, Latest, store
  <2>5. ASSUME NEW f \in Editors \ {e}
        PROVE  TabOK(f)'
    <3>1. Saving(f)' <=> Saving(f)
      BY <2>1, <2>3 DEF Saving
    <3> QED
      BY <2>1, <2>4, <3>1, TabFrame DEF IInv, TypeOK
  <2>6. TabOK(e)'
    <3>1. Saving(e)' /\ ~Answered(e)' /\ ~Loading(e)'
      BY <1>2, <2>1, <2>3 DEF Saving, Answered, Loading
    <3>2. ShownOK(e)'
      BY <1>1, <2>1, <2>3, <2>4, <3>1 DEF ShownOK, ReloadOffered, Latest, store
    <3> QED
      BY <1>2, <2>1, <2>3, <2>4, <3>1, <3>2 DEF TabOK
  <2>7. ASSUME NEW r \in requests'
        PROVE  RequestOK(r)'
    <3>1. CASE r = sent
      BY <1>1, <1>5, <2>1, <2>3, <2>4, <3>1 DEF RequestOK, ShownOK, Valid, Latest, store
    <3>2. CASE r # sent
      <4>1. r \in requests /\ RequestOK(r) /\ r \in Request /\ r.from # e
        BY <1>2, <2>1, <3>2 DEF IInv, TypeOK, Saving
      <4>2. r.from # None => state'[r.from] = state[r.from]
        BY <2>1, <4>1 DEF IInv, TypeOK, Request
      <4> QED
        BY <2>4, <4>1, <4>2, RequestFrame DEF RequestOK
    <3> QED
      BY <3>1, <3>2
  <2> QED
    BY <2>4, <2>5, <2>6, <2>7 DEF IInv
<1> QED
  BY <1>4, <1>5

\* An answer on its way to its tab, if the tab is still there.
LEMMA AnswerStep ==
  ASSUME IInv, StoreGrows, StoreTypeOK', NEW r \in requests, NEW reply \in Reply,
         Answer(r, reply),
         reply.cause = "none" => /\ reply.revision \in 1 .. Latest'
                                 /\ revisions'[reply.revision] = r.document
  PROVE  IInv'
<1>1. /\ r \in Request /\ RequestOK(r) /\ requests' = requests \ {r}
      /\ UNCHANGED <<mounted, state, loading, loadError, issues, deleting>>
  BY DEF IInv, TypeOK, Answer, tabVars
<1>2. \A f \in Editors : replies'[f] = IF f = r.from THEN reply ELSE replies[f]
  BY <1>1, NoneAssumption DEF Answer, IInv, TypeOK, Request
<1>3. TypeOK'
  <2>1. replies' \in [Editors -> Reply \cup {None}]
    BY <1>1 DEF Answer, IInv, TypeOK, Request
  <2> QED
    BY <1>1, <2>1 DEF IInv, TypeOK
<1>4. ASSUME NEW f \in Editors
      PROVE  TabOK(f)'
  <2>1. CASE f # r.from
    <3>1. Saving(f)' <=> Saving(f)
      BY <1>1, <2>1 DEF Saving
    <3> QED
      BY <1>1, <1>2, <2>1, <3>1, TabFrame DEF IInv
  <2>2. CASE f = r.from
    <3>1. Saving(f) /\ r.from # None /\ TabOK(f) /\ ShownOK(f) /\ state[f] # None
      BY <1>1, <2>2, NoneAssumption DEF IInv, Saving, TabOK, RequestOK
    <3>2. ~Saving(f)' /\ Answered(f)'
      BY <1>1, <1>2, <2>2, <3>1, OneRequest, NoneAssumption DEF Saving, Answered
    <3>3. ShownOK(f)'
      BY <1>1, <3>1, <3>2 DEF ShownOK, Loading, ReloadOffered, StoreGrows
    <3> QED
      BY <1>1, <1>2, <2>2, <3>1, <3>2, <3>3 DEF TabOK, Loading, ShownOK, RequestOK
  <2> QED
    BY <2>1, <2>2
<1>5. ASSUME NEW q \in requests'
      PROVE  RequestOK(q)'
  BY <1>1, RequestFrame DEF IInv, RequestOK
<1> QED
  BY <1>3, <1>4, <1>5 DEF IInv

\* The API answers the one request of a tab, and revisions only grow.
LEMMA HandleAppendStep ==
  ASSUME IInv, NEW r \in requests, HandleAppend(r)
  PROVE  IInv'
<1>1. r \in Request /\ RequestOK(r)
  BY DEF IInv, TypeOK
<1>2. CASE AcceptAppend(r)
  <2> DEFINE reply == [cause |-> "none", revision |-> Latest + 1, revisionIsDraft |-> IsDraft]
  <2>1. /\ revisions' = Append(revisions, r.document) /\ status' = status
        /\ Answer(r, reply)
    BY <1>2 DEF AcceptAppend, CommitRevision
  <2>2. StoreGrows /\ StoreTypeOK' /\ Latest' = Latest + 1 /\ revisions'[Latest + 1] = r.document
    BY <1>1, <2>1 DEF IInv, TypeOK, StoreTypeOK, StoreGrows, Latest, Request
  <2>3. reply \in Reply
    BY <2>2 DEF Reply, IsDraft, StoreGrows
  <2>4. reply.revision = Latest + 1 /\ reply.revision \in 1 .. Latest'
    BY <2>2 DEF StoreGrows
  <2> QED
    BY <2>1, <2>2, <2>3, <2>4, AnswerStep
<1>3. CASE RejectAppend(r)
  <2>1. PICK cause \in Causes : Answer(r, [cause |-> cause, revision |-> 0, revisionIsDraft |-> IsDraft])
    BY <1>3 DEF RejectAppend
  <2> DEFINE reply == [cause |-> cause, revision |-> 0, revisionIsDraft |-> IsDraft]
  <2>2. reply \in Reply /\ reply.cause # "none"
    BY DEF Reply, IsDraft, Causes
  <2>3. StoreGrows /\ StoreTypeOK'
    BY <1>3 DEF RejectAppend, IInv, TypeOK, StoreTypeOK, StoreGrows, Latest, store
  <2> QED
    BY <2>1, <2>2, <2>3, AnswerStep
<1> QED
  BY <1>2, <1>3 DEF HandleAppend

\* A committed revision becomes document and baseline at once.
LEMMA ReceiveSavedStep ==
  ASSUME IInv, NEW e \in Editors, ReceiveSaved(e)
  PROVE  IInv'
<1> DEFINE new == SavedState(state[e], replies[e])
<1>1. /\ TabOK(e) /\ ShownOK(e) /\ state[e] \in EditorState /\ replies[e] \in Reply
      /\ replies[e].revision \in 1 .. Latest
      /\ ~Saving(e) /\ ~Loading(e) /\ ~state[e].blocked /\ ~deleting[e] /\ e \in mounted
  BY DEF IInv, TypeOK, TabOK, ShownOK, ReceiveSaved, Answered
<1>2. new \in EditorState
  BY <1>1, NewStateTypes DEF IInv, TypeOK
<1>3. /\ new # None /\ new.revision = replies[e].revision /\ new.busy = FALSE
      /\ new.document = revisions[replies[e].revision] /\ new.savedDocument = new.document
      /\ new.blocked = state[e].blocked
  BY <1>1, <1>2, NoneAssumption DEF SavedState, EditorState
<1>4. state' = [state EXCEPT ![e] = new] /\ replies' = [replies EXCEPT ![e] = None]
  BY DEF ReceiveSaved
<1> HIDE DEF new
<1>5. TypeOK'
  BY <1>2, <1>4 DEF IInv, TypeOK, StoreTypeOK, ReceiveSaved, store
<1>6. state'[e] = new /\ ~Answered(e)' /\ ~Saving(e)' /\ ~Loading(e)'
  BY <1>1, <1>4 DEF IInv, TypeOK, ReceiveSaved, Saving, Answered, Loading
<1>7. TabOK(e)'
  <2>1. ShownOK(e)'
    BY <1>1, <1>3, <1>6 DEF ShownOK, Latest, ReceiveSaved, store
  <2> QED
    BY <1>1, <1>3, <1>6, <2>1 DEF TabOK, ReceiveSaved
<1> QED
  BY <1>1, <1>4, <1>5, <1>7, LocalStep DEF IInv, TypeOK, ReceiveSaved

\* A failed save changes neither document nor baseline.
LEMMA SaveFailsStep ==
  ASSUME IInv, NEW e \in Editors, Answered(e), NEW cause \in Causes, SaveFails(e, cause)
  PROVE  IInv'
<1> DEFINE new == FailedState(state[e], cause)
<1>1. /\ TabOK(e) /\ ShownOK(e) /\ state[e] \in EditorState
      /\ ~Saving(e) /\ ~Loading(e) /\ ~deleting[e] /\ e \in mounted
  BY DEF IInv, TypeOK, TabOK, ShownOK
<1>2. new \in EditorState
  BY <1>1, StateTypes, EditsAssumption DEF Documents
<1>3. /\ new # None /\ new.revision = state[e].revision /\ new.busy = FALSE
      /\ new.document = state[e].document /\ new.savedDocument = state[e].savedDocument
      /\ new.error = cause /\ new.blocked = IsBlocked(cause)
  BY <1>1, <1>2, NoneAssumption DEF FailedState, EditorState
<1>4. state' = [state EXCEPT ![e] = new] /\ replies' = [replies EXCEPT ![e] = None]
  BY DEF SaveFails
<1> HIDE DEF new
<1>5. TypeOK'
  BY <1>2, <1>4 DEF IInv, TypeOK, StoreTypeOK, SaveFails, store
<1>6. state'[e] = new /\ ~Answered(e)' /\ ~Saving(e)' /\ ~Loading(e)'
  BY <1>1, <1>4 DEF IInv, TypeOK, SaveFails, Saving, Answered, Loading
<1>7. TabOK(e)'
  <2>1. ShownOK(e)'
    BY <1>1, <1>3, <1>6 DEF ShownOK, ReloadOffered, IsBlocked, Latest, SaveFails, store
  <2> QED
    BY <1>1, <1>3, <1>6, <2>1 DEF TabOK, SaveFails
<1> QED
  BY <1>1, <1>4, <1>5, <1>7, LocalStep DEF IInv, TypeOK, SaveFails

\* Other administrators touch the status only.
LEMMA OthersStep ==
  ASSUME IInv, OtherAdministrators \/ UNCHANGED vars
  PROVE  IInv'
<1>1. UNCHANGED <<revisions, tabVars, netVars>> /\ status' \in Statuses
  BY DEF OtherAdministrators, PublishItem, ArchiveItem, ReviewItem, Statuses, IInv, TypeOK,
         StoreTypeOK, vars, store
<1>2. TypeOK' /\ StoreGrows
  BY <1>1 DEF IInv, TypeOK, StoreTypeOK, StoreGrows, Latest, tabVars, netVars
<1>3. \A e \in Editors : TabOK(e)'
  BY <1>1, <1>2, TabFrame DEF IInv, Saving, tabVars, netVars
<1>4. \A r \in requests' : RequestOK(r)'
  BY <1>1, <1>2, RequestFrame DEF IInv, RequestOK, tabVars, netVars
<1> QED
  BY <1>2, <1>3, <1>4 DEF IInv

\* No tab is open at first.
LEMMA InitOK == Init => IInv
<1> SUFFICES ASSUME Init
             PROVE  IInv
  OBVIOUS
<1>1. TypeOK
  BY EditsAssumption DEF Init, StoreInit, TypeOK, StoreTypeOK, Documents, Statuses
<1> QED
  BY <1>1 DEF Init, IInv, TabOK, Saving, Answered, Loading

\* The invariant is inductive: one lemma per action.
LEMMA StepOK == IInv /\ [Next]_vars => IInv'
<1> SUFFICES ASSUME IInv, [Next]_vars
             PROVE  IInv'
  OBVIOUS
<1>1. ASSUME NEW e \in Editors, UserStep(e)
      PROVE  IInv'
  BY <1>1, OpenStep, CloseStep, RetryLoadStep, ReloadLatestStep, EditStep, DialogStep,
     SaveDraftStep DEF UserStep
<1>2. ASSUME NEW e \in Editors, LoadStep(e)
      PROVE  IInv'
  BY <1>2, ReadItemStep, ReadRevisionStep, LoadFailsStep DEF LoadStep
<1>3. ASSUME NEW e \in Editors, SaveSettles(e)
      PROVE  IInv'
  <2>1. CASE ReceiveSaved(e)
    BY <2>1, ReceiveSavedStep
  <2>2. CASE ReceiveRejection(e)
    <3>1. Answered(e) /\ replies[e].cause \in Causes
      BY <2>2 DEF ReceiveRejection, Answered, IInv, TypeOK, Reply
    <3> QED
      BY <2>2, <3>1, SaveFailsStep DEF ReceiveRejection
  <2>3. CASE LoseReply(e)
    BY <2>3, SaveFailsStep DEF LoseReply, Answered, Causes
  <2> QED
    BY <1>3, <2>1, <2>2, <2>3 DEF SaveSettles
<1>4. ASSUME NEW r \in requests, HandleAppend(r)
      PROVE  IInv'
  BY <1>4, HandleAppendStep
<1>5. CASE OtherAdministrators \/ UNCHANGED vars
  BY <1>5, OthersStep
<1> QED
  BY <1>1, <1>2, <1>3, <1>4, <1>5 DEF Next

-----------------------------------------------------------------------------
(***************************************************************************)
(* The theorems.                                                           *)
(***************************************************************************)

\* The inductive invariant holds of every behaviour of the editor's tabs.
THEOREM Invariance == Spec => []IInv
<1> QED
  BY InitOK, StepOK, PTL DEF Spec

\* Every variable keeps to its type, in every tab and on every message.
THEOREM TypeCorrect == Spec => []TypeOK
<1>1. IInv => TypeOK
  BY DEF IInv
<1> QED
  BY <1>1, Invariance, PTL

\* A save names as its base the very revision its document was derived from.
THEOREM BaselineCorrect == Spec => []BaselineIsBaseRevision
<1>1. IInv => BaselineIsBaseRevision
  BY DEF IInv, TabOK, ShownOK, BaselineIsBaseRevision
<1> QED
  BY <1>1, Invariance, PTL

\* While a save is in flight the tab still shows the document it sent, so the
\* answer replaces nothing the author has not sent.
THEOREM SaveInFlightCorrect == Spec => []SaveInFlightIsShown
<1>1. IInv => SaveInFlightIsShown
  BY DEF IInv, TabOK, RequestOK, Answered, SaveInFlightIsShown
<1> QED
  BY <1>1, Invariance, PTL

\* A tab is busy exactly while one request of its own is outstanding.
THEOREM BusyCorrect == Spec => []BusyIsOneRequest
<1>1. IInv => BusyIsOneRequest
  BY DEF IInv, TabOK, ShownOK, Saving, Answered, Loading, BusyIsOneRequest
<1> QED
  BY <1>1, Invariance, PTL

\* An idle tab blocked by a conflict always offers to reload.
THEOREM WayOutCorrect == Spec => []ConflictHasWayOut
<1>1. IInv => ConflictHasWayOut
  BY DEF IInv, TabOK, ShownOK, ConflictHasWayOut
<1> QED
  BY <1>1, Invariance, PTL

\* Local edits survive every failure and every answer: only editing while idle, a
\* reload that succeeds and leaving the page change what a tab shows.
THEOREM EditsKept == Spec => LocalEditsKept
<1> DEFINE Kept(e) ==
      state[e] # None /\ e \in mounted' =>
        /\ state'[e] # None
        /\ \/ state'[e].document = state[e].document
           \/ ~state[e].busy /\ ~state'[e].busy /\ OneEdit(state[e], state'[e].document)
           \/ ReloadArrives(e)
<1>1. IInv /\ [Next]_vars => [\A e \in Editors : Kept(e)]_vars
  <2> SUFFICES ASSUME IInv, Next, NEW f \in Editors, state[f] # None, f \in mounted'
               PROVE  Kept(f)
    OBVIOUS
  <2>1. TypeOK /\ TabOK(f) /\ ShownOK(f) /\ state[f] \in EditorState /\ None \notin EditorState
    BY NoneAssumption DEF IInv, TypeOK, TabOK
  <2>2. ASSUME UNCHANGED state
        PROVE  Kept(f)
    BY <2>2
  <2>3. ASSUME NEW e \in Editors, NEW new, state' = [state EXCEPT ![e] = new],
               e = f => new \in EditorState /\ new.document = state[e].document
        PROVE  Kept(f)
    BY <2>1, <2>3 DEF TypeOK
  <2>4. ASSUME NEW e \in Editors, NEW document \in Documents, CanEdit(e) \/ deleting[e],
               OneEdit(state[e], document),
               state' = [state EXCEPT ![e] = UpdateDocument(@, document)]
        PROVE  Kept(f)
    <3>1. CASE e # f
      BY <2>1, <2>4, <3>1 DEF TypeOK
    <3>2. CASE e = f
      <4>1. ~state[f].busy
        BY <2>1, <2>4, <3>2 DEF CanEdit, ShownOK
      <4>2. state'[f] = UpdateDocument(state[f], document)
        BY <2>1, <2>4, <3>2 DEF TypeOK
      <4>3. /\ state'[f] \in EditorState
            /\ state'[f].document = document
            /\ state'[f].busy = state[f].busy
        BY <2>1, <4>2 DEF UpdateDocument, EditorState
      <4> QED
        BY <2>1, <2>4, <3>2, <4>1, <4>3
    <3> QED
      BY <3>1, <3>2
  <2>5. ASSUME NEW e \in Editors, UserStep(e)
        PROVE  Kept(f)
    <3>1. CASE Open(e) \/ RetryLoad(e) \/ RequestDelete(e) \/ CancelDelete(e)
      BY <2>2, <3>1 DEF Open, RetryLoad, RequestDelete, CancelDelete
    <3>2. CASE Close(e)
      BY <2>1, <3>2 DEF Close, TypeOK
    <3>3. CASE ReloadLatest(e)
      BY <2>1, <2>3, <3>3 DEF ReloadLatest, RequestingState, EditorState
    <3>4. CASE Edit(e)
      <4>1. CanEdit(e) /\ state[e] \in EditorState
        BY <2>1, <3>4 DEF Edit, CanEdit, Editable, TypeOK
      <4>2. CASE \E k \in Edits \ state[e].document :
                   state' = [state EXCEPT ![e] = UpdateDocument(@, @.document \cup {k})]
        <5>1. PICK k \in Edits \ state[e].document :
                state' = [state EXCEPT ![e] = UpdateDocument(@, @.document \cup {k})]
          BY <4>2
        <5>2. state[e].document \cup {k} \in Documents
          BY <4>1, <5>1 DEF EditorState, Documents
        <5>3. OneEdit(state[e], state[e].document \cup {k})
          BY <5>1 DEF OneEdit
        <5> QED
          BY <2>4, <4>1, <5>1, <5>2, <5>3
      <4>3. CASE \E k \in state[e].document \ state[e].savedDocument :
                   state' = [state EXCEPT ![e] = UpdateDocument(@, @.document \ {k})]
        <5>1. PICK k \in state[e].document \ state[e].savedDocument :
                state' = [state EXCEPT ![e] = UpdateDocument(@, @.document \ {k})]
          BY <4>3
        <5>2. state[e].document \ {k} \in Documents
          BY <4>1 DEF EditorState, Documents
        <5>3. OneEdit(state[e], state[e].document \ {k})
          BY <5>1 DEF OneEdit
        <5> QED
          BY <2>4, <4>1, <5>1, <5>2, <5>3
      <4> QED
        BY <3>4, <4>2, <4>3 DEF Edit
    <3>5. CASE ConfirmDelete(e)
      <4>1. deleting[e] /\ state[e] \in EditorState
        BY <3>5 DEF ConfirmDelete, IInv, TypeOK, TabOK
      <4>2. PICK k \in Edits \ state[e].document :
              state' = [state EXCEPT ![e] = UpdateDocument(@, @.document \cup {k})]
        BY <3>5 DEF ConfirmDelete
      <4>3. state[e].document \cup {k} \in Documents
        BY <4>1, <4>2 DEF EditorState, Documents
      <4>4. OneEdit(state[e], state[e].document \cup {k})
        BY <4>2 DEF OneEdit
      <4> QED
        BY <2>4, <4>1, <4>2, <4>3, <4>4
    <3>6. CASE SaveDraft(e)
      BY <2>1, <2>2, <2>3, <3>6 DEF SaveDraft, RequestingState, EditorState
    <3> QED
      BY <2>5, <3>1, <3>2, <3>3, <3>4, <3>5, <3>6 DEF UserStep
  <2>6. ASSUME NEW e \in Editors, LoadStep(e)
        PROVE  Kept(f)
    <3>1. CASE ReadItem(e)
      BY <2>2, <3>1 DEF ReadItem
    <3>2. CASE ReadRevision(e)
      <4>1. CASE e # f
        BY <2>1, <3>2, <4>1 DEF ReadRevision, TypeOK
      <4>2. CASE e = f
        <5>1. /\ loading[f] # None /\ loading[f].latest # 0
              /\ state'[f] = LoadedState(loading[f])
              /\ loading'[f] = None /\ loadError'[f] = loadError[f]
          BY <2>1, <3>2, <4>2 DEF ReadRevision, TypeOK
        <5>2. ~loadError[f]
          BY <2>1, <5>1 DEF TabOK, Loading
        <5>3. state'[f] # None
          <6>1. loading[f] \in Load /\ loading[f].latest \in 1 .. Latest /\ StoreTypeOK
            BY <2>1, <5>1 DEF TypeOK, StoreTypeOK, TabOK, Loading, Load, Latest
          <6> QED
            BY <2>1, <5>1, <6>1, NewStateTypes
        <5> QED
          BY <5>1, <5>2, <5>3 DEF ReloadArrives
      <4> QED
        BY <4>1, <4>2
    <3>3. CASE LoadFails(e)
      BY <2>1, <2>3, <3>3 DEF LoadFails, AfterFailedLoad, EditorState
    <3> QED
      BY <2>6, <3>1, <3>2, <3>3 DEF LoadStep
  <2>7. ASSUME NEW e \in Editors, SaveSettles(e)
        PROVE  Kept(f)
    <3>1. CASE ReceiveSaved(e)
      <4>1. CASE f = e
        <5>1. /\ replies[e] \in Reply /\ replies[e].revision \in 1 .. Latest
              /\ revisions[replies[e].revision] = state[e].document
          BY <2>1, <3>1, <4>1 DEF ReceiveSaved, TypeOK, TabOK, Answered
        <5>2. /\ SavedState(state[e], replies[e]) \in EditorState
              /\ SavedState(state[e], replies[e]).document = state[e].document
          BY <2>1, <4>1, <5>1, NewStateTypes DEF SavedState, TypeOK, EditorState
        <5> QED
          BY <2>3, <3>1, <5>2 DEF ReceiveSaved
      <4>2. CASE f # e
        BY <2>1, <2>3, <3>1, <4>2 DEF ReceiveSaved
      <4> QED
        BY <4>1, <4>2
    <3>2. CASE ReceiveRejection(e) \/ LoseReply(e)
      <4>1. PICK cause \in Causes : state' = [state EXCEPT ![e] = FailedState(@, cause)]
        BY <2>1, <3>2 DEF ReceiveRejection, LoseReply, SaveFails, TypeOK, Reply, Causes
      <4>2. e = f => /\ FailedState(state[e], cause) \in EditorState
                     /\ FailedState(state[e], cause).document = state[e].document
        BY <2>1, StateTypes DEF FailedState, EditorState
      <4> QED
        BY <2>3, <4>1, <4>2
    <3> QED
      BY <2>7, <3>1, <3>2 DEF SaveSettles
  <2>8. ASSUME NEW r \in requests, HandleAppend(r)
        PROVE  Kept(f)
    BY <2>2, <2>8 DEF HandleAppend, AcceptAppend, RejectAppend, Answer, tabVars
  <2>9. CASE OtherAdministrators
    BY <2>2, <2>9 DEF OtherAdministrators, tabVars
  <2> QED
    BY <2>5, <2>6, <2>7, <2>8, <2>9 DEF Next
<1> QED
  BY <1>1, Invariance, PTL DEF Spec, LocalEditsKept

\* Tabs, failures and lost messages notwithstanding, the revisions of a draft
\* form the history that RevisionHistory specifies: the document of a commit
\* strictly contains that of the revision before it.
THEOREM HistoryRefined == Spec => RefinesHistory
<1>1. Init => History!Init
  BY DEF Init, StoreInit, History!Init
<1>2. IInv /\ [Next]_vars => [History!Next]_revisions
  <2> SUFFICES ASSUME IInv, Next, revisions' # revisions
               PROVE  History!Next
    BY DEF vars, store
  <2>1. ASSUME NEW e \in Editors, UserStep(e) \/ LoadStep(e) \/ SaveSettles(e)
        PROVE  FALSE
    BY <2>1 DEF UserStep, Open, Close, RetryLoad, ReloadLatest, Edit, RequestDelete,
                ConfirmDelete, CancelDelete, SaveDraft, LoadStep, ReadItem, ReadRevision,
                LoadFails, SaveSettles, ReceiveSaved, ReceiveRejection, LoseReply, SaveFails, store
  <2>2. ~OtherAdministrators
    BY DEF OtherAdministrators, PublishItem, ArchiveItem, ReviewItem
  <2>3. PICK r \in requests : HandleAppend(r)
    BY <2>1, <2>2 DEF Next
  <2>4. /\ r.base = Len(revisions) /\ revisions' = Append(revisions, r.document)
    BY <2>3 DEF HandleAppend, AcceptAppend, RejectAppend, CommitRevision, Latest, store
  <2>5. RequestOK(r) /\ r.document \in SUBSET Edits
    BY DEF IInv, TypeOK, Request, Documents
  <2>6. History!Extend(r.document)
    BY <2>4, <2>5 DEF RequestOK, Valid, History!Extend
  <2> QED
    BY <2>5, <2>6 DEF History!Next
<1> QED
  BY <1>1, <1>2, Invariance, PTL DEF Spec, RefinesHistory, History!Spec
=============================================================================
