----------------------- MODULE LearningProgressProofs -----------------------
(***************************************************************************)
(* Proofs about LearningProgress for any number of tabs, articles and      *)
(* paths.  TypeOK and InStep are inductive together: whoever changes the   *)
(* stored record leaves every other open tab an event to come, and what a  *)
(* tab reads or writes itself is what is stored afterwards.                *)
(***************************************************************************)
EXTENDS LearningProgress, TLAPS

\* The records the code makes are records of the right form.
LEMMA Records ==
  /\ EMPTY_PROGRESS \in LearningProgress
  /\ \A articles \in SUBSET Articles : Legacy(articles) \in LearningProgress
  /\ \A c \in LearningProgress, a \in Articles, p \in Paths :
       /\ ToggleComplete(c, a) \in LearningProgress
       /\ SetActivePath(c, p) \in LearningProgress
       /\ RecordVisit(c, p, a) \in LearningProgress
BY DEF EMPTY_PROGRESS, LearningProgress, Legacy, ToggleComplete, SetActivePath, RecordVisit

\* What is read is a record, also when it cannot be migrated.
LEMMA MigratedType == TypeOK => Migrated \in LearningProgress
BY Records DEF TypeOK, Migrated

\* Setting the record: it is stored or nothing changes, and every other open
\* tab that shows an older record has an event to come.
LEMMA SetItemStep ==
  ASSUME TypeOK, NEW t \in Tabs, NEW record \in LearningProgress,
         NEW pending \in [Tabs -> Nat], SetItem(t, record, pending)
  PROVE  /\ stored' \in LearningProgress \cup {None}
         /\ events' \in [Tabs -> Nat]
         /\ writable => stored' = record
         /\ stored = record => stored' = record
         /\ \A u \in Tabs \ {t} : Opened(u) =>
              \/ events'[u] > 0
              \/ stored' = stored /\ events'[u] = pending[u]
<1>1. CASE writable /\ record # stored
  <2>1. stored' = record /\ events' = Told(t, pending) BY <1>1 DEF SetItem
  <2>2. Told(t, pending) \in [Tabs -> Nat] BY DEF Told
  <2>3. \A u \in Tabs \ {t} : Opened(u) => Told(t, pending)[u] = pending[u] + 1 BY DEF Told
  <2> QED BY <1>1, <2>1, <2>2, <2>3
<1>2. CASE ~(writable /\ record # stored)
  <2>1. stored' = stored /\ events' = pending BY <1>2 DEF SetItem
  <2> QED BY <1>2, <2>1 DEF TypeOK
<1> QED BY <1>1, <1>2

\* Reading: the tab has what is stored afterwards, or it is astray.
LEMMA ReadStep ==
  ASSUME TypeOK, NEW t \in Tabs, NEW pending \in [Tabs -> Nat], ReadProgress(t, pending)
  PROVE  /\ stored' \in LearningProgress \cup {None}
         /\ events' \in [Tabs -> Nat]
         /\ cached' \in [Tabs -> LearningProgress \cup {None}]
         /\ cached'[t] # None
         /\ \A u \in Tabs \ {t} : cached'[u] = cached[u]
         /\ astray' \subseteq Tabs
         /\ \A u \in Tabs \ {t} : u \in astray <=> u \in astray'
         /\ t \in astray' \/ cached'[t] = stored'
         /\ \A u \in Tabs \ {t} : Opened(u) =>
              \/ events'[u] > 0
              \/ stored' = stored /\ events'[u] = pending[u]
<1> DEFINE record == IF stored = None THEN Migrated ELSE stored
           answer == IF stored # None THEN stored
                     ELSE IF writable THEN Migrated ELSE EMPTY_PROGRESS
<1>1. record \in LearningProgress BY MigratedType DEF TypeOK
<1>2. answer \in LearningProgress BY MigratedType, Records DEF TypeOK
<1>3. SetItem(t, record, pending) BY DEF ReadProgress
<1>4. /\ stored' \in LearningProgress \cup {None}
      /\ events' \in [Tabs -> Nat]
      /\ writable => stored' = record
      /\ stored = record => stored' = record
      /\ \A u \in Tabs \ {t} : Opened(u) =>
           \/ events'[u] > 0
           \/ stored' = stored /\ events'[u] = pending[u]
  <2> HIDE DEF record
  <2> QED BY <1>1, <1>3, SetItemStep
<1>5. cached' = [cached EXCEPT ![t] = answer] BY DEF ReadProgress
<1>6. /\ cached' \in [Tabs -> LearningProgress \cup {None}]
      /\ cached'[t] = answer
      /\ \A u \in Tabs \ {t} : cached'[u] = cached[u]
  <2> HIDE DEF answer
  <2> QED BY <1>2, <1>5 DEF TypeOK
<1>7. cached'[t] # None BY <1>2, <1>6, NoneAssumption
<1>8. astray' = IF Readable THEN astray \ {t} ELSE astray \cup {t} BY DEF ReadProgress
<1>9. Readable => answer = stored' BY <1>4 DEF Readable
<1>10. t \in astray' \/ cached'[t] = stored' BY <1>6, <1>8, <1>9
<1>11. /\ astray' \subseteq Tabs
       /\ \A u \in Tabs \ {t} : u \in astray <=> u \in astray'
  BY <1>8 DEF TypeOK
<1> QED BY <1>4, <1>6, <1>7, <1>10, <1>11

IInv == TypeOK /\ InStep

\* No tab is open at first.
LEMMA InitOK == Init => IInv
<1> SUFFICES ASSUME Init PROVE IInv OBVIOUS
<1>1. \A articles \in SUBSET Articles : Legacy(articles) \in LearningProgress BY Records
<1>2. legacy \in LearningProgress \cup {None} BY <1>1 DEF Init
<1>3. TypeOK BY <1>2 DEF Init, TypeOK, Opened
<1>4. InStep BY DEF Init, InStep, Opened
<1> QED BY <1>3, <1>4 DEF IInv

\* Opening a tab reads the record.
LEMMA OpenTabStep ==
  ASSUME IInv, NEW t \in Tabs, OpenTab(t)
  PROVE  IInv'
<1> USE DEF IInv
<1>1. events \in [Tabs -> Nat] /\ ReadProgress(t, events) BY DEF OpenTab, TypeOK
<1>2. /\ stored' \in LearningProgress \cup {None}
      /\ events' \in [Tabs -> Nat]
      /\ cached' \in [Tabs -> LearningProgress \cup {None}]
      /\ cached'[t] # None
      /\ \A u \in Tabs \ {t} : cached'[u] = cached[u]
      /\ astray' \subseteq Tabs
      /\ \A u \in Tabs \ {t} : u \in astray <=> u \in astray'
      /\ t \in astray' \/ cached'[t] = stored'
      /\ \A u \in Tabs \ {t} : Opened(u) =>
           \/ events'[u] > 0
           \/ stored' = stored /\ events'[u] = events[u]
  BY <1>1, ReadStep
<1>3. /\ phase' = [phase EXCEPT ![t] = "rendered"]
      /\ UNCHANGED <<legacy, writable>>
  BY DEF OpenTab
<1>4. /\ phase'[t] = "rendered"
      /\ phase' \in [Tabs -> {"closed", "rendered", "listening"}]
      /\ \A u \in Tabs \ {t} : phase'[u] = phase[u]
  BY <1>3 DEF TypeOK
<1>5. TypeOK' BY <1>2, <1>3, <1>4 DEF TypeOK, Opened
<1>6. InStep' BY <1>2, <1>4, <1>5 DEF InStep, Opened, TypeOK
<1> QED BY <1>5, <1>6

\* Handling an event reads the record.
LEMMA HandleEventStep ==
  ASSUME IInv, NEW t \in Tabs, HandleEvent(t)
  PROVE  IInv'
<1> USE DEF IInv
<1> DEFINE pending == [events EXCEPT ![t] = @ - 1]
<1>1. pending \in [Tabs -> Nat] /\ \A u \in Tabs \ {t} : pending[u] = events[u]
  BY DEF HandleEvent, TypeOK
<1>2. ReadProgress(t, pending) BY DEF HandleEvent
<1>3. /\ stored' \in LearningProgress \cup {None}
      /\ events' \in [Tabs -> Nat]
      /\ cached' \in [Tabs -> LearningProgress \cup {None}]
      /\ cached'[t] # None
      /\ \A u \in Tabs \ {t} : cached'[u] = cached[u]
      /\ astray' \subseteq Tabs
      /\ \A u \in Tabs \ {t} : u \in astray <=> u \in astray'
      /\ t \in astray' \/ cached'[t] = stored'
      /\ \A u \in Tabs \ {t} : Opened(u) =>
           \/ events'[u] > 0
           \/ stored' = stored /\ events'[u] = pending[u]
  <2> HIDE DEF pending
  <2> QED BY <1>1, <1>2, ReadStep
<1>4. phase[t] = "listening" /\ UNCHANGED <<legacy, writable, phase>> BY DEF HandleEvent
<1>5. TypeOK' BY <1>3, <1>4 DEF TypeOK, Opened
<1> HIDE DEF pending
<1>6. InStep' BY <1>1, <1>3, <1>4, <1>5 DEF InStep, Opened, TypeOK
<1> QED BY <1>5, <1>6

\* An update writes the tab's own copy, or leaves the tab astray.
LEMMA UpdateStep ==
  ASSUME IInv, NEW t \in Tabs, NEW next \in LearningProgress, UpdateProgress(t, next)
  PROVE  IInv'
<1> USE DEF IInv
<1>1. /\ stored' \in LearningProgress \cup {None}
      /\ events' \in [Tabs -> Nat]
      /\ writable => stored' = next
      /\ \A u \in Tabs \ {t} : Opened(u) =>
           \/ events'[u] > 0
           \/ stored' = stored /\ events'[u] = events[u]
  <2>1. events \in [Tabs -> Nat] /\ SetItem(t, next, events) BY DEF UpdateProgress, TypeOK
  <2> QED BY <2>1, SetItemStep
<1>2. /\ cached' = [cached EXCEPT ![t] = next]
      /\ astray' = IF writable THEN astray \ {t} ELSE astray \cup {t}
      /\ UNCHANGED <<legacy, writable, phase>>
      /\ Opened(t)
  BY DEF UpdateProgress
<1>3. TypeOK' BY <1>1, <1>2, NoneAssumption DEF TypeOK, Opened
<1>4. InStep' BY <1>1, <1>2, <1>3 DEF InStep, Opened, TypeOK
<1> QED BY <1>3, <1>4

\* Every other step leaves no open tab behind without an event to come.
LEMMA QuietSteps ==
  ASSUME IInv,
         \/ \E t \in Tabs : Subscribe(t) \/ CloseTab(t) \/ MissEvent(t)
         \/ ClearStorage
         \/ QuotaChanges
         \/ UNCHANGED vars
  PROVE  IInv'
<1> USE DEF IInv, TypeOK, InStep, Opened
<1>1. ASSUME NEW t \in Tabs, Subscribe(t) PROVE IInv' BY <1>1 DEF Subscribe, storageVars
<1>2. ASSUME NEW t \in Tabs, CloseTab(t) PROVE IInv' BY <1>2 DEF CloseTab, storageVars
<1>3. ASSUME NEW t \in Tabs, MissEvent(t) PROVE IInv' BY <1>3 DEF MissEvent, storageVars
<1>4. CASE ClearStorage BY <1>4 DEF ClearStorage
<1>5. CASE QuotaChanges BY <1>5 DEF QuotaChanges, tabVars
<1>6. CASE UNCHANGED vars BY <1>6 DEF vars, storageVars, tabVars
<1> QED BY <1>1, <1>2, <1>3, <1>4, <1>5, <1>6

\* Updates compute records from records.
LEMMA AnyUpdate ==
  ASSUME IInv, NEW t \in Tabs, Update(t)
  PROVE  IInv'
<1>1. cached[t] \in LearningProgress BY DEF Update, IInv, TypeOK
<1>2. PICK next \in LearningProgress : UpdateProgress(t, next)
  <2>1. CASE \E a \in Articles : UpdateProgress(t, ToggleComplete(cached[t], a))
    <3>1. PICK a \in Articles : UpdateProgress(t, ToggleComplete(cached[t], a)) BY <2>1
    <3>2. ToggleComplete(cached[t], a) \in LearningProgress
      BY <1>1 DEF ToggleComplete, LearningProgress
    <3> QED BY <3>1, <3>2
  <2>2. CASE \E p \in Paths : UpdateProgress(t, SetActivePath(cached[t], p))
    <3>1. PICK p \in Paths : UpdateProgress(t, SetActivePath(cached[t], p)) BY <2>2
    <3>2. SetActivePath(cached[t], p) \in LearningProgress
      BY <1>1 DEF SetActivePath, LearningProgress
    <3> QED BY <3>1, <3>2
  <2>3. CASE \E p \in Paths, a \in Articles : UpdateProgress(t, RecordVisit(cached[t], p, a))
    BY <1>1, <2>3, Records
  <2> QED BY <2>1, <2>2, <2>3 DEF Update
<1> QED BY <1>2, UpdateStep

\* IInv is preserved by every step.
LEMMA StepOK == IInv /\ [Next]_vars => IInv'
<1> SUFFICES ASSUME IInv, [Next]_vars PROVE IInv' OBVIOUS
<1>1. ASSUME NEW t \in Tabs, OpenTab(t) PROVE IInv' BY <1>1, OpenTabStep
<1>2. ASSUME NEW t \in Tabs, HandleEvent(t) PROVE IInv' BY <1>2, HandleEventStep
<1>3. ASSUME NEW t \in Tabs, Update(t) PROVE IInv' BY <1>3, AnyUpdate
<1> QED BY <1>1, <1>2, <1>3, QuietSteps DEF Next, OutsideStep, BrowserStep

\* The inductive invariant holds in every reachable state.
THEOREM Invariance == Spec => []IInv
BY InitOK, StepOK, PTL DEF Spec

\* Type correctness: in particular a tab has a copy exactly while it is open.
THEOREM TypeCorrect == Spec => []TypeOK
BY Invariance, PTL DEF IInv

\* Tabs that were told of everything agree with the device.
THEOREM InStepCorrect == Spec => []InStep
BY Invariance, PTL DEF IInv

\* A step that removes a completion has one of the three reasons.
LEMMA LossStep ==
  ASSUME IInv, [Next]_vars, NEW a \in Completed(OnDevice) \ Completed(OnDevice')
  PROVE  \/ OnDevice' = None
         \/ \E t \in Tabs :
              /\ Opened(t)
              /\ cached'[t] = stored'
              /\ \/ a \in cached[t].completed
                 \/ events[t] > 0
                 \/ t \in astray
<1>1. OnDevice # None /\ OnDevice' # OnDevice BY DEF Completed
<1>2. ASSUME NEW t \in Tabs, NEW pending, ReadProgress(t, pending), legacy' = legacy
      PROVE  FALSE
  <2>1. OnDevice' = OnDevice
    BY <1>1, <1>2 DEF ReadProgress, SetItem, Migrated, OnDevice
  <2> QED BY <1>1, <2>1
<1>3. CASE ClearStorage BY <1>3 DEF ClearStorage, OnDevice
<1>4. ASSUME NEW t \in Tabs, NEW next, UpdateProgress(t, next)
      PROVE  \E u \in Tabs :
               /\ Opened(u)
               /\ cached'[u] = stored'
               /\ \/ a \in cached[u].completed
                  \/ events[u] > 0
                  \/ u \in astray
  <2>1. stored' = next BY <1>1, <1>4 DEF UpdateProgress, SetItem, OnDevice
  <2>2. Opened(t) /\ cached'[t] = next BY <1>4 DEF UpdateProgress, IInv, TypeOK
  <2>3. ASSUME t \notin astray, ~(events[t] > 0) PROVE a \in cached[t].completed
    <3>1. cached[t] = stored /\ stored # None BY <2>2, <2>3 DEF IInv, InStep, TypeOK
    <3> QED BY <3>1 DEF Completed, OnDevice
  <2> QED BY <2>1, <2>2, <2>3
<1>5. \A t \in Tabs : Update(t) => \E next : UpdateProgress(t, next) BY DEF Update
<1>6. CASE \E t \in Tabs : Update(t) BY <1>4, <1>5, <1>6
<1>7. CASE \E t \in Tabs : OpenTab(t) \/ HandleEvent(t)
  BY <1>2, <1>7 DEF OpenTab, HandleEvent
<1>8. CASE \/ \E t \in Tabs : CloseTab(t) \/ Subscribe(t) \/ MissEvent(t)
           \/ QuotaChanges
           \/ UNCHANGED vars
  BY <1>1, <1>8 DEF CloseTab, Subscribe, MissEvent, QuotaChanges, vars, storageVars, OnDevice
<1> QED BY <1>3, <1>6, <1>7, <1>8 DEF Next, OutsideStep, BrowserStep

\* No completion is lost by a tab that is up to date, unless it is toggled.
THEOREM LossCorrect == Spec => LossHasReason
<1>1. IInv /\ [Next]_vars =>
        [\A a \in Completed(OnDevice) \ Completed(OnDevice') :
           \/ OnDevice' = None
           \/ \E t \in Tabs :
                /\ Opened(t)
                /\ cached'[t] = stored'
                /\ \/ a \in cached[t].completed
                   \/ events[t] > 0
                   \/ t \in astray]_vars
  BY LossStep
<1> QED BY <1>1, Invariance, PTL DEF Spec, LossHasReason
=============================================================================
