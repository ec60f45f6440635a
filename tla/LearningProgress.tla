-------------------------- MODULE LearningProgress --------------------------
(***************************************************************************)
(* A reader's learning progress (features/progress/progress-store.ts,      *)
(* components/learning-progress.tsx): one record in the browser's local    *)
(* storage and a cached copy of it in every open tab.  An update replaces  *)
(* the whole record by one computed from the tab's copy; the other tabs    *)
(* hear of it through storage events, which arrive later and in no         *)
(* particular order between tabs.                                          *)
(***************************************************************************)
EXTENDS Integers

CONSTANTS
  Tabs,
  Articles,
  Paths,
  None,        \* null, or a key that local storage does not hold
  MaxEvents    \* readers do nothing while a tab has so many events to come

ASSUME MaxEventsAssumption == MaxEvents \in Nat \ {0}

VARIABLES
  stored,     \* the record of stack-atlas-progress-v2
  legacy,     \* the record of stack-atlas-progress-v1
  writable,   \* whether setItem succeeds: the quota, the reader's settings
  phase,      \* per tab: closed, rendered, or listening to storage events
  cached,     \* per tab: cachedProgress, None while there is no tab
  events,     \* per tab: the number of storage events under way to it
  astray      \* history: the tabs that missed an event or could not write

storageVars == <<stored, legacy, writable>>
tabVars == <<phase, cached, events, astray>>
vars == <<storageVars, tabVars>>

LearningProgress ==
  [completed: SUBSET Articles,
   activePath: Paths \cup {None},
   lastVisited: [Paths -> Articles \cup {None}]]

EMPTY_PROGRESS ==
  [completed |-> {}, activePath |-> None, lastVisited |-> [p \in Paths |-> None]]

ASSUME NoneAssumption == None \notin LearningProgress

\* The old format has nothing but completed articles.
Legacy(articles) == [EMPTY_PROGRESS EXCEPT !.completed = articles]

Opened(t) == phase[t] # "closed"

TypeOK ==
  /\ stored \in LearningProgress \cup {None}
  /\ legacy \in LearningProgress \cup {None}
  /\ writable \in BOOLEAN
  /\ phase \in [Tabs -> {"closed", "rendered", "listening"}]
  /\ cached \in [Tabs -> LearningProgress \cup {None}]
  /\ \A t \in Tabs : cached[t] # None <=> Opened(t)
  /\ events \in [Tabs -> Nat]
  /\ astray \subseteq Tabs

Init ==
  /\ stored = None
  /\ \/ legacy = None
     \/ \E articles \in SUBSET Articles : legacy = Legacy(articles)
  /\ writable \in BOOLEAN
  /\ phase = [t \in Tabs |-> "closed"]
  /\ cached = [t \in Tabs |-> None]
  /\ events = [t \in Tabs |-> 0]
  /\ astray = {}

-----------------------------------------------------------------------------

\* Bounds the events under way; handling one is never held up.
FewEvents == \A t \in Tabs : events[t] < MaxEvents

\* A storage event goes to every tab but the one that changed the record.
Told(t, pending) ==
  [u \in Tabs |-> IF u # t /\ Opened(u) THEN pending[u] + 1 ELSE pending[u]]

\* setItem by tab t.  Setting what is stored already raises no event.
SetItem(t, record, pending) ==
  IF writable /\ record # stored
  THEN stored' = record /\ events' = Told(t, pending)
  ELSE stored' = stored /\ events' = pending

Migrated == IF legacy = None THEN EMPTY_PROGRESS ELSE legacy

Readable == stored # None \/ writable

\* readProgress() by tab t.  When the migrated record cannot be written, the
\* exception also keeps it from being returned.
ReadProgress(t, pending) ==
  /\ SetItem(t, IF stored = None THEN Migrated ELSE stored, pending)
  /\ cached' = [cached EXCEPT ![t] =
                  IF stored # None THEN stored
                  ELSE IF writable THEN Migrated ELSE EMPTY_PROGRESS]
  /\ astray' = IF Readable THEN astray \ {t} ELSE astray \cup {t}

\* The first render takes the snapshot; the tab subscribes after the effects
\* of its page, which may already update the record.
OpenTab(t) ==
  /\ ~Opened(t)
  /\ FewEvents
  /\ phase' = [phase EXCEPT ![t] = "rendered"]
  /\ ReadProgress(t, events)
  /\ UNCHANGED <<legacy, writable>>

Subscribe(t) ==
  /\ phase[t] = "rendered"
  /\ phase' = [phase EXCEPT ![t] = "listening"]
  /\ UNCHANGED <<storageVars, cached, events, astray>>

CloseTab(t) ==
  /\ Opened(t)
  /\ phase' = [phase EXCEPT ![t] = "closed"]
  /\ cached' = [cached EXCEPT ![t] = None]
  /\ events' = [events EXCEPT ![t] = 0]
  /\ astray' = astray \ {t}
  /\ UNCHANGED storageVars

\* Mutation: the handler keeps the copy it has.
HandleEventCached(t) ==
  /\ phase[t] = "listening"
  /\ events[t] > 0
  /\ events' = [events EXCEPT ![t] = @ - 1]
  /\ UNCHANGED <<storageVars, phase, cached, astray>>

\* The handler forgets the copy and reads what is stored by now.
HandleEvent(t) ==
  /\ phase[t] = "listening"
  /\ events[t] > 0
  /\ ReadProgress(t, [events EXCEPT ![t] = @ - 1])
  /\ UNCHANGED <<legacy, writable, phase>>

\* An event that arrives before the tab subscribed is gone.
MissEvent(t) ==
  /\ phase[t] = "rendered"
  /\ events[t] > 0
  /\ events' = [events EXCEPT ![t] = @ - 1]
  /\ astray' = astray \cup {t}
  /\ UNCHANGED <<storageVars, phase, cached>>

\* Mutation: the tab's own copy is left as it was.
UpdateProgressUncached(t, next) ==
  /\ Opened(t)
  /\ FewEvents
  /\ SetItem(t, next, events)
  /\ UNCHANGED <<legacy, writable, phase, cached, astray>>

UpdateProgress(t, next) ==
  /\ Opened(t)
  /\ FewEvents
  /\ cached' = [cached EXCEPT ![t] = next]
  /\ SetItem(t, next, events)
  /\ astray' = IF writable THEN astray \ {t} ELSE astray \cup {t}
  /\ UNCHANGED <<legacy, writable, phase>>

ToggleComplete(current, a) ==
  [current EXCEPT !.completed = IF a \in @ THEN @ \ {a} ELSE @ \cup {a}]

SetActivePath(current, p) == [current EXCEPT !.activePath = p]

RecordVisit(current, p, a) ==
  [current EXCEPT !.activePath = p, !.lastVisited[p] = a]

\* A click finds the tab subscribed, because React runs the effects that are due
\* before it handles one; paths and visits are recorded by effects.
Update(t) ==
  /\ Opened(t)
  /\ \/ /\ phase[t] = "listening"
        /\ \E a \in Articles : UpdateProgress(t, ToggleComplete(cached[t], a))
     \/ \E p \in Paths : UpdateProgress(t, SetActivePath(cached[t], p))
     \/ \E p \in Paths, a \in Articles : UpdateProgress(t, RecordVisit(cached[t], p, a))

\* The reader removes the site's data; the event names no key.
ClearStorage ==
  /\ stored # None \/ legacy # None
  /\ FewEvents
  /\ stored' = None
  /\ legacy' = None
  /\ events' = [t \in Tabs |-> IF Opened(t) THEN events[t] + 1 ELSE events[t]]
  /\ UNCHANGED <<writable, phase, cached, astray>>

\* The quota is used up or freed by something else.
QuotaChanges ==
  /\ writable' = ~writable
  /\ UNCHANGED <<stored, legacy, tabVars>>

BrowserStep(t) == Subscribe(t) \/ HandleEvent(t) \/ MissEvent(t)

OutsideStep ==
  \/ \E t \in Tabs : OpenTab(t) \/ CloseTab(t) \/ Update(t)
  \/ ClearStorage
  \/ QuotaChanges

Next == OutsideStep \/ \E t \in Tabs : BrowserStep(t)

Spec == Init /\ [][Next]_vars

\* The browser delivers events and runs effects; the reader owes nothing.
Fairness == \A t \in Tabs : WF_vars(BrowserStep(t))

FairSpec == Spec /\ Fairness

-----------------------------------------------------------------------------
(***************************************************************************)
(* Properties.                                                             *)
(***************************************************************************)

\* A tab that was told of every change and has no event to come shows exactly
\* what is stored, however the updates and events of the tabs interleaved.
InStep ==
  \A t \in Tabs :
    Opened(t) /\ t \notin astray /\ events[t] = 0 => cached[t] = stored

Completed(record) == IF record = None THEN {} ELSE record.completed

\* The reader's record, which may be in the old format still.
OnDevice == IF stored # None THEN stored ELSE legacy

\* A completion is lost from the device in three ways only: the tab that drops
\* it had it and toggled it off, or was behind - also because the quota was used
\* up when it migrated the old record - or the site's data was removed.
LossHasReason ==
  [][\A a \in Completed(OnDevice) \ Completed(OnDevice') :
       \/ OnDevice' = None
       \/ \E t \in Tabs :
            /\ Opened(t)
            /\ cached'[t] = stored'
            /\ \/ a \in cached[t].completed
               \/ events[t] > 0
               \/ t \in astray]_vars

\* "Progress saved on this device": what is saved goes only when a reader who
\* sees the article as completed takes it back, or removes the site's data.  A tab
\* that is still loading, or is astray, is excused.
CompletionKept ==
  [][\A a \in Completed(stored) \ Completed(stored') :
       \/ stored' = None
       \/ \E t \in Tabs :
            /\ Opened(t)
            /\ cached'[t] = stored'
            /\ \/ a \in cached[t].completed
               \/ phase[t] = "rendered"
               \/ t \in astray]_vars

\* Once readers pause, every tab that could follow shows what is stored.
TabsConverge ==
  <>[][~OutsideStep]_vars =>
    <>[](\A t \in Tabs : Opened(t) => t \in astray \/ cached[t] = stored)
=============================================================================
