---------------------------- MODULE SearchDialog ----------------------------
(***************************************************************************)
(* The search dialog (features/search/components/search-dialog.tsx): every *)
(* change of the query or the filter ends the search before it and starts  *)
(* a new one, after a delay.  An ended search is aborted, but its promise  *)
(* still settles, at any time after the abort.                             *)
(***************************************************************************)
CONSTANTS
  Terms,   \* what may be searched for
  Blank,   \* a query of nothing but spaces
  Kinds,   \* the filters
  All,     \* the filter chosen at first
  None     \* no search yet

ASSUME SearchAssumption ==
  /\ Blank \notin Terms
  /\ All \in Kinds
  /\ None \notin Terms \X Kinds

VARIABLES
  open,      \* whether the dialog is open
  query,     \* the trimmed text of the input
  filter,
  searches,  \* the runs of the search effect that have not ended
  results,   \* the search whose results are kept, None before the first
  loading,
  failed

vars == <<open, query, filter, searches, results, loading, failed>>

\* A run waits for its timer, then for the answer.  Only a run that fetches
\* outlives its cleanup, aborted.
Search == [for: Terms \X Kinds, phase: {"delayed", "fetching"}, aborted: BOOLEAN]

Current == <<query, filter>>
Live == {s \in searches : ~s.aborted}

TypeOK ==
  /\ open \in BOOLEAN
  /\ query \in Terms \cup {Blank}
  /\ filter \in Kinds
  /\ searches \subseteq Search
  /\ results \in (Terms \X Kinds) \cup {None}
  /\ loading \in BOOLEAN
  /\ failed \in BOOLEAN

Init ==
  /\ open = FALSE
  /\ query = Blank
  /\ filter = All
  /\ searches = {}
  /\ results = None
  /\ loading = FALSE
  /\ failed = FALSE

-----------------------------------------------------------------------------

\* The button, the event "stack-atlas:open-search" and the key "/".
OpenSearch ==
  /\ open' = TRUE
  /\ UNCHANGED <<query, filter, searches, results, loading, failed>>

\* The cross, Escape, or following a result.  The search goes on.
CloseSearch ==
  /\ open
  /\ open' = FALSE
  /\ UNCHANGED <<query, filter, searches, results, loading, failed>>

\* Mutation: the timer is cleared, the fetch is not aborted.
CleanedUpUnaborted == {s \in searches : s.phase = "fetching"}

\* The cleanup of the effect: the timer is cleared, the fetch aborted.
CleanedUp ==
  {[s EXCEPT !.aborted = TRUE] : s \in {t \in searches : t.phase = "fetching"}}

\* The run of the effect for a new query or filter, if it does not return early.
Started(term, kind) ==
  {[for |-> <<t, kind>>, phase |-> "delayed", aborted |-> FALSE] : t \in {term} \ {Blank}}

\* The effect runs again.
Restart(term, kind) == searches' = CleanedUp \cup Started(term, kind)

\* Typing; a space more or less changes the input but not the term.
Type(term) ==
  /\ open
  /\ query' = term
  /\ Restart(term, filter)
  /\ UNCHANGED <<open, filter, results, loading, failed>>

SetFilter(kind) ==
  /\ open
  /\ kind # filter
  /\ filter' = kind
  /\ Restart(query, kind)
  /\ UNCHANGED <<open, query, results, loading, failed>>

TimerFires(s) ==
  /\ s.phase = "delayed"
  /\ searches' = (searches \ {s}) \cup {[s EXCEPT !.phase = "fetching"]}
  /\ loading' = TRUE
  /\ failed' = FALSE
  /\ UNCHANGED <<open, query, filter, results>>

\* Mutation: only a successful search ends the loading.
EndLoadingUnlessFailed(s) == loading' = IF s.aborted \/ failed' THEN loading ELSE FALSE

\* The finally block.
EndLoading(s) == loading' = IF s.aborted THEN loading ELSE FALSE

\* An aborted fetch has no answer.
Answered(s) ==
  /\ s.phase = "fetching"
  /\ ~s.aborted
  /\ searches' = searches \ {s}
  /\ results' = s.for
  /\ UNCHANGED <<open, query, filter, failed>>
  /\ EndLoading(s)

\* An error status, an answer that does not parse, no answer, or the abort.
Fails(s) ==
  /\ s.phase = "fetching"
  /\ searches' = searches \ {s}
  /\ failed' = (failed \/ ~s.aborted)
  /\ UNCHANGED <<open, query, filter, results>>
  /\ EndLoading(s)

UserStep ==
  \/ OpenSearch \/ CloseSearch
  \/ \E term \in Terms \cup {Blank} : Type(term)
  \/ \E kind \in Kinds : SetFilter(kind)

SearchStep == \E s \in searches : TimerFires(s) \/ Answered(s) \/ Fails(s)

Next == UserStep \/ SearchStep

Spec == Init /\ [][Next]_vars

\* Timers fire and the browser settles every fetch; the reader owes nothing.
FairSpec == Spec /\ WF_vars(SearchStep)

-----------------------------------------------------------------------------
(***************************************************************************)
(* Properties.                                                             *)
(***************************************************************************)

\* What the dialog shows below a query.
ShowsResults == query # Blank /\ ~loading /\ ~failed

\* However fast the reader types and however late aborted searches settle: a
\* dialog that is not about to search shows the results of its own query.
SettledOnQuery == ShowsResults /\ Live = {} => results = Current

\* One search at a time is not aborted, it is for the query and filter shown,
\* and once its timer fired the dialog says that it is searching.
OneLiveSearch ==
  /\ \A s, t \in Live : s = t
  /\ \A s \in Live : s.for = Current /\ (s.phase = "fetching" => loading)

\* Results never arrive for a query that was given up.
NoLateResults == [][results' # results => results' = Current]_vars

\* A reader who stops typing is not left with "Searching the library...".
SearchEnds ==
  <>[][~UserStep]_vars =>
    <>[](query = Blank \/ (~loading /\ (failed \/ results = Current)))
=============================================================================
