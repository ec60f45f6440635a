----------------------------- MODULE ContentList -----------------------------
(***************************************************************************)
(* The list of content items (components/admin-content-list.tsx): a filter *)
(* by status, a first page per filter, and "Load more".  Answers carry no  *)
(* number; the key they are matched with names the filter and the number   *)
(* of retries, so an old answer may meet a newer list of the same filter.  *)
(*                                                                         *)
(* The API lists the newest items first; a cursor stands for everything    *)
(* older than the last item of its page.                                   *)
(***************************************************************************)
EXTENDS Integers, Sequences, FiniteSetsExt

CONSTANTS
  Statuses,    \* those of CONTENT_STATUSES that matter
  AllStatuses, \* the filter '' of the code
  PageSize,    \* 25 in the code
  MaxItems,    \* bounds how many items are created
  MaxRetries   \* bounds refreshKey

ASSUME ListAssumption ==
  /\ AllStatuses \notin Statuses
  /\ PageSize \in Nat \ {0}
  /\ MaxItems \in Nat
  /\ MaxRetries \in Nat

VARIABLES
  itemStatus,  \* the API's items, oldest first: the status of each
  status,      \* the filter
  refreshKey,
  result,      \* the pages so far
  first,       \* the first page that is loading
  more         \* the next page that is loading

listVars == <<itemStatus, status, refreshKey, result, first, more>>

Filters == Statuses \cup {AllStatuses}
Key == [status: Filters, refreshKey: 0 .. MaxRetries]
RequestKey == [status |-> status, refreshKey |-> refreshKey]

\* A row shows the status that the item had when its page was read.  Pages are
\* sets of rows: nothing here depends on the order in which they are listed.
ItemIds == 1 .. MaxItems
Row == [id: ItemIds, status: Statuses]
Page == [rows: SUBSET Row, next: 0 .. MaxItems]   \* next is 0 for null
NoPage == [rows |-> {}, next |-> 0]

\* since and crossed are history: the items that matched the filter ever since
\* the first page was read, and whether a page was added that had been asked
\* for before the first page was shown.
NoResult == [key |-> [status |-> AllStatuses, refreshKey |-> -1], page |-> NoPage,
             error |-> FALSE, since |-> {}, crossed |-> FALSE]

\* A request that has been read by the API holds its page.
NoFirst == [loading |-> FALSE, read |-> FALSE, page |-> NoPage, since |-> {}]
NoMore == [loading |-> FALSE, read |-> FALSE, page |-> NoPage,
           key |-> NoResult.key, cursor |-> 0, overtaken |-> FALSE]

ListTypeOK ==
  /\ itemStatus \in Seq(Statuses) /\ Len(itemStatus) <= MaxItems
  /\ status \in Filters
  /\ refreshKey \in 0 .. MaxRetries
  /\ result = NoResult \/
       /\ result.key \in Key
       /\ result.page \in Page
       /\ result.error \in BOOLEAN
       /\ result.since \subseteq ItemIds
       /\ result.crossed \in BOOLEAN
  /\ first.page \in Page
  /\ more.page \in Page
  /\ more.loading => more.key \in Key /\ more.cursor \in ItemIds

\* Mutation: nothing is loaded for the new key.
StartFirstForgotten == NoFirst

StartFirst == [NoFirst EXCEPT !.loading = TRUE]

ListInit ==
  /\ itemStatus \in UNION {[1 .. n -> Statuses] : n \in 0 .. MaxItems}
  /\ status = AllStatuses
  /\ refreshKey = 0
  /\ result = NoResult
  /\ first = StartFirst
  /\ more = NoMore

-----------------------------------------------------------------------------
(***************************************************************************)
(* The API.                                                                *)
(***************************************************************************)

Matches(filter, s) == filter \in {AllStatuses, s}

Matching(filter) == {i \in DOMAIN itemStatus : Matches(filter, itemStatus[i])}

\* GET admin/content: the newest PageSize items that match below the cursor.
PageBelow(filter, cursor) ==
  LET rest == {i \in Matching(filter) : i < cursor}
      ids == {i \in rest : Cardinality({j \in rest : j > i}) < PageSize}
  IN  [rows |-> {[id |-> i, status |-> itemStatus[i]] : i \in ids},
       next |-> IF ids = rest THEN 0 ELSE Min(ids)]

FirstPage(filter) == PageBelow(filter, MaxItems + 1)

CreateItem ==
  /\ Len(itemStatus) < MaxItems
  /\ \E s \in Statuses : itemStatus' = Append(itemStatus, s)
  /\ UNCHANGED <<status, refreshKey, result, first, more>>

ChangeStatus ==
  /\ \E i \in DOMAIN itemStatus, s \in Statuses :
       /\ itemStatus' = [itemStatus EXCEPT ![i] = s]
       /\ first' = IF Matches(status, s) THEN first ELSE [first EXCEPT !.since = @ \ {i}]
       /\ result' = IF Matches(result.key.status, s) THEN result
                    ELSE [result EXCEPT !.since = @ \ {i}]
  /\ UNCHANGED <<status, refreshKey, more>>

-----------------------------------------------------------------------------
(***************************************************************************)
(* The first page of a filter.                                             *)
(***************************************************************************)

Loaded == result.key = RequestKey

\* The effect runs again; the answer to the load it replaces is ignored.
SetStatus(filter) ==
  /\ filter # status
  /\ status' = filter
  /\ first' = StartFirst
  /\ UNCHANGED <<itemStatus, refreshKey, result, more>>

ReadFirst ==
  /\ first.loading
  /\ ~first.read
  /\ first' = [first EXCEPT !.read = TRUE, !.page = FirstPage(status), !.since = Matching(status)]
  /\ UNCHANGED <<itemStatus, status, refreshKey, result, more>>

ShowFirst ==
  /\ first.loading
  /\ first.read
  /\ result' = [key |-> RequestKey, page |-> first.page, error |-> FALSE,
                since |-> first.since, crossed |-> FALSE]
  /\ first' = NoFirst
  /\ more' = [more EXCEPT !.overtaken = more.loading]
  /\ UNCHANGED <<itemStatus, status, refreshKey>>

FirstFails ==
  /\ first.loading
  /\ result' = [key |-> RequestKey, page |-> NoPage, error |-> TRUE,
                since |-> {}, crossed |-> FALSE]
  /\ first' = NoFirst
  /\ more' = [more EXCEPT !.overtaken = more.loading]
  /\ UNCHANGED <<itemStatus, status, refreshKey>>

\* "Try again" in place of a list.
Retry ==
  /\ Loaded
  /\ result.error
  /\ result.page.rows = {}
  /\ refreshKey < MaxRetries
  /\ refreshKey' = refreshKey + 1
  /\ first' = StartFirst
  /\ UNCHANGED <<itemStatus, status, result, more>>

-----------------------------------------------------------------------------
(***************************************************************************)
(* Further pages: "Load more" below the list, and "Try again" next to it.  *)
(***************************************************************************)

LoadMore ==
  /\ Loaded
  /\ result.page.rows # {}
  /\ result.page.next # 0
  /\ ~more.loading
  /\ more' = [NoMore EXCEPT !.loading = TRUE, !.key = RequestKey, !.cursor = result.page.next]
  /\ UNCHANGED <<itemStatus, status, refreshKey, result, first>>

ReadMore ==
  /\ more.loading
  /\ ~more.read
  /\ more' = [more EXCEPT !.read = TRUE, !.page = PageBelow(more.key.status, more.cursor)]
  /\ UNCHANGED <<itemStatus, status, refreshKey, result, first>>

\* Rows of items that are listed already are dropped.
Added(rows, page) ==
  rows \cup {row \in page.rows : \A listed \in rows : listed.id # row.id}

\* Mutation: the key is not looked at.
SameListAlways(key) == result # NoResult

SameList(key) == result.key = key

\* Mutation: the cursor of the page is dropped.
WithPageNoCursor(shown, answer) ==
  [shown EXCEPT !.page = [rows |-> Added(shown.page.rows, answer.page), next |-> 0],
                !.error = FALSE,
                !.crossed = @ \/ answer.overtaken]

WithPage(shown, answer) ==
  [shown EXCEPT !.page = [rows |-> Added(shown.page.rows, answer.page), next |-> answer.page.next],
                !.error = FALSE,
                !.crossed = @ \/ answer.overtaken]

ShowMore ==
  /\ more.loading
  /\ more.read
  /\ result' = IF SameList(more.key) THEN WithPage(result, more) ELSE result
  /\ more' = NoMore
  /\ UNCHANGED <<itemStatus, status, refreshKey, first>>

MoreFails ==
  /\ more.loading
  /\ result' = IF SameList(more.key) THEN [result EXCEPT !.error = TRUE] ELSE result
  /\ more' = NoMore
  /\ UNCHANGED <<itemStatus, status, refreshKey, first>>

-----------------------------------------------------------------------------

FirstStep == ReadFirst \/ ShowFirst \/ FirstFails
MoreStep == ReadMore \/ ShowMore \/ MoreFails
UserStep == Retry \/ LoadMore \/ \E filter \in Filters : SetStatus(filter)

ListNext == UserStep \/ FirstStep \/ MoreStep \/ CreateItem \/ ChangeStatus

ListSpec == ListInit /\ [][ListNext]_listVars

\* The browser settles every fetch; nobody has to do anything.
ListFairness == WF_listVars(FirstStep) /\ WF_listVars(MoreStep)

-----------------------------------------------------------------------------
(***************************************************************************)
(* Properties.                                                             *)
(***************************************************************************)

Rows == result.page.rows

\* Under a filter only items are listed that matched it when they were read,
\* whatever was asked for while another filter was set.
RowsMatchFilter ==
  Loaded => \A row \in Rows : Matches(status, row.status)

\* The list has no gaps: down to its cursor it has every item that matched the
\* filter all the time.  The exception is a page asked for before the filter
\* was changed and set back: its answer is added to the newer list, from where
\* the older one ended.
GapsHaveReason ==
  ~result.crossed =>
    \A i \in result.since : i >= result.page.next => \E row \in Rows : row.id = i

\* A list that is loading is shown in the end, or its error is.
ListSettles ==
  <>[][~(Retry \/ \E filter \in Filters : SetStatus(filter))]_listVars => <>[]Loaded
=============================================================================
