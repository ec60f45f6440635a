------------------------------ MODULE ListProofs ------------------------------
(***************************************************************************)
(* Proofs about the lists of the administration - the items, their titles, *)
(* the revisions of one of them - for lists, pages and histories of any    *)
(* length.                                                                 *)
(***************************************************************************)
EXTENDS ContentList, TitleLookup, RevisionList,
        FiniteSetTheorems, WellFoundedInduction, TLAPS

(***************************************************************************)
(* ContentList: the pages that the API answers with.                       *)
(***************************************************************************)

\* Every set of natural numbers that is not empty has a least member.
LEMMA LeastNat ==
  ASSUME NEW S \in SUBSET Nat, S # {}
  PROVE  \E x \in S : \A y \in S : x <= y
<1>1. PICK x \in S : \A y \in S : <<y, x>> \notin OpToRel(<, Nat)
  BY WFMin, NatLessThanWellFounded
<1>2. \A y \in S : ~(y < x) BY <1>1 DEF OpToRel
<1> QED BY <1>2

\* The next cursor is the least of those that are left.
LEMMA MinIsLeast ==
  ASSUME NEW S \in SUBSET Nat, S # {}
  PROVE  Min(S) \in S /\ \A y \in S : Min(S) <= y
BY LeastNat DEF Min

RowsMatch(page, filter) == \A row \in page.rows : Matches(filter, row.status)

\* page lists every item of ids from its end up to top.
Lists(page, ids, top) ==
  \A i \in ids : page.next <= i /\ i < top => \E row \in page.rows : row.id = i

\* What the API answers with matches the filter and leaves nothing out between
\* the cursor it was given and the one it returns.
LEMMA PageBelowCorrect ==
  ASSUME ListTypeOK, NEW filter \in Filters, NEW cursor \in Nat
  PROVE  LET page == PageBelow(filter, cursor)
         IN  page \in Page /\ RowsMatch(page, filter) /\ Lists(page, Matching(filter), cursor)
<1> USE ListAssumption
<1> DEFINE rest == {i \in Matching(filter) : i < cursor}
           Newer(i) == {j \in rest : j > i}
           ids == {i \in rest : Cardinality(Newer(i)) < PageSize}
           page == PageBelow(filter, cursor)
<1>1. /\ page.rows = {[id |-> i, status |-> itemStatus[i]] : i \in ids}
      /\ page.next = IF ids = rest THEN 0 ELSE Min(ids)
      /\ page = [rows |-> page.rows, next |-> page.next]
  BY DEF PageBelow
<1>2. /\ rest \subseteq ItemIds
      /\ \A i \in rest : itemStatus[i] \in Statuses /\ Matches(filter, itemStatus[i])
  BY DEF ListTypeOK, Matching, ItemIds
<1>3. IsFiniteSet(rest)
  <2>1. IsFiniteSet(ItemIds) BY FS_Interval DEF ItemIds
  <2> QED BY <1>2, <2>1, FS_Subset
<1>4. \A i \in rest : IsFiniteSet(Newer(i)) /\ Cardinality(Newer(i)) \in Nat
  BY <1>3, FS_Subset, FS_CardinalityType
<1>5. ASSUME NEW i \in ids, NEW j \in rest, i <= j
      PROVE  j \in ids
  <2>1. Newer(j) \subseteq Newer(i) BY <1>2, <1>5 DEF ItemIds
  <2>2. Cardinality(Newer(j)) <= Cardinality(Newer(i)) BY <1>4, <2>1, FS_Subset
  <2> QED BY <1>4, <2>2
<1>6. ids # rest => Min(ids) \in ids
  <2> SUFFICES ASSUME ids # rest PROVE Min(ids) \in ids OBVIOUS
  <2> DEFINE depth == {MaxItems - i : i \in rest}
  <2>1. depth # {} /\ depth \subseteq Nat BY <1>2 DEF ItemIds
  <2>2. PICK i \in rest : \A j \in rest : MaxItems - i <= MaxItems - j
    <3>1. PICK d \in depth : \A e \in depth : d <= e BY <2>1, LeastNat
    <3> QED BY <3>1
  <2>3. Newer(i) = {} BY <1>2, <2>2 DEF ItemIds
  <2>4. i \in ids BY <2>3, FS_EmptySet
  <2>5. ids \in SUBSET Nat BY <1>2 DEF ItemIds
  <2> QED BY <2>4, <2>5, MinIsLeast
<1>7. /\ \A row \in page.rows : \E i \in ids : row = [id |-> i, status |-> itemStatus[i]]
      /\ \A i \in ids : [id |-> i, status |-> itemStatus[i]] \in page.rows
  <2> HIDE DEF ids, page
  <2> QED BY <1>1
<1>8. page \in Page
  <2>1. ASSUME NEW row \in page.rows PROVE row \in Row
    <3>1. PICK i \in rest : row = [id |-> i, status |-> itemStatus[i]] BY <1>7
    <3> QED BY <1>2, <3>1 DEF Row
  <2>2. page.next \in 0 .. MaxItems BY <1>1, <1>2, <1>6 DEF ItemIds
  <2> QED BY <1>1, <2>1, <2>2 DEF Page
<1>9. RowsMatch(page, filter)
  <2> SUFFICES ASSUME NEW row \in page.rows PROVE Matches(filter, row.status) BY DEF RowsMatch
  <2>1. PICK i \in rest : row = [id |-> i, status |-> itemStatus[i]] BY <1>7
  <2> QED BY <1>2, <2>1
<1>10. Lists(page, Matching(filter), cursor)
  <2> SUFFICES ASSUME NEW i \in rest, page.next <= i
               PROVE  \E row \in page.rows : row.id = i
    BY DEF Lists
  <2>1. i \in ids
    <3>1. CASE ids = rest BY <3>1
    <3>2. CASE ids # rest BY <1>1, <1>5, <1>6, <3>2
    <3> QED BY <3>1, <3>2
  <2>2. [id |-> i, status |-> itemStatus[i]] \in page.rows
    <3> HIDE DEF ids, page
    <3> QED BY <1>7, <2>1
  <2> QED BY <2>2
<1> QED BY <1>8, <1>9, <1>10

(***************************************************************************)
(* The inductive invariant.                                                *)
(***************************************************************************)

Result == [key : [status : Filters, refreshKey : -1 .. MaxRetries], page : Page,
           error : BOOLEAN, since : SUBSET ItemIds, crossed : BOOLEAN]
First == [loading : BOOLEAN, read : BOOLEAN, page : Page, since : SUBSET ItemIds]
More == [loading : BOOLEAN, read : BOOLEAN, page : Page,
         key : [status : Filters, refreshKey : -1 .. MaxRetries],
         cursor : 0 .. MaxItems, overtaken : BOOLEAN]

RecordsOK == result \in Result /\ first \in First /\ more \in More

\* The first page that is loading, once it is read.
FirstOK ==
  first.read =>
    /\ RowsMatch(first.page, status)
    /\ first.since \subseteq Matching(status)
    /\ Lists(first.page, first.since, MaxItems + 1)

\* The pages so far.
ResultOK ==
  /\ RowsMatch(result.page, result.key.status)
  /\ result.since \subseteq Matching(result.key.status)
  /\ GapsHaveReason

\* The next page that is loading continues the pages so far, unless a first page
\* has overtaken it.
MoreOK ==
  /\ more.loading /\ ~more.overtaken =>
       more.key = result.key /\ more.cursor = result.page.next
  /\ more.loading /\ more.read => RowsMatch(more.page, more.key.status)
  /\ more.loading /\ more.read /\ ~more.overtaken =>
       Lists(more.page, result.since, more.cursor)

ItemsInv == ListTypeOK /\ RecordsOK /\ FirstOK /\ ResultOK /\ MoreOK

\* The requests that are not there.
LEMMA EmptyRecords ==
  NoPage \in Page /\ NoFirst \in First /\ StartFirst \in First /\ NoMore \in More
<1> USE ListAssumption
<1>1. NoPage \in Page BY DEF NoPage, Page, Row, ItemIds
<1>2. NoResult.key \in [status : Filters, refreshKey : -1 .. MaxRetries]
  BY DEF NoResult, Filters
<1>3. NoMore \in More BY <1>1, <1>2 DEF NoMore, More
<1> QED BY <1>1, <1>3 DEF StartFirst, NoFirst, First

\* A list that has asked for nothing satisfies the invariant.
LEMMA ItemsInitOK == ListInit => ItemsInv
<1> SUFFICES ASSUME ListInit PROVE ItemsInv OBVIOUS
<1> USE ListAssumption DEF ListInit
<1>1. NoPage \in Page BY EmptyRecords
<1>2. NoResult \in Result /\ StartFirst \in First /\ NoMore \in More
  <2>1. NoResult.key \in [status : Filters, refreshKey : -1 .. MaxRetries]
    BY DEF NoResult, Filters
  <2> QED BY <2>1, EmptyRecords DEF NoResult, Result
<1>3. ListTypeOK
  <2>1. PICK n \in 0 .. MaxItems : itemStatus \in [1 .. n -> Statuses] OBVIOUS
  <2>2. itemStatus \in Seq(Statuses) /\ Len(itemStatus) <= MaxItems BY <2>1
  <2> QED BY <1>1, <2>2 DEF ListTypeOK, Filters, StartFirst, NoFirst, NoMore
<1>4. FirstOK /\ MoreOK BY DEF FirstOK, MoreOK, StartFirst, NoFirst, NoMore
<1>5. ResultOK BY DEF ResultOK, NoResult, NoPage, RowsMatch, GapsHaveReason
<1> QED BY <1>2, <1>3, <1>4, <1>5 DEF ItemsInv, RecordsOK

\* Nothing changes but the user's choice and what it loads.
LEMMA ChoiceStep ==
  ASSUME ItemsInv, Retry \/ \E filter \in Filters : SetStatus(filter)
  PROVE  ItemsInv'
<1> USE ListAssumption DEF ItemsInv
<1>1. /\ status' \in Filters /\ refreshKey' \in 0 .. MaxRetries
      /\ first' = StartFirst
      /\ UNCHANGED <<itemStatus, result, more>>
  BY DEF Retry, SetStatus, ListTypeOK
<1>2. first'.page \in Page /\ first' \in First /\ ~first'.read
  BY <1>1, EmptyRecords DEF StartFirst, NoFirst
<1>3. ListTypeOK' BY <1>1, <1>2 DEF ListTypeOK, Key
<1>4. RecordsOK' /\ FirstOK' BY <1>1, <1>2 DEF RecordsOK, FirstOK
<1>5. ResultOK' /\ MoreOK'
  BY <1>1 DEF ResultOK, MoreOK, RowsMatch, Lists, Matching, Matches, GapsHaveReason, Rows
<1> QED BY <1>3, <1>4, <1>5

\* A new item keeps it: the pages that are shown lack it, for a reason.
LEMMA CreateItemStep ==
  ASSUME ItemsInv, CreateItem
  PROVE  ItemsInv'
<1> USE ListAssumption DEF ItemsInv
<1>1. PICK s \in Statuses : itemStatus' = Append(itemStatus, s) BY DEF CreateItem
<1>2. /\ UNCHANGED <<status, refreshKey, result, first, more>>
      /\ Len(itemStatus) < MaxItems
  BY DEF CreateItem
<1>3. \A filter : Matching(filter) \subseteq Matching(filter)'
  BY <1>1 DEF Matching, ListTypeOK, Matches
<1>4. ListTypeOK' BY <1>1, <1>2 DEF ListTypeOK, Key
<1>5. RecordsOK' /\ MoreOK' BY <1>2 DEF RecordsOK, MoreOK, RowsMatch, Lists, Matches
<1>6. FirstOK' BY <1>2, <1>3 DEF FirstOK, RowsMatch, Lists, Matches
<1>7. ResultOK' BY <1>2, <1>3 DEF ResultOK, RowsMatch, Matches, GapsHaveReason, Rows
<1> QED BY <1>4, <1>5, <1>6, <1>7

\* An item that no longer matches a filter is not one that always did.
LEMMA ChangeStatusStep ==
  ASSUME ItemsInv, ChangeStatus
  PROVE  ItemsInv'
<1> USE ListAssumption DEF ItemsInv
<1>1. PICK i \in DOMAIN itemStatus, s \in Statuses :
        /\ itemStatus' = [itemStatus EXCEPT ![i] = s]
        /\ first' = IF Matches(status, s) THEN first ELSE [first EXCEPT !.since = @ \ {i}]
        /\ result' = IF Matches(result.key.status, s) THEN result
                     ELSE [result EXCEPT !.since = @ \ {i}]
  BY DEF ChangeStatus
<1>2. UNCHANGED <<status, refreshKey, more>> BY DEF ChangeStatus
<1>3. /\ DOMAIN itemStatus' = DOMAIN itemStatus
      /\ itemStatus' \in Seq(Statuses) /\ Len(itemStatus') = Len(itemStatus)
      /\ itemStatus'[i] = s
      /\ \A j \in DOMAIN itemStatus \ {i} : itemStatus'[j] = itemStatus[j]
  BY <1>1 DEF ListTypeOK
<1>4. /\ first' \in First /\ first'.page = first.page /\ first'.read = first.read
      /\ first'.since \subseteq first.since
      /\ i \in first'.since => Matches(status, s)
  BY <1>1 DEF RecordsOK, First
<1>5. /\ result' \in Result /\ result'.page = result.page /\ result'.key = result.key
      /\ result'.error = result.error /\ result'.crossed = result.crossed
      /\ result'.since \subseteq result.since
      /\ i \in result'.since => Matches(result.key.status, s)
  BY <1>1 DEF RecordsOK, Result
<1>6. ASSUME NEW filter, NEW ids, ids \subseteq Matching(filter), i \in ids => Matches(filter, s)
      PROVE  ids \subseteq Matching(filter)'
  BY <1>3, <1>6 DEF Matching, Matches
<1>7. ListTypeOK'
  <2>1. result = NoResult => result' = NoResult
    BY <1>1 DEF NoResult, Matches
  <2> QED BY <1>2, <1>3, <1>4, <1>5, <2>1 DEF ListTypeOK, Key, Result, RecordsOK, First
<1>8. FirstOK'
  <2>1. first'.read => first'.since \subseteq Matching(status)'
    BY <1>2, <1>4, <1>6 DEF FirstOK
  <2> QED BY <1>2, <1>4, <2>1 DEF FirstOK, RowsMatch, Lists, Matches
<1>9. ResultOK'
  <2>1. result'.since \subseteq Matching(result.key.status)' BY <1>5, <1>6 DEF ResultOK
  <2> QED BY <1>2, <1>5, <2>1 DEF ResultOK, RowsMatch, Matches, GapsHaveReason, Rows
<1>10. RecordsOK' BY <1>2, <1>4, <1>5 DEF RecordsOK
<1>11. MoreOK' BY <1>2, <1>5 DEF MoreOK, RowsMatch, Matches, Lists
<1> QED BY <1>7, <1>8, <1>9, <1>10, <1>11

\* The API reads the first page: it holds what matches at this moment.
LEMMA ReadFirstStep ==
  ASSUME ItemsInv, ReadFirst
  PROVE  ItemsInv'
<1> USE ListAssumption DEF ItemsInv
<1>1. /\ first' = [first EXCEPT !.read = TRUE, !.page = FirstPage(status), !.since = Matching(status)]
      /\ UNCHANGED <<itemStatus, status, refreshKey, result, more>>
  BY DEF ReadFirst
<1>2. /\ FirstPage(status) \in Page
      /\ RowsMatch(FirstPage(status), status)
      /\ Lists(FirstPage(status), Matching(status), MaxItems + 1)
  BY PageBelowCorrect DEF FirstPage, ListTypeOK
<1>3. Matching(status) \subseteq ItemIds BY DEF Matching, ListTypeOK, ItemIds
<1>4. /\ first' \in First
      /\ first'.page = FirstPage(status) /\ first'.since = Matching(status)
  BY <1>1, <1>2, <1>3 DEF RecordsOK, First
<1>5. FirstOK' BY <1>1, <1>2, <1>4 DEF FirstOK, RowsMatch, Lists, Matching, Matches
<1>6. ListTypeOK' BY <1>1, <1>2, <1>4 DEF ListTypeOK
<1>7. RecordsOK' BY <1>1, <1>4 DEF RecordsOK
<1>8. ResultOK' /\ MoreOK'
  BY <1>1 DEF ResultOK, MoreOK, RowsMatch, Lists, Matching, Matches, GapsHaveReason, Rows
<1> QED BY <1>5, <1>6, <1>7, <1>8

\* A first page, or its error, in place of what was shown.
LEMMA FirstShownStep ==
  ASSUME ItemsInv, ShowFirst \/ FirstFails
  PROVE  ItemsInv'
<1> USE ListAssumption DEF ItemsInv
<1>1. /\ first' = NoFirst
      /\ more' = [more EXCEPT !.overtaken = more.loading]
      /\ UNCHANGED <<itemStatus, status, refreshKey>>
  BY DEF ShowFirst, FirstFails
<1>2. PICK page \in Page, since \in SUBSET ItemIds, error \in BOOLEAN :
        /\ result' = [key |-> RequestKey, page |-> page, error |-> error,
                      since |-> since, crossed |-> FALSE]
        /\ RowsMatch(page, status)
        /\ since \subseteq Matching(status)
        /\ Lists(page, since, MaxItems + 1)
  <2>1. CASE ShowFirst BY <2>1 DEF ShowFirst, FirstOK, RecordsOK, First
  <2>2. CASE FirstFails
    <3>1. RowsMatch(NoPage, status) /\ Lists(NoPage, {}, MaxItems + 1)
      BY DEF NoPage, RowsMatch, Lists
    <3> QED BY <2>2, <3>1, EmptyRecords DEF FirstFails
  <2> QED BY <2>1, <2>2
<1>3. RequestKey \in Key /\ RequestKey \in [status : Filters, refreshKey : -1 .. MaxRetries]
  BY DEF RequestKey, Key, ListTypeOK
<1>4. result' \in Result BY <1>2, <1>3 DEF Result
<1>5. /\ more' \in More /\ more'.page = more.page /\ more'.key = more.key
      /\ more'.cursor = more.cursor /\ more'.loading = more.loading /\ more'.read = more.read
      /\ more'.overtaken = more.loading
  BY <1>1 DEF RecordsOK, More
<1>6. ListTypeOK'
  BY <1>1, <1>2, <1>3, <1>5, EmptyRecords DEF ListTypeOK, First, NoFirst
<1>7. RecordsOK' /\ FirstOK' BY <1>1, <1>4, <1>5, EmptyRecords DEF RecordsOK, FirstOK, NoFirst
<1>8. MoreOK' BY <1>5 DEF MoreOK, RowsMatch, Matches
<1>9. ResultOK'
  <2>1. result'.page = page /\ result'.since = since /\ result'.key.status = status
    BY <1>2 DEF RequestKey
  <2>2. \A i \in since : i < MaxItems + 1 BY <1>2 DEF ItemIds
  <2>3. GapsHaveReason' BY <1>2, <2>1, <2>2 DEF GapsHaveReason, Rows, Lists
  <2> QED BY <1>1, <1>2, <2>1, <2>3 DEF ResultOK, RowsMatch, Matching, Matches
<1> QED BY <1>6, <1>7, <1>8, <1>9

\* "Load more" asks for the page behind the cursor that is shown.
LEMMA LoadMoreStep ==
  ASSUME ItemsInv, LoadMore
  PROVE  ItemsInv'
<1> USE ListAssumption DEF ItemsInv
<1>1. /\ more' = [NoMore EXCEPT !.loading = TRUE, !.key = RequestKey, !.cursor = result.page.next]
      /\ UNCHANGED <<itemStatus, status, refreshKey, result, first>>
      /\ result.key = RequestKey /\ result.page.next # 0
  BY DEF LoadMore, Loaded
<1>2. RequestKey \in Key BY DEF RequestKey, Key, ListTypeOK
<1>3. result.page.next \in ItemIds BY <1>1 DEF RecordsOK, Result, Page, ItemIds
<1>4. /\ more' \in More /\ more'.key = result.key /\ more'.cursor = result.page.next
      /\ ~more'.read /\ more'.page = NoPage
  <2>1. more' = [loading |-> TRUE, read |-> FALSE, page |-> NoPage, key |-> RequestKey,
                 cursor |-> result.page.next, overtaken |-> FALSE]
    BY <1>1 DEF NoMore
  <2>2. RequestKey \in [status : Filters, refreshKey : -1 .. MaxRetries] BY <1>2 DEF Key
  <2>3. result.page.next \in 0 .. MaxItems BY <1>3 DEF ItemIds
  <2>4. more' \in More BY <2>1, <2>2, <2>3, EmptyRecords DEF More
  <2>5. result.key = RequestKey BY <1>1
  <2> QED BY <2>1, <2>4, <2>5
<1>5. ListTypeOK' BY <1>1, <1>2, <1>3, <1>4, EmptyRecords DEF ListTypeOK
<1>6. RecordsOK' /\ FirstOK' /\ MoreOK'
  BY <1>1, <1>4 DEF RecordsOK, FirstOK, MoreOK, RowsMatch, Lists, Matching, Matches
<1>7. ResultOK' BY <1>1 DEF ResultOK, RowsMatch, Matching, Matches, GapsHaveReason, Rows
<1> QED BY <1>5, <1>6, <1>7

\* The API reads below the cursor with which Load more asked.
LEMMA ReadMoreStep ==
  ASSUME ItemsInv, ReadMore
  PROVE  ItemsInv'
<1> USE ListAssumption DEF ItemsInv
<1> DEFINE answer == PageBelow(more.key.status, more.cursor)
<1>1. /\ more.loading
      /\ more' = [more EXCEPT !.read = TRUE, !.page = answer]
      /\ UNCHANGED <<itemStatus, status, refreshKey, result, first>>
  BY DEF ReadMore
<1>2. /\ answer \in Page
      /\ RowsMatch(answer, more.key.status)
      /\ Lists(answer, Matching(more.key.status), more.cursor)
  <2>1. more.key.status \in Filters /\ more.cursor \in Nat
    BY <1>1 DEF ListTypeOK, Key, ItemIds
  <2> QED BY <2>1, PageBelowCorrect
<1> HIDE DEF answer
<1>3. /\ more' \in More /\ more'.page = answer /\ more'.key = more.key
      /\ more'.cursor = more.cursor /\ more'.loading = more.loading
      /\ more'.overtaken = more.overtaken
  BY <1>1, <1>2 DEF RecordsOK, More
<1>4. ListTypeOK' /\ RecordsOK' /\ FirstOK'
  BY <1>1, <1>2, <1>3 DEF ListTypeOK, RecordsOK, FirstOK, RowsMatch, Lists, Matching, Matches
<1>5. ResultOK' BY <1>1 DEF ResultOK, RowsMatch, Matching, Matches, GapsHaveReason, Rows
<1>6. MoreOK'
  <2>1. ~more.overtaken => Lists(answer, result.since, more.cursor)
    BY <1>1, <1>2 DEF MoreOK, ResultOK, Lists
  <2> QED BY <1>1, <1>2, <1>3, <2>1 DEF MoreOK, RowsMatch, Lists, Matches
<1> QED BY <1>4, <1>5, <1>6

\* The page is added, or its error shown, unless the list is another one by now.
LEMMA MoreShownStep ==
  ASSUME ItemsInv, ShowMore \/ MoreFails
  PROVE  ItemsInv'
<1> USE ListAssumption DEF ItemsInv
<1>1. /\ more.loading
      /\ more' = NoMore
      /\ UNCHANGED <<itemStatus, status, refreshKey, first>>
  BY DEF ShowMore, MoreFails
<1>2. more.key \in Key BY <1>1 DEF ListTypeOK
<1>3. FirstOK' /\ MoreOK'
  BY <1>1 DEF FirstOK, MoreOK, NoMore, RowsMatch, Lists, Matching, Matches
<1>4. SUFFICES ListTypeOK' /\ RecordsOK' /\ ResultOK' BY <1>3
<1>5. CASE result' = result
  BY <1>1, <1>5, EmptyRecords
  DEF ListTypeOK, RecordsOK, NoMore, ResultOK, RowsMatch, Matching, Matches, GapsHaveReason, Rows
<1>6. CASE result' = [result EXCEPT !.error = TRUE] /\ SameList(more.key)
  <2>1. /\ result' \in Result /\ result'.page = result.page /\ result'.key = more.key
        /\ result'.key = result.key
        /\ result'.since = result.since /\ result'.crossed = result.crossed
    BY <1>6 DEF RecordsOK, Result, SameList
  <2>2. RecordsOK' BY <1>1, <2>1, EmptyRecords DEF RecordsOK
  <2>3. ListTypeOK'
    BY <1>1, <1>2, <2>1, EmptyRecords DEF ListTypeOK, Result, NoMore
  <2>4. ResultOK'
    BY <1>1, <2>1 DEF ResultOK, RowsMatch, Matching, Matches, GapsHaveReason, Rows
  <2> QED BY <2>2, <2>3, <2>4
<1>7. CASE more.read /\ result' = WithPage(result, more) /\ SameList(more.key)
  <2> DEFINE rows == Added(result.page.rows, more.page)
  <2>1. /\ rows \subseteq Row
        /\ result.page.rows \subseteq rows
        /\ rows \subseteq result.page.rows \cup more.page.rows
        /\ \A row \in more.page.rows : \E same \in rows : same.id = row.id
    BY DEF RecordsOK, Result, More, Page, Added
  <2>2. [rows |-> rows, next |-> more.page.next] \in Page
    BY <2>1 DEF RecordsOK, More, Page
  <2>3. /\ result' \in Result
        /\ result'.page = [rows |-> rows, next |-> more.page.next]
        /\ result'.key = more.key /\ result'.key = result.key
        /\ result'.since = result.since
        /\ ~result'.crossed => ~result.crossed /\ ~more.overtaken
    <3> HIDE DEF rows
    <3> QED BY <1>7, <2>2 DEF WithPage, RecordsOK, Result, More, SameList, rows
  <2> HIDE DEF rows
  <2>4. RecordsOK' BY <1>1, <2>3, EmptyRecords DEF RecordsOK
  <2>5. ListTypeOK' BY <1>1, <1>2, <2>2, <2>3, EmptyRecords DEF ListTypeOK, Result, NoMore
  <2>6. RowsMatch(result.page, result.key.status)'
    BY <1>1, <1>7, <2>1, <2>3 DEF ResultOK, MoreOK, RowsMatch, Matches
  <2>7. (result.since \subseteq Matching(result.key.status))'
    BY <1>1, <2>3 DEF ResultOK, Matching, Matches
  <2>8. GapsHaveReason'
    <3> SUFFICES ASSUME ~result.crossed, ~more.overtaken,
                        NEW i \in result.since, i >= more.page.next
                 PROVE  \E row \in rows : row.id = i
      BY <2>3 DEF GapsHaveReason, Rows
    <3>1. more.cursor = result.page.next BY <1>1 DEF MoreOK
    <3>2. CASE i >= result.page.next
      BY <2>1, <3>2 DEF ResultOK, GapsHaveReason, Rows
    <3>3. CASE i < more.cursor
      <4>1. PICK row \in more.page.rows : row.id = i BY <1>1, <1>7, <3>3 DEF MoreOK, Lists
      <4> QED BY <2>1, <4>1
    <3>4. i \in Int /\ result.page.next \in Int
      BY DEF RecordsOK, Result, Page, ItemIds
    <3> QED BY <3>1, <3>2, <3>3, <3>4
  <2> QED BY <2>4, <2>5, <2>6, <2>7, <2>8 DEF ResultOK
<1> QED BY <1>5, <1>6, <1>7 DEF ShowMore, MoreFails

\* Every step keeps the invariant of the list.
LEMMA ItemsStepOK == ItemsInv /\ [ListNext]_listVars => ItemsInv'
<1> SUFFICES ASSUME ItemsInv, [ListNext]_listVars PROVE ItemsInv' OBVIOUS
<1>1. CASE UNCHANGED listVars
  BY <1>1 DEF listVars, ItemsInv, ListTypeOK, RecordsOK, FirstOK, ResultOK, MoreOK, RowsMatch,
     Lists, Matching, Matches, GapsHaveReason, Rows
<1> QED
  BY <1>1, ChoiceStep, CreateItemStep, ChangeStatusStep, ReadFirstStep, FirstShownStep,
     LoadMoreStep, ReadMoreStep, MoreShownStep
  DEF ListNext, UserStep, FirstStep, MoreStep

\* The inductive invariant of the list of items.
THEOREM ItemsInvariance == ListSpec => []ItemsInv
BY ItemsInitOK, ItemsStepOK, PTL DEF ListSpec

\* Type correctness of the list of items, for any number of items and retries.
THEOREM ListTypeCorrect == ListSpec => []ListTypeOK
BY ItemsInvariance, PTL DEF ItemsInv

\* What is listed matches the filter, whatever is created, changed, asked for
\* and answered meanwhile.
THEOREM RowsMatchCorrect == ListSpec => []RowsMatchFilter
<1>1. ItemsInv => RowsMatchFilter
  BY DEF ItemsInv, ResultOK, RowsMatch, RowsMatchFilter, Rows, Loaded, RequestKey
<1> QED BY <1>1, ItemsInvariance, PTL

\* The list has no gap but the one known reason explains, for pages of any size.
THEOREM GapsCorrect == ListSpec => []GapsHaveReason
<1>1. ItemsInv => GapsHaveReason BY DEF ItemsInv, ResultOK
<1> QED BY <1>1, ItemsInvariance, PTL

-----------------------------------------------------------------------------
(***************************************************************************)
(* TitleLookup.  The invariant says where every item is: not claimed yet,  *)
(* in flight with one worker, or done - unless the call has been rejected. *)
(***************************************************************************)

\* Items from nextIndex on are untouched; those before it are done or in
\* flight, as long as no lookup failed.
TitlesPlaced ==
  /\ \A i \in Items : i >= nextIndex => results[i] = 0
  /\ \A i \in Items : results[i] \in {0, i}
  /\ \A w \in Workers : index[w] < nextIndex
  /\ promise # "rejected" =>
       \A i \in Items : i < nextIndex => results[i] = i \/ \E w \in Workers : index[w] = i
  /\ promise # "rejected" => \A w \in Workers : index[w] = 0 => nextIndex = N + 1

TitlesInv == TypeOK /\ LookedUpOnce /\ TitlesPlaced /\ FulfilledIsComplete

\* The workers' first items are the first items of the page.
LEMMA TitlesInitOK == Init => TitlesInv
<1> SUFFICES ASSUME Init PROVE TitlesInv OBVIOUS
<1> USE SizesAssumption DEF Init
<1>1. Smaller(Concurrency, N) \in 0 .. N BY DEF Smaller
<1>2. Workers = 1 .. nextIndex - 1 /\ nextIndex \in 1 .. N + 1 BY <1>1 DEF Workers
<1>3. \A w \in Workers : w \in Items /\ index[w] = w /\ w < nextIndex BY <1>2 DEF Items
<1>4. TypeOK BY <1>2, <1>3 DEF TypeOK, Items
<1>5. LookedUpOnce BY <1>3 DEF LookedUpOnce
<1>6. TitlesPlaced BY <1>2, <1>3, <1>4 DEF TitlesPlaced, Items
<1> QED BY <1>4, <1>5, <1>6 DEF TitlesInv, FulfilledIsComplete

\* The answer is stored before the worker claims an item nobody has.
LEMMA AnsweredStep ==
  ASSUME TitlesInv, NEW w \in Workers, LookupAnswered(w)
  PROVE  TitlesInv'
<1> USE SizesAssumption DEF TitlesInv, Items
<1>1. /\ index[w] \in Items
      /\ index[w] < nextIndex
      /\ results' = [results EXCEPT ![index[w]] = index[w]]
      /\ promise' = promise
  BY DEF LookupAnswered, TypeOK, TitlesPlaced
<1>2. /\ index' \in [Workers -> 0 .. N]
      /\ nextIndex' \in 1 .. N + 1
      /\ \A v \in Workers \ {w} : index'[v] = index[v]
      /\ \/ nextIndex \in Items /\ index'[w] = nextIndex /\ nextIndex' = nextIndex + 1
         \/ nextIndex = N + 1 /\ index'[w] = 0 /\ nextIndex' = nextIndex
  <2>1. CASE nextIndex <= N
    BY <2>1 DEF LookupAnswered, Claim, TypeOK
  <2>2. CASE ~(nextIndex <= N)
    BY <2>2 DEF LookupAnswered, Claim, TypeOK
  <2> QED BY <2>1, <2>2
<1>3. TypeOK' BY <1>1, <1>2 DEF TypeOK
<1>4. LookedUpOnce'
  BY <1>1, <1>2 DEF TypeOK, LookedUpOnce, TitlesPlaced
<1>5. promise # "fulfilled" \/ \A v \in Items : results[v] = v
  BY DEF FulfilledIsComplete
<1>6. promise # "fulfilled"
  BY <1>1, <1>5 DEF LookupAnswered, LookedUpOnce
<1>7. TitlesPlaced'
  <2>1. (\A i \in Items : i >= nextIndex => results[i] = 0)'
    BY <1>1, <1>2 DEF TypeOK, TitlesPlaced
  <2>2. (\A i \in Items : results[i] \in {0, i})' BY <1>1 DEF TypeOK, TitlesPlaced
  <2>3. (\A v \in Workers : index[v] < nextIndex)' BY <1>2 DEF TypeOK, TitlesPlaced
  <2>4. ASSUME promise' # "rejected", NEW i \in Items, i < nextIndex'
        PROVE  results'[i] = i \/ \E v \in Workers : index'[v] = i
    <3>1. CASE i < nextIndex
      <4>1. results[i] = i \/ \E v \in Workers : index[v] = i BY <1>1, <2>4, <3>1 DEF TitlesPlaced
      <4>2. ASSUME NEW v \in Workers, index[v] = i, v # w PROVE index'[v] = i BY <1>2, <4>2
      <4>3. index[w] = i => results'[i] = i BY <1>1 DEF TypeOK
      <4>4. results[i] = i => results'[i] = i BY <1>1 DEF TypeOK
      <4> QED BY <4>1, <4>2, <4>3, <4>4
    <3>2. CASE i = nextIndex
      <4>1. index'[w] = i BY <1>2, <2>4, <3>2 DEF TypeOK
      <4> QED BY <4>1
    <3> QED BY <1>2, <2>4, <3>1, <3>2 DEF TypeOK
  <2>5. (promise # "rejected" => \A v \in Workers : index[v] = 0 => nextIndex = N + 1)'
    BY <1>1, <1>2 DEF TypeOK, TitlesPlaced
  <2> QED BY <2>1, <2>2, <2>3, <2>4, <2>5 DEF TitlesPlaced
<1>8. FulfilledIsComplete' BY <1>1, <1>6 DEF FulfilledIsComplete
<1> QED BY <1>3, <1>4, <1>7, <1>8

\* A failed lookup is the end of its worker and of the call.
LEMMA FailsStep ==
  ASSUME TitlesInv, NEW w \in Workers, LookupFails(w)
  PROVE  TitlesInv'
BY SizesAssumption
DEF TitlesInv, Items, LookupFails, TypeOK, LookedUpOnce, TitlesPlaced, FulfilledIsComplete

\* The call is fulfilled when no worker has an item left.
LEMMA FulfilStep ==
  ASSUME TitlesInv, Fulfil
  PROVE  TitlesInv'
<1> USE SizesAssumption DEF TitlesInv, Items
<1>1. \A i \in Items : results[i] = i
  <2>1. SUFFICES ASSUME NEW i \in Items PROVE results[i] = i OBVIOUS
  <2>2. nextIndex = N + 1
    <3>1. 1 \in Workers BY DEF Workers, Smaller
    <3> QED BY <3>1 DEF Fulfil, TitlesPlaced
  <2> QED BY <2>2 DEF Fulfil, TitlesPlaced
<1> QED BY <1>1 DEF Fulfil, TypeOK, LookedUpOnce, TitlesPlaced, FulfilledIsComplete

\* TitlesInv is preserved by every step.
LEMMA TitlesStepOK == TitlesInv /\ [Next]_vars => TitlesInv'
<1> SUFFICES ASSUME TitlesInv, [Next]_vars PROVE TitlesInv' OBVIOUS
<1>1. CASE UNCHANGED vars
  BY <1>1 DEF vars, TitlesInv, TypeOK, LookedUpOnce, TitlesPlaced, FulfilledIsComplete
<1> QED BY <1>1, AnsweredStep, FailsStep, FulfilStep DEF Next

\* The inductive invariant of the lookup.
THEOREM TitlesInvariance == Spec => []TitlesInv
BY TitlesInitOK, TitlesStepOK, PTL DEF Spec

\* Type correctness: every index a worker uses is inside the page.
THEOREM TitlesTypeCorrect == Spec => []TypeOK
BY TitlesInvariance, PTL DEF TitlesInv

\* No two lookups of one item, for pages of any length.
THEOREM LookedUpOnceCorrect == Spec => []LookedUpOnce
BY TitlesInvariance, PTL DEF TitlesInv

\* A returned list is complete and in order, for pages of any length.
THEOREM FulfilledIsCompleteCorrect == Spec => []FulfilledIsComplete
BY TitlesInvariance, PTL DEF TitlesInv

-----------------------------------------------------------------------------
(***************************************************************************)
(* RevisionList.                                                           *)
(***************************************************************************)

\* rows are the revisions from rows[1] down to next, or to the first one.
Unbroken(rows, next) ==
  /\ rows \in Seq(Nat) /\ next \in Nat \ {1}
  /\ rows # <<>>
  /\ \A k \in 1 .. Len(rows) : rows[k] = rows[1] + 1 - k
  /\ rows[Len(rows)] = IF next = 0 THEN 1 ELSE next

\* What the API answers with.
LEMMA BelowCorrect ==
  ASSUME NEW cursor \in Nat, cursor > 1
  PROVE  /\ Unbroken(Below(cursor).rows, Below(cursor).next)
         /\ Below(cursor).rows[1] = cursor - 1
<1> USE RevisionListAssumption
<1> DEFINE size == IF RevisionPage < cursor THEN RevisionPage ELSE cursor - 1
           rows == [k \in 1 .. size |-> cursor - k]
           next == IF size < cursor - 1 THEN cursor - size ELSE 0
<1>1. Below(cursor) = [rows |-> rows, next |-> next] BY DEF Below
<1>2. size \in 1 .. cursor - 1 OBVIOUS
<1> HIDE DEF size
<1>3. rows \in Seq(Nat) /\ Len(rows) = size /\ rows # <<>> BY <1>2
<1> QED BY <1>1, <1>2, <1>3 DEF Unbroken

Listing == [loading : BOOLEAN, item : BOOLEAN, rows : Seq(Nat), next : Nat, error : BOOLEAN]

RevisionsInv ==
  /\ saved \in Nat \ {0}
  /\ load \in [content : BOOLEAN, history : BOOLEAN, page : [rows : Seq(Nat), next : Nat]]
  /\ listed \in Listing
  /\ load.history => Unbroken(load.page.rows, load.page.next)
  /\ IF listed.item
       THEN ~listed.loading /\ Unbroken(listed.rows, listed.next)
       ELSE listed.next = 0
  /\ asked = IF loadingMore THEN <<listed.next>> ELSE <<>>
  /\ loadingMore \in BOOLEAN
  /\ loadingMore => listed.next # 0

\* A history that has loaded nothing satisfies the invariant.
LEMMA RevisionsInitOK == RevisionsInit => RevisionsInv
<1> SUFFICES ASSUME RevisionsInit PROVE RevisionsInv OBVIOUS
<1> USE RevisionListAssumption
<1>1. NothingListed \in Listing /\ ~NothingListed.item /\ NothingListed.next = 0
  BY DEF NothingListed, Listing
<1>2. Waiting \in [content : BOOLEAN, history : BOOLEAN, page : [rows : Seq(Nat), next : Nat]]
  BY DEF Waiting, NoRevisions
<1>3. ~Waiting.history BY DEF Waiting
<1> HIDE DEF Waiting, NothingListed
<1>4. /\ saved \in Nat \ {0} /\ load = Waiting /\ listed = NothingListed
      /\ loadingMore = FALSE /\ asked = <<>>
  BY DEF RevisionsInit
<1> QED BY <1>1, <1>2, <1>3, <1>4 DEF RevisionsInv

\* The page that was asked for continues the list.
LEMMA MoreAnsweredStep ==
  ASSUME RevisionsInv, MoreAnswered
  PROVE  RevisionsInv'
<1>1. PICK j \in DOMAIN asked :
        /\ asked' = RemoveAt(asked, j)
        /\ \/ listed' = [listed EXCEPT !.error = TRUE]
           \/ listed' = [listed EXCEPT !.rows = @ \o Below(asked[j]).rows,
                                       !.next = Below(asked[j]).next, !.error = FALSE]
  BY DEF MoreAnswered
<1>2. UNCHANGED <<saved, load>> /\ loadingMore' = FALSE BY DEF MoreAnswered
<1>3. loadingMore /\ asked[j] = listed.next /\ j = 1 /\ Len(asked) = 1
  BY <1>1 DEF RevisionsInv
<1>4. asked' = <<>> BY <1>1, <1>3 DEF RemoveAt, RevisionsInv
<1>5. CASE listed' = [listed EXCEPT !.error = TRUE]
  BY <1>2, <1>4, <1>5 DEF RevisionsInv, Listing
<1>6. CASE listed' = [listed EXCEPT !.rows = @ \o Below(asked[j]).rows,
                                    !.next = Below(asked[j]).next, !.error = FALSE]
  <2> DEFINE page == Below(listed.next)
  <2>1. listed.item /\ Unbroken(listed.rows, listed.next) /\ listed.next # 0
    BY <1>3 DEF RevisionsInv
  <2>2. listed.next \in Nat /\ listed.next > 1 BY <2>1 DEF Unbroken
  <2>3. Unbroken(page.rows, page.next) /\ page.rows[1] = listed.next - 1
    BY <2>2, BelowCorrect
  <2> HIDE DEF page
  <2>4. Unbroken(listed.rows \o page.rows, page.next)
    <3>1. \A s \in Seq(Nat) : s # <<>> =>
            Len(s) \in Nat \ {0} /\ DOMAIN s = 1 .. Len(s) /\ s[1] \in Nat
      OBVIOUS
    <3> DEFINE old == listed.rows
               new == page.rows
               rows == old \o new
    <3>2. /\ old \in Seq(Nat) /\ Len(old) \in Nat \ {0} /\ DOMAIN old = 1 .. Len(old)
          /\ \A k \in 1 .. Len(old) : old[k] = old[1] + 1 - k
          /\ old[Len(old)] = listed.next
          /\ old[1] \in Nat
      <4>1. old \in Seq(Nat) /\ old # <<>> BY <2>1 DEF Unbroken
      <4>2. Len(old) \in Nat \ {0} /\ DOMAIN old = 1 .. Len(old) /\ old[1] \in Nat BY <3>1, <4>1
      <4>3. \A k \in 1 .. Len(old) : old[k] = old[1] + 1 - k BY <2>1 DEF Unbroken
      <4>4. old[Len(old)] = listed.next BY <2>1 DEF Unbroken
      <4> HIDE DEF old
      <4> QED BY <4>1, <4>2, <4>3, <4>4
    <3>3. /\ new \in Seq(Nat) /\ Len(new) \in Nat \ {0} /\ DOMAIN new = 1 .. Len(new)
          /\ \A k \in 1 .. Len(new) : new[k] = listed.next - k
          /\ new[Len(new)] = IF page.next = 0 THEN 1 ELSE page.next
          /\ page.next \in Nat \ {1}
      <4>1. /\ new \in Seq(Nat) /\ new # <<>> /\ new[1] = listed.next - 1
            /\ new[Len(new)] = IF page.next = 0 THEN 1 ELSE page.next
            /\ page.next \in Nat \ {1}
        BY <2>3 DEF Unbroken
      <4>2. Len(new) \in Nat \ {0} /\ DOMAIN new = 1 .. Len(new) BY <3>1, <4>1
      <4>3. \A k \in 1 .. Len(new) : new[k] = new[1] + 1 - k BY <2>3 DEF Unbroken
      <4> HIDE DEF new
      <4>4. \A k \in 1 .. Len(new) : new[k] = listed.next - k
        BY <2>2, <4>1, <4>2, <4>3
      <4> QED BY <4>1, <4>2, <4>4
    <3> HIDE DEF old, new
    <3>4. /\ rows \in Seq(Nat) /\ Len(rows) = Len(old) + Len(new) /\ rows # <<>>
          /\ \A k \in 1 .. Len(old) : rows[k] = old[k]
          /\ \A k \in 1 .. Len(new) : rows[Len(old) + k] = new[k]
      BY <3>2, <3>3
    <3>5. DOMAIN rows = 1 .. Len(old) + Len(new) BY <3>4
    <3> HIDE DEF rows
    <3>6. ASSUME NEW n \in 1 .. Len(old) + Len(new)
          PROVE  rows[n] = rows[1] + 1 - n
      <4>1. listed.next = old[1] + 1 - Len(old) /\ rows[1] = old[1] BY <3>2, <3>4
      <4>2. CASE n <= Len(old) BY <3>2, <3>4, <4>1, <4>2
      <4>3. CASE n > Len(old)
        <5>1. n - Len(old) \in 1 .. Len(new) BY <3>2, <3>3, <4>3
        <5>2. n = Len(old) + (n - Len(old)) BY <3>2
        <5>3. rows[n] = new[n - Len(old)] BY <3>4, <5>1, <5>2
        <5>4. rows[n] = listed.next - (n - Len(old)) BY <3>3, <5>1, <5>3
        <5> QED BY <3>2, <4>1, <5>4
      <4> QED BY <3>2, <4>2, <4>3
    <3>7. rows[Len(rows)] = new[Len(new)] BY <3>3, <3>4
    <3> QED BY <3>3, <3>4, <3>5, <3>6, <3>7 DEF Unbroken, rows, old, new
  <2>5. /\ listed' \in Listing /\ listed'.rows = listed.rows \o page.rows
        /\ listed'.next = page.next /\ listed'.item = listed.item
        /\ listed'.loading = listed.loading
    BY <1>3, <1>6, <2>3, <2>4 DEF RevisionsInv, Listing, Unbroken, page
  <2> QED BY <1>2, <1>4, <2>1, <2>4, <2>5 DEF RevisionsInv
<1> QED BY <1>1, <1>5, <1>6

\* Every step keeps the invariant of the history.
LEMMA RevisionsStepOK == RevisionsInv /\ [RevisionsNext]_revisionVars => RevisionsInv'
<1> SUFFICES ASSUME RevisionsInv, [RevisionsNext]_revisionVars PROVE RevisionsInv' OBVIOUS
<1>1. CASE UNCHANGED revisionVars BY <1>1 DEF revisionVars, RevisionsInv
<1>2. CASE SaveRevision BY <1>2 DEF SaveRevision, RevisionsInv
<1>3. CASE ReadContent BY <1>3 DEF ReadContent, RevisionsInv
<1>4. CASE ReadHistory
  <2>1. Unbroken(Below(saved + 1).rows, Below(saved + 1).next)
    BY BelowCorrect DEF RevisionsInv
  <2>2. Below(saved + 1) \in [rows : Seq(Nat), next : Nat]
    BY <2>1 DEF Below, Unbroken
  <2> QED BY <1>4, <2>1, <2>2 DEF ReadHistory, RevisionsInv
<1>5. CASE BothRead BY <1>5 DEF BothRead, RevisionsInv, Listing
<1>6. CASE ReadFails
  <2>1. /\ UNCHANGED <<saved, load, loadingMore, asked>>
        /\ listed' = [NothingListed EXCEPT !.loading = FALSE, !.error = TRUE]
        /\ ~loadingMore /\ asked = <<>>
    BY <1>6 DEF ReadFails, RevisionsInv
  <2>2. listed' = [loading |-> FALSE, item |-> FALSE, rows |-> <<>>, next |-> 0, error |-> TRUE]
    BY <2>1 DEF NothingListed
  <2>3. listed' \in Listing /\ ~listed'.item /\ listed'.next = 0
    BY <2>2 DEF Listing
  <2> QED BY <2>1, <2>3 DEF RevisionsInv
<1>7. CASE Refresh
  BY <1>7 DEF Refresh, RevisionsInv, Listing, NothingListed, Waiting, NoRevisions
<1>8. CASE LoadMoreRevisions BY <1>8 DEF LoadMoreRevisions, MayLoadMore, RevisionsInv, Listing
<1> QED BY <1>1, <1>2, <1>3, <1>4, <1>5, <1>6, <1>7, <1>8, MoreAnsweredStep DEF RevisionsNext

\* The inductive invariant of the revisions: at most one page is asked for, and
\* it is the one with which the list goes on.
THEOREM RevisionsInvariance == RevisionsSpec => []RevisionsInv
BY RevisionsInitOK, RevisionsStepOK, PTL DEF RevisionsSpec

\* The revisions that are listed are an unbroken part of the history, however
\* long it is and whatever the size of a page.
THEOREM HistoryCorrect == RevisionsSpec => []HistoryHasNoGaps
<1>1. ASSUME RevisionsInv, listed.item
      PROVE  HistoryHasNoGaps
  <2>1. Unbroken(listed.rows, listed.next) BY <1>1 DEF RevisionsInv
  <2>2. DOMAIN listed.rows = 1 .. Len(listed.rows) BY <2>1 DEF Unbroken
  <2> QED BY <2>1, <2>2 DEF HistoryHasNoGaps, Unbroken
<1>2. RevisionsInv => HistoryHasNoGaps BY <1>1 DEF HistoryHasNoGaps
<1> QED BY <1>2, RevisionsInvariance, PTL
=============================================================================
