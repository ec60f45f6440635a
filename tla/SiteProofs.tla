----------------------------- MODULE SiteProofs -----------------------------
(***************************************************************************)
(* The safety properties of what every visitor meets: the search dialog,   *)
(* for every set of terms and filters; the route it asks, for any limit    *)
(* and any number of results; the page of a published article,             *)
(* for any number of publications and of fetches in flight; accounts and   *)
(* the session, for every set of addresses.                                *)
(***************************************************************************)
EXTENDS SearchDialog, SearchRoute, PublicArticle, AuthSession, FiniteSetTheorems,
        WellFoundedInduction, TLAPS

-----------------------------------------------------------------------------
(***************************************************************************)
(* SearchDialog.                                                           *)
(***************************************************************************)

\* OneLiveSearch is what makes SettledOnQuery inductive: an answer that is not
\* ignored is the answer to the query shown.  A live search needs a query.
DialogInv ==
  /\ TypeOK
  /\ OneLiveSearch
  /\ query = Blank => Live = {}
  /\ SettledOnQuery

-----------------------------------------------------------------------------
\* A new run waits for its timer, is not aborted and is for the new query.
LEMMA StartedIsNew ==
  ASSUME NEW term \in Terms \cup {Blank}, NEW kind \in Kinds
  PROVE  /\ Started(term, kind) \subseteq Search
         /\ \A s \in Started(term, kind) :
              ~s.aborted /\ s.phase = "delayed" /\ s.for = <<term, kind>>
         /\ \A s, t \in Started(term, kind) : s = t
         /\ term = Blank => Started(term, kind) = {}
<1>1. ASSUME NEW s \in Started(term, kind)
      PROVE  s = [for |-> <<term, kind>>, phase |-> "delayed", aborted |-> FALSE] /\ term # Blank
  BY <1>1 DEF Started
<1>2. term # Blank =>
        [for |-> <<term, kind>>, phase |-> "delayed", aborted |-> FALSE] \in Search
  BY DEF Search
<1>3. Started(term, kind) \subseteq Search BY <1>1, <1>2
<1>4. \A s \in Started(term, kind) :
        ~s.aborted /\ s.phase = "delayed" /\ s.for = <<term, kind>>
  BY <1>1
<1>5. \A s, t \in Started(term, kind) : s = t BY <1>1
<1>6. QED BY <1>1, <1>3, <1>4, <1>5

\* After the effect ran again, the new run is the only one that is live.
LEMMA RestartLive ==
  ASSUME TypeOK, NEW term \in Terms \cup {Blank}, NEW kind \in Kinds, Restart(term, kind)
  PROVE  searches' \subseteq Search /\ Live' = Started(term, kind)
<1>1. \A s \in CleanedUp : s \in Search /\ s.aborted
  BY DEF CleanedUp, TypeOK, Search
<1>2. QED
  BY <1>1, StartedIsNew DEF Restart, Live

\* The first state satisfies the invariant.
LEMMA DialogInitOK == Init => DialogInv
BY SearchAssumption
   DEF Init, DialogInv, TypeOK, OneLiveSearch, SettledOnQuery, ShowsResults, Live

\* A change of the query or the filter keeps it: the one live search is new.
LEMMA ChangesKeep ==
  ASSUME DialogInv,
         \/ \E term \in Terms \cup {Blank} : Type(term)
         \/ \E kind \in Kinds : SetFilter(kind)
  PROVE  DialogInv'
<1>1. PICK term \in Terms \cup {Blank}, kind \in Kinds :
        /\ Restart(term, kind)
        /\ query' = term
        /\ filter' = kind
        /\ UNCHANGED <<open, results, loading, failed>>
  BY DEF DialogInv, TypeOK, Type, SetFilter
<1>2. TypeOK' BY <1>1, RestartLive DEF DialogInv, TypeOK
<1>3. Live' = Started(term, kind)
  BY <1>1, RestartLive DEF DialogInv
<1>4. OneLiveSearch' BY <1>1, <1>3, StartedIsNew DEF OneLiveSearch, Current
<1>5. (query = Blank => Live = {})' BY <1>1, <1>3, StartedIsNew
<1>6. SettledOnQuery'
  <2>1. query' # Blank => Live' # {} BY <1>1, <1>3 DEF Started
  <2>2. QED BY <2>1 DEF SettledOnQuery, ShowsResults
<1>7. QED BY <1>2, <1>4, <1>5, <1>6 DEF DialogInv

\* A timer keeps it: the search goes on, and loading says so.
LEMMA TimerKeeps ==
  ASSUME DialogInv, NEW s \in searches, TimerFires(s)
  PROVE  DialogInv'
<1>1. TypeOK' BY DEF DialogInv, TypeOK, TimerFires, Search
<1>2. s \in Search BY DEF DialogInv, TypeOK
<1>3. Live' = IF s \in Live THEN (Live \ {s}) \cup {[s EXCEPT !.phase = "fetching"]} ELSE Live
  <2>1. [s EXCEPT !.phase = "fetching"].aborted = s.aborted BY <1>2 DEF Search
  <2>2. CASE s \in Live BY <2>1, <2>2 DEF TimerFires, Live
  <2>3. CASE s \notin Live BY <2>1, <2>3 DEF TimerFires, Live
  <2>4. QED BY <2>2, <2>3
<1>4. OneLiveSearch' BY <1>2, <1>3 DEF DialogInv, OneLiveSearch, Current, TimerFires, Search
<1>5. (query = Blank => Live = {})' BY <1>3 DEF DialogInv, TimerFires
<1>6. SettledOnQuery' BY DEF TimerFires, SettledOnQuery, ShowsResults
<1>7. QED BY <1>1, <1>4, <1>5, <1>6 DEF DialogInv

\* An answer or a failure keeps it: what an aborted search does is ignored.
LEMMA EndKeeps ==
  ASSUME DialogInv, NEW s \in searches, Answered(s) \/ Fails(s)
  PROVE  DialogInv'
<1>1. TypeOK' BY DEF DialogInv, TypeOK, Answered, Fails, EndLoading, Search
<1>2. Live' = Live \ {s} BY DEF Live, Answered, Fails
<1>3. UNCHANGED <<query, filter>> /\ (s \notin Live => loading' = loading)
  BY DEF Answered, Fails, EndLoading, Live
<1>4. OneLiveSearch' BY <1>2, <1>3 DEF DialogInv, OneLiveSearch, Current
<1>5. (query = Blank => Live = {})' BY <1>2, <1>3 DEF DialogInv
<1>6. SettledOnQuery'
  <2>1. CASE s \in Live
    BY <2>1, <1>3
       DEF DialogInv, OneLiveSearch, SettledOnQuery, ShowsResults, Answered, Fails, Live, Current
  <2>2. CASE s \notin Live
    BY <2>2, <1>2, <1>3
       DEF DialogInv, SettledOnQuery, ShowsResults, Answered, Fails, Live, Current
  <2>3. QED BY <2>1, <2>2
<1>7. QED BY <1>1, <1>4, <1>5, <1>6 DEF DialogInv

\* Every step keeps the invariant.
LEMMA DialogStepOK == DialogInv /\ [Next]_vars => DialogInv'
<1> SUFFICES ASSUME DialogInv, [Next]_vars PROVE DialogInv'
  OBVIOUS
<1>1. CASE OpenSearch \/ CloseSearch
  BY <1>1
     DEF OpenSearch, CloseSearch, DialogInv, TypeOK, OneLiveSearch, SettledOnQuery,
         ShowsResults, Live, Current
<1>2. CASE (\E term \in Terms \cup {Blank} : Type(term)) \/ (\E kind \in Kinds : SetFilter(kind))
  BY <1>2, ChangesKeep
<1>3. CASE SearchStep BY <1>3, TimerKeeps, EndKeeps DEF SearchStep
<1>4. CASE UNCHANGED vars
  BY <1>4 DEF vars, DialogInv, TypeOK, OneLiveSearch, SettledOnQuery, ShowsResults, Live, Current
<1>5. QED BY <1>1, <1>2, <1>3, <1>4 DEF Next, UserStep

-----------------------------------------------------------------------------
\* The invariant holds throughout.
THEOREM DialogInvariance == Spec => []DialogInv
BY DialogInitOK, DialogStepOK, PTL DEF Spec

\* The variables of the dialog keep their types.
THEOREM DialogTypeCorrect == Spec => []TypeOK
<1>1. DialogInv => TypeOK BY DEF DialogInv
<1>2. QED BY <1>1, DialogInvariance, PTL

\* Only one search is live, and it is for what the dialog shows.
THEOREM OneLiveCorrect == Spec => []OneLiveSearch
<1>1. DialogInv => OneLiveSearch BY DEF DialogInv
<1>2. QED BY <1>1, DialogInvariance, PTL

\* A dialog at rest shows the results of its own query and filter.
THEOREM SettledCorrect == Spec => []SettledOnQuery
<1>1. DialogInv => SettledOnQuery BY DEF DialogInv
<1>2. QED BY <1>1, DialogInvariance, PTL

\* Results only ever arrive for the query and filter shown.
THEOREM NoLateCorrect == Spec => NoLateResults
<1>1. DialogInv /\ [Next]_vars => [results' # results => results' = Current]_vars
  <2> SUFFICES ASSUME DialogInv, Next, results' # results PROVE results' = Current
    OBVIOUS
  <2>1. PICK s \in searches : Answered(s)
    BY DEF Next, UserStep, SearchStep, OpenSearch, CloseSearch, Type, SetFilter, TimerFires, Fails
  <2>2. QED BY <2>1 DEF Answered, DialogInv, OneLiveSearch, Live
<1>2. QED BY <1>1, DialogInvariance, PTL DEF Spec, NoLateResults

-----------------------------------------------------------------------------
(***************************************************************************)
(* SearchRoute.                                                            *)
(***************************************************************************)

\* A set of natural numbers has a least one.
LEMMA LeastNat ==
  ASSUME NEW S \in SUBSET Nat, S # {}
  PROVE  \E x \in S : \A y \in S : x <= y
<1>1. PICK x \in S : \A y \in S : ~(<<y, x>> \in OpToRel(<, Nat))
  BY NatLessThanWellFounded, WFMin
<1>2. \A y \in S : ~(y < x) BY <1>1 DEF OpToRel
<1> QED BY <1>2

\* A strict order on a finite set has a first element.
LEMMA FirstElement ==
  ASSUME NEW S, IsFiniteSet(S), S # {}, NEW R,
         \A x \in S : <<x, x>> \notin R,
         \A x, y, z \in S : <<x, y>> \in R /\ <<y, z>> \in R => <<x, z>> \in R
  PROVE  \E m \in S : \A x \in S : <<x, m>> \notin R
<1> DEFINE below == [x \in S |-> {y \in S : <<y, x>> \in R}]
           size == [x \in S |-> Cardinality(below[x])]
           sizes == {size[x] : x \in S}
<1>1. \A x \in S : IsFiniteSet(below[x]) /\ size[x] = Cardinality(below[x]) /\ size[x] \in Nat
  BY FS_Subset, FS_CardinalityType
<1>2. \A x, y \in S : y \in below[x] <=> <<y, x>> \in R OBVIOUS
<1>3. \A x \in S : below[x] \subseteq S OBVIOUS
<1> HIDE DEF below, size
<1>4. sizes \in SUBSET Nat /\ sizes # {} BY <1>1
<1>5. PICK least \in sizes : \A n \in sizes : least <= n
  <2> HIDE DEF sizes
  <2> QED BY <1>4, LeastNat
<1>6. PICK m \in S : least = size[m] OBVIOUS
<1>7. ASSUME NEW x \in S, <<x, m>> \in R PROVE FALSE
  <2>1. below[x] \subseteq below[m]
    <3> SUFFICES ASSUME NEW y \in below[x] PROVE y \in below[m]
      OBVIOUS
    <3>1. y \in S /\ <<y, x>> \in R BY <1>2, <1>3
    <3> QED BY <1>2, <1>7, <3>1
  <2>2. x \in below[m] /\ x \notin below[x] BY <1>2, <1>7
  <2>3. size[m] <= size[x] BY <1>5, <1>6
  <2>4. /\ Cardinality(below[x]) <= Cardinality(below[m])
        /\ Cardinality(below[m]) = Cardinality(below[x]) => below[m] = below[x]
    BY <1>1, <2>1, FS_Subset
  <2>5. size[m] = size[x] BY <1>1, <2>3, <2>4
  <2> QED BY <1>1, <2>2, <2>4, <2>5
<1> QED BY <1>7

\* A ranking puts any two items into an order.
LEMMA PrecedesIsOrder ==
  ASSUME NEW D \in SUBSET Int, NEW score \in [D -> Int]
  PROVE  /\ \A i \in D : ~Precedes(score, i, i)
         /\ \A i, j, k \in D : Precedes(score, i, j) /\ Precedes(score, j, k) => Precedes(score, i, k)
         /\ \A i, j \in D : i = j \/ Precedes(score, i, j) \/ Precedes(score, j, i)
<1>1. \A i \in D : score[i] \in Int /\ i \in Int OBVIOUS
<1> QED BY <1>1 DEF Precedes

\* What sort and slice keep: at most Limit items, exactly Limit when any is cut,
\* and each of them precedes all that are cut.
LEMMA BestCorrect ==
  ASSUME NEW D \in SUBSET Int, NEW score \in [D -> Int],
         NEW items \in SUBSET D, IsFiniteSet(items)
  PROVE  /\ Best(items, score) \subseteq items
         /\ IsFiniteSet(Best(items, score))
         /\ Cardinality(Best(items, score)) \in Nat
         /\ Cardinality(Best(items, score)) <= Limit
         /\ items # Best(items, score) => Cardinality(Best(items, score)) = Limit
         /\ \A i \in Best(items, score), j \in items \ Best(items, score) : Precedes(score, i, j)
<1> DEFINE kept == Best(items, score)
           before(j) == {i \in items : Precedes(score, i, j)}
           order == {p \in D \X D : Precedes(score, p[1], p[2])}
           reverse == {p \in D \X D : Precedes(score, p[2], p[1])}
<1>1. Limit \in Nat /\ Limit > 0 BY RouteAssumption
<1>2. \A j : IsFiniteSet(before(j)) /\ Cardinality(before(j)) \in Nat
  BY FS_Subset, FS_CardinalityType
<1>3. \A j : j \in kept <=> j \in items /\ Cardinality(before(j)) < Limit BY DEF Best
<1>4. kept \subseteq items BY <1>3
<1>5. IsFiniteSet(kept) /\ Cardinality(kept) \in Nat BY <1>4, FS_Subset, FS_CardinalityType
<1> HIDE DEF kept
<1>6. Cardinality(kept) <= Limit
  <2>1. CASE kept = {} BY <1>1, <2>1, FS_EmptySet
  <2>2. CASE kept # {}
    <3>1. PICK m \in kept : \A i \in kept : <<i, m>> \notin reverse
      <4>1. \A i \in kept : <<i, i>> \notin reverse BY <1>4, PrecedesIsOrder
      <4>2. \A i, j, k \in kept :
              <<i, j>> \in reverse /\ <<j, k>> \in reverse => <<i, k>> \in reverse
        BY <1>4, PrecedesIsOrder
      <4> HIDE DEF reverse
      <4> QED BY <1>5, <2>2, <4>1, <4>2, FirstElement
    <3>2. kept \ {m} \subseteq before(m) BY <1>4, <3>1, PrecedesIsOrder
    <3>3. Cardinality(kept \ {m}) <= Cardinality(before(m))
      BY <1>2, <3>2, FS_Subset
    <3>4. Cardinality(kept \ {m}) = Cardinality(kept) - 1 BY <1>5, FS_RemoveElement
    <3>5. Cardinality(before(m)) < Limit BY <1>3
    <3> QED BY <1>1, <1>2, <1>5, <3>3, <3>4, <3>5
  <2> QED BY <2>1, <2>2
<1>7. ASSUME NEW i \in kept, NEW j \in items \ kept PROVE Precedes(score, i, j)
  <2>1. CASE Precedes(score, j, i)
    <3>1. before(j) \subseteq before(i) BY <1>4, <2>1, PrecedesIsOrder
    <3>2. Cardinality(before(j)) <= Cardinality(before(i)) BY <1>2, <3>1, FS_Subset
    <3>3. Cardinality(before(i)) < Limit /\ ~(Cardinality(before(j)) < Limit) BY <1>3
    <3> QED BY <1>1, <1>2, <3>2, <3>3
  <2>2. CASE ~Precedes(score, j, i) BY <1>4, <2>2, PrecedesIsOrder
  <2> QED BY <2>1, <2>2
<1>8. ASSUME items # kept PROVE Cardinality(kept) = Limit
  <2> DEFINE cut == items \ kept
  <2>1. cut # {} /\ IsFiniteSet(cut) /\ cut \subseteq D BY <1>4, <1>8, FS_Subset
  <2>2. PICK j \in cut : \A i \in cut : <<i, j>> \notin order
    <3>1. \A i \in D : <<i, i>> \notin order BY PrecedesIsOrder
    <3>2. \A i, k, l \in D :
            <<i, k>> \in order /\ <<k, l>> \in order => <<i, l>> \in order
      BY PrecedesIsOrder
    <3> HIDE DEF order, cut
    <3>3. /\ \A i \in cut : <<i, i>> \notin order
          /\ \A i, k, l \in cut :
               <<i, k>> \in order /\ <<k, l>> \in order => <<i, l>> \in order
      BY <2>1, <3>1, <3>2
    <3> QED BY <2>1, <3>3, FirstElement
  <2>3. before(j) \subseteq kept BY <2>2
  <2>4. Cardinality(before(j)) <= Cardinality(kept) BY <1>5, <2>3, FS_Subset
  <2>5. ~(Cardinality(before(j)) < Limit) BY <1>3
  <2> QED BY <1>1, <1>2, <1>5, <1>6, <2>4, <2>5
<1> QED BY <1>4, <1>5, <1>6, <1>7, <1>8 DEF kept

\* What the route answers a request for a kind.
Answered200(kind) ==
  LET articles == IF kind \in {"topic", "path"} THEN {} ELSE Containing("article")
      taxonomy == IF kind = "article" THEN {}
                  ELSE SearchCatalog("topic") \cup SearchCatalog("path")
  IN  Merged(articles, taxonomy)

\* The scores are those of the index, the results those of the request.
RouteInv ==
  /\ \E n \in Nat : index \in [1 .. n -> Item]
  /\ answer.status = 200 =>
       answer.kind \in SearchKinds \cup {"all"} /\ answer.results = Answered200(answer.kind)

\* The scores of the items, and what they say.
LEMMA ScoreFacts ==
  ASSUME RouteInv
  PROVE  /\ DOMAIN index \in SUBSET Int
         /\ IsFiniteSet(DOMAIN index)
         /\ CatalogScore \in [DOMAIN index -> Int]
         /\ ResultScore \in [DOMAIN index -> Int]
         /\ \A i \in DOMAIN index :
              /\ index[i] \in Item
              /\ CatalogScore[i] = IF index[i].in \in {"exact", "title"} THEN 2 ELSE 0
              /\ index[i].in = "exact" => ResultScore[i] = 3
              /\ index[i].in = "title" => ResultScore[i] = 2
              /\ index[i].in = "description" => ResultScore[i] = 1
              /\ index[i].in \in {"body", "across"} => ResultScore[i] = 0
<1>1. PICK n \in Nat : index \in [1 .. n -> Item] BY DEF RouteInv
<1>2. DOMAIN index = 1 .. n /\ \A i \in DOMAIN index : index[i] \in Item BY <1>1
<1>3. IsFiniteSet(1 .. n) BY FS_Interval
<1>4. \A i \in DOMAIN index : index[i].in \in {"exact", "title", "description", "body", "across"}
  BY <1>2 DEF Item
<1> DEFINE scores == [exact |-> 3, title |-> 2, description |-> 1, body |-> 0, across |-> 0]
<1>5. /\ scores["exact"] = 3 /\ scores["title"] = 2
      /\ scores["description"] = 1 /\ scores["body"] = 0 /\ scores["across"] = 0
  OBVIOUS
<1>6. ResultScore = [i \in DOMAIN index |-> scores[index[i].in]] BY DEF ResultScore
<1> HIDE DEF scores
<1>7. \A i \in DOMAIN index : ResultScore[i] = scores[index[i].in] BY <1>6
<1>8. \A i \in DOMAIN index :
        /\ index[i].in = "exact" => ResultScore[i] = 3
        /\ index[i].in = "title" => ResultScore[i] = 2
        /\ index[i].in = "description" => ResultScore[i] = 1
        /\ index[i].in \in {"body", "across"} => ResultScore[i] = 0
  BY <1>5, <1>7
<1>9. ResultScore \in [DOMAIN index -> Int] BY <1>4, <1>5, <1>6
<1>10. CatalogScore \in [DOMAIN index -> Int] BY DEF CatalogScore
<1>11. \A i \in DOMAIN index :
         CatalogScore[i] = IF index[i].in \in {"exact", "title"} THEN 2 ELSE 0
  BY DEF CatalogScore
<1> QED BY <1>2, <1>3, <1>8, <1>9, <1>10, <1>11

\* What searchCatalog cuts: Limit items of the same kind rank no lower in the route
\* either, or it is lost to the limit.
LEMMA CatalogCut ==
  ASSUME RouteInv, NEW kind \in {"topic", "path"},
         NEW j \in Containing(kind) \ SearchCatalog(kind), ~LostToLimit(j)
  PROVE  /\ SearchCatalog(kind) \subseteq Containing(kind)
         /\ IsFiniteSet(SearchCatalog(kind))
         /\ Cardinality(SearchCatalog(kind)) = Limit
         /\ \A i \in SearchCatalog(kind) : ResultScore[i] >= ResultScore[j]
<1> DEFINE found == Containing(kind)
           kept == SearchCatalog(kind)
           before == {i \in found : Precedes(CatalogScore, i, j)}
<1>1. /\ found \subseteq DOMAIN index /\ IsFiniteSet(found)
      /\ j \in found /\ j \in DOMAIN index /\ index[j].kind = kind
  BY ScoreFacts, FS_Subset DEF Containing
<1>2. /\ kept \subseteq found /\ IsFiniteSet(kept) /\ Cardinality(kept) = Limit
      /\ \A i \in kept : Precedes(CatalogScore, i, j)
  <2>1. kept = Best(found, CatalogScore) BY DEF SearchCatalog
  <2> HIDE DEF kept, found
  <2>2. j \in found \ kept BY DEF kept, found
  <2> QED BY <1>1, <2>1, <2>2, ScoreFacts, BestCorrect
<1>3. Cardinality(before) >= Limit
  <2>1. kept \subseteq before BY <1>2
  <2>2. IsFiniteSet(before) BY <1>1, FS_Subset
  <2>3. Cardinality(before) \in Nat /\ Cardinality(kept) <= Cardinality(before)
    BY <2>1, <2>2, FS_Subset, FS_CardinalityType
  <2> QED BY <1>2, <2>3, RouteAssumption
<1>4. \A i \in found : /\ CatalogScore[i] \in {0, 2}
                       /\ ResultScore[i] \in {0, 1, 2, 3}
                       /\ CatalogScore[i] = 2 <=> ResultScore[i] >= 2
  <2>1. \A i \in DOMAIN index : index[i].in \in {"exact", "title", "description", "body", "across"}
    BY ScoreFacts DEF Item
  <2> QED BY <1>1, <2>1, ScoreFacts
<1>5. ASSUME NEW i \in kept, ~(ResultScore[i] >= ResultScore[j]) PROVE FALSE
  <2>1. i \in found /\ Precedes(CatalogScore, i, j) BY <1>2
  <2>2. ResultScore[i] < ResultScore[j] BY <1>1, <1>4, <1>5, <2>1
  <2>3. ~(CatalogScore[i] > CatalogScore[j]) BY <1>1, <1>4, <2>1, <2>2
  <2>4. CatalogScore[i] = CatalogScore[j] /\ i < j BY <2>1, <2>3 DEF Precedes
  <2>5. LostToLimit(j) BY <1>1, <1>3, <2>1, <2>2, <2>4 DEF LostToLimit
  <2> QED BY <2>5
<1> QED BY <1>2, <1>5

\* The route's answer keeps the best of what is asked for.
LEMMA AnswerIsBest == RouteInv => BestResultsKept
<1> SUFFICES ASSUME RouteInv, answer.status = 200
             PROVE  /\ answer.results \subseteq Asked
                    /\ \A j \in Asked \ answer.results :
                         \/ LostToLimit(j)
                         \/ /\ Cardinality(answer.results) = Limit
                            /\ \A i \in answer.results : ResultScore[i] >= ResultScore[j]
  BY DEF BestResultsKept
<1> DEFINE kind == answer.kind
           articles == IF kind \in {"topic", "path"} THEN {} ELSE Containing("article")
           taxonomy == IF kind = "article" THEN {}
                       ELSE SearchCatalog("topic") \cup SearchCatalog("path")
           all == articles \cup taxonomy
           shown == answer.results
<1>1. kind \in SearchKinds \cup {"all"} /\ shown = Best(all, ResultScore)
  BY DEF RouteInv, Answered200, Merged
<1>2. \A k : SearchCatalog(k) \subseteq Containing(k) BY DEF SearchCatalog, Best
<1>3. \A k : Containing(k) \subseteq DOMAIN index BY DEF Containing
<1>4. Asked = IF kind = "article" THEN Containing("article")
              ELSE IF kind \in {"topic", "path"} THEN Containing("topic") \cup Containing("path")
              ELSE Containing("article") \cup Containing("topic") \cup Containing("path")
  BY DEF Asked, SearchKinds
<1>5. all \subseteq Asked BY <1>2, <1>4
<1>6. all \subseteq DOMAIN index /\ IsFiniteSet(all)
  <2>1. all \subseteq DOMAIN index BY <1>2, <1>3
  <2> HIDE DEF all
  <2> QED BY <2>1, ScoreFacts, FS_Subset
<1>7. \A j \in Asked \ all :
        \E k \in {"topic", "path"} :
          /\ j \in Containing(k) \ SearchCatalog(k)
          /\ SearchCatalog(k) \subseteq all
  BY <1>1, <1>4 DEF SearchKinds
<1> HIDE DEF all
<1>8. /\ shown \subseteq all /\ IsFiniteSet(shown) /\ Cardinality(shown) \in Nat
      /\ Cardinality(shown) <= Limit
      /\ all # shown => Cardinality(shown) = Limit
      /\ \A i \in shown, j \in all \ shown : Precedes(ResultScore, i, j)
  BY <1>1, <1>6, ScoreFacts, BestCorrect
<1>9. \A i \in DOMAIN index : ResultScore[i] \in Int BY ScoreFacts
<1>10. ASSUME NEW j \in all \ shown
       PROVE  /\ Cardinality(shown) = Limit
              /\ \A i \in shown : ResultScore[i] >= ResultScore[j]
  <2>1. all # shown BY <1>10
  <2>2. \A i \in shown : ResultScore[i] > ResultScore[j] \/ ResultScore[i] = ResultScore[j]
    BY <1>8 DEF Precedes
  <2>3. \A i \in shown : ResultScore[i] \in Int BY <1>6, <1>8, <1>9
  <2>4. ResultScore[j] \in Int BY <1>6, <1>9
  <2> QED BY <1>8, <2>1, <2>2, <2>3, <2>4
<1>11. ASSUME NEW j \in Asked \ all, ~LostToLimit(j)
       PROVE  /\ Cardinality(shown) = Limit
              /\ \A i \in shown : ResultScore[i] >= ResultScore[j]
  <2>1. PICK k \in {"topic", "path"} :
          j \in Containing(k) \ SearchCatalog(k) /\ SearchCatalog(k) \subseteq all
    BY <1>7
  <2> DEFINE better == SearchCatalog(k)
  <2>2. /\ IsFiniteSet(better) /\ Cardinality(better) = Limit /\ better \subseteq all
        /\ \A i \in better : ResultScore[i] >= ResultScore[j]
    BY <1>11, <2>1, CatalogCut
  <2> HIDE DEF better
  <2>3. ResultScore[j] \in Int /\ \A i \in all : ResultScore[i] \in Int
    BY <1>3, <1>6, <1>9, <2>1
  <2>4. ASSUME NEW i \in shown, ~(ResultScore[i] >= ResultScore[j]) PROVE FALSE
    <3> DEFINE before == {m \in all : Precedes(ResultScore, m, i)}
    <3>1. i \in all BY <1>8
    <3>2. \A m \in better : ResultScore[m] > ResultScore[i] BY <2>2, <2>3, <2>4, <3>1
    <3>3. better \subseteq before BY <2>2, <3>2 DEF Precedes
    <3>4. IsFiniteSet(before) BY <1>6, FS_Subset
    <3>5. Cardinality(before) < Limit BY <1>1 DEF Best
    <3> HIDE DEF before
    <3>6. Cardinality(before) \in Nat /\ Cardinality(better) <= Cardinality(before)
      BY <3>3, <3>4, FS_Subset, FS_CardinalityType
    <3> QED BY <2>2, <3>5, <3>6, RouteAssumption
  <2>5. Cardinality(shown) = Limit
    <3>1. CASE all = shown
      <4>1. Cardinality(better) <= Cardinality(shown) BY <1>8, <2>2, <3>1, FS_Subset
      <4> QED BY <1>8, <2>2, <4>1, RouteAssumption
    <3> QED BY <1>8, <3>1
  <2> QED BY <2>4, <2>5
<1> QED BY <1>5, <1>8, <1>10, <1>11

\* Answering keeps the invariant.
LEMMA RouteStepOK == RouteInv /\ [RouteNext]_routeVars => RouteInv'
<1> SUFFICES ASSUME RouteInv, [RouteNext]_routeVars PROVE RouteInv'
  OBVIOUS
<1>1. index' = index
  BY DEF RouteNext, GetResults, GetFails, SearchAgain, routeVars
<1>2. \E n \in Nat : index' \in [1 .. n -> Item] BY <1>1 DEF RouteInv
<1>3. \A kind : Answered200(kind)' = Answered200(kind)
  BY <1>1 DEF Answered200, Merged, SearchCatalog, Best, Precedes, Containing, CatalogScore, ResultScore
<1>4. ASSUME NEW kind \in SearchKinds \cup {"all"}, GetResults(kind) PROVE RouteInv'
  <2>1. answer' = [status |-> 200, kind |-> kind, results |-> Answered200(kind)]
    BY <1>4 DEF GetResults, Answered200
  <2> QED BY <1>2, <1>3, <2>1 DEF RouteInv
<1>5. CASE UNCHANGED routeVars \/ answer'.status # 200
  BY <1>2, <1>3, <1>5 DEF RouteInv, routeVars
<1>6. ASSUME NEW kind, GetFails(kind) \/ SearchAgain PROVE answer'.status # 200
  BY <1>6 DEF GetFails, SearchAgain, NoAnswer
<1> QED BY <1>4, <1>5, <1>6 DEF RouteNext

\* The two rankings agree, for any limit and any number of results.
THEOREM BestKeptCorrect == RouteSpec => []BestResultsKept
<1>1. RouteInit => RouteInv
  <2>1. MaxFound \in Nat BY RouteAssumption
  <2> QED BY <2>1 DEF RouteInit, RouteInv, NoAnswer
<1> QED BY <1>1, RouteStepOK, AnswerIsBest, PTL DEF RouteSpec

-----------------------------------------------------------------------------
(***************************************************************************)
(* PublicArticle.                                                          *)
(***************************************************************************)

Revisions == Nat \ {0}
PublicFetch == [for: Parts \cup {"cache"}, read: Revisions \cup {Unread, NotFound, Unreadable}]

PublicTypeOK ==
  /\ publications \in Nat
  /\ archived \in BOOLEAN
  /\ readable \in BOOLEAN
  /\ entry \in Nat \cup {Unreadable}
  /\ stale \in BOOLEAN
  /\ fetches \subseteq PublicFetch
  /\ view \in [metadata: Revisions \cup {NotFound, Waiting, Error},
               body: Revisions \cup {NotFound, Waiting, Error},
               moved: BOOLEAN, wasPublic: BOOLEAN]

\* A part of the page waits for its fetch, and has at most one.
FetchesAwaited ==
  /\ \A f \in fetches : f.for \in Parts => view[f.for] = Waiting
  /\ \A f, g \in fetches : f.for \in Parts /\ f.for = g.for => f = g

\* As long as nothing has moved, what a part shows is the cache's entry, and who
\* had to fetch found no entry.
ShowsEntry ==
  ~view.moved =>
    /\ \A p \in Parts : view[p] >= NotFound => view[p] = entry
    /\ \A f \in fetches : f.for \in Parts => entry = 0

\* A public article stays published; the body's fetch finds it missing only after
\* it was archived.
MissingIsArchived ==
  view.wasPublic =>
    /\ publications # 0
    /\ \A f \in fetches : f.for = "body" /\ f.read = NotFound => archived
    /\ view.body = NotFound => archived

PublicInv == PublicTypeOK /\ FetchesAwaited /\ ShowsEntry /\ MissingIsArchived


\* A view that nobody has answered yet satisfies the invariant.
LEMMA PublicInitOK == PublicInit => PublicInv
<1> SUFFICES ASSUME PublicInit PROVE PublicInv
  OBVIOUS
<1> USE DEF Parts, Revisions, Waiting, NotFound, Error
<1>1. IsPublic \in BOOLEAN BY DEF PublicInit, IsPublic
<1>2. /\ view = [metadata |-> -1, body |-> -1, moved |-> FALSE, wasPublic |-> IsPublic]
      /\ fetches = {}
  BY DEF PublicInit, NewView
<1>3. \A p \in Parts : view[p] = -1 BY <1>2
<1>4. PublicTypeOK
  <2>1. MaxPublications \in Nat BY PublicAssumption
  <2>2. publications \in Nat BY <2>1 DEF PublicInit
  <2>3. archived \in BOOLEAN /\ readable \in BOOLEAN /\ stale \in BOOLEAN /\ entry \in Nat
    BY DEF PublicInit
  <2>4. view \in [metadata: Revisions \cup {NotFound, Waiting, Error},
                 body: Revisions \cup {NotFound, Waiting, Error},
                 moved: BOOLEAN, wasPublic: BOOLEAN]
    BY <1>1, <1>2
  <2> QED BY <1>2, <2>2, <2>3, <2>4 DEF PublicTypeOK
<1>5. FetchesAwaited BY <1>2 DEF FetchesAwaited
<1>6. ShowsEntry BY <1>2, <1>3 DEF ShowsEntry
<1>7. MissingIsArchived
  <2>1. view.wasPublic = IsPublic /\ view.body = -1 BY <1>2
  <2>2. IsPublic => publications # 0 BY DEF IsPublic
  <2> QED BY <1>2, <2>1, <2>2 DEF MissingIsArchived
<1> QED BY <1>4, <1>5, <1>6, <1>7 DEF PublicInv

\* What the API and the clock do keeps it: the view knows that something moved.
LEMMA SourceKeeps ==
  ASSUME PublicInv, PublishArticle \/ ArchiveArticle \/ ReleaseApi \/ Expire
  PROVE  PublicInv'
<1> USE DEF PublicInv, Parts, Waiting, NotFound, Error, Unreadable, Revisions
<1>1. CASE PublishArticle \/ ArchiveArticle
  <2>1. /\ view' = [view EXCEPT !.moved = TRUE]
        /\ publications' \in {publications, publications + 1}
        /\ archived => archived'
        /\ archived' \in BOOLEAN
        /\ UNCHANGED <<readable, entry, stale, fetches>>
    BY <1>1 DEF PublishArticle, ArchiveArticle, Moved, PublicTypeOK
  <2>2. /\ view'.moved /\ view'.wasPublic = view.wasPublic
        /\ \A p \in Parts : view'[p] = view[p]
        /\ view'.body = view.body
    BY <2>1 DEF PublicTypeOK
  <2>3. PublicTypeOK'
    <3>1. view' \in [metadata: Revisions \cup {NotFound, Waiting, Error},
                    body: Revisions \cup {NotFound, Waiting, Error},
                    moved: BOOLEAN, wasPublic: BOOLEAN]
      BY <2>1 DEF PublicTypeOK
    <3>2. publications' \in Nat BY <2>1 DEF PublicTypeOK
    <3> QED BY <2>1, <3>1, <3>2 DEF PublicTypeOK
  <2>4. FetchesAwaited' BY <2>1, <2>2 DEF FetchesAwaited
  <2>5. ShowsEntry' BY <2>2 DEF ShowsEntry
  <2>6. MissingIsArchived' BY <2>1, <2>2 DEF MissingIsArchived, PublicTypeOK
  <2> QED BY <2>3, <2>4, <2>5, <2>6
<1>2. CASE Expire
  BY <1>2
     DEF Expire, StaleAfter, PublicTypeOK, FetchesAwaited, ShowsEntry, MissingIsArchived
<1>3. CASE ReleaseApi
  BY <1>3 DEF ReleaseApi, PublicTypeOK, FetchesAwaited, ShowsEntry, MissingIsArchived
<1> QED BY <1>1, <1>2, <1>3

\* A call keeps it: it shows the entry, or fetches because there is none.
LEMMA CallKeeps ==
  ASSUME PublicInv, NEW part \in Parts, Call(part)
  PROVE  PublicInv'
<1> USE DEF PublicInv, Parts, Waiting, NotFound, Error, Unreadable, Revisions, Unread
<1>1. \A for \in Parts \cup {"cache"} : [for |-> for, read |-> Unread] \in PublicFetch
  BY DEF PublicFetch
<1>2. CASE entry # 0
  <2>1. /\ view' = [view EXCEPT ![part] = Parsed(entry)]
        /\ UNCHANGED <<publications, archived, readable, entry, stale>>
        /\ fetches' = fetches \/ fetches' = fetches \cup {[for |-> "cache", read |-> Unread]}
    BY <1>2 DEF Call, Cached, Fetch
  <2>2. view[part] = Waiting /\ \A f \in fetches : f.for # part BY DEF Call
  <2> DEFINE parsed == Parsed(entry)
  <2>7. parsed = Error \/ (parsed = entry /\ parsed \in Nat \ {0})
    BY <1>2 DEF Parsed, PublicTypeOK
  <2>8. view' = [view EXCEPT ![part] = parsed] BY <2>1
  <2> HIDE DEF parsed
  <2>3. PublicTypeOK' BY <1>1, <1>2, <2>1, <2>7, <2>8 DEF PublicTypeOK
  <2>4. FetchesAwaited' BY <2>1, <2>2 DEF FetchesAwaited, PublicTypeOK, PublicFetch
  <2>5. ShowsEntry' BY <1>2, <2>1, <2>2, <2>7, <2>8 DEF ShowsEntry, PublicTypeOK
  <2>6. MissingIsArchived' BY <1>2, <2>1, <2>7, <2>8 DEF MissingIsArchived, PublicTypeOK
  <2> QED BY <2>3, <2>4, <2>5, <2>6
<1>3. CASE entry = 0
  <2>1. /\ fetches' = fetches \cup {[for |-> part, read |-> Unread]}
        /\ UNCHANGED <<publications, archived, readable, entry, stale, view>>
    BY <1>3 DEF Call, Cached, Fetch
  <2>2. view[part] = Waiting /\ \A f \in fetches : f.for # part BY DEF Call
  <2>3. PublicTypeOK' BY <1>1, <2>1 DEF PublicTypeOK
  <2>4. FetchesAwaited' BY <2>1, <2>2 DEF FetchesAwaited
  <2>5. ShowsEntry' BY <1>3, <2>1, <2>2 DEF ShowsEntry, PublicTypeOK
  <2>6. MissingIsArchived' BY <2>1 DEF MissingIsArchived
  <2> QED BY <2>3, <2>4, <2>5, <2>6
<1> QED BY <1>2, <1>3

\* The API's answer keeps it: it misses an article that was public only when
\* that is archived.
LEMMA ApiReadsKeeps ==
  ASSUME PublicInv, NEW f \in fetches, ApiReads(f)
  PROVE  PublicInv'
<1> USE DEF PublicInv, Parts, Waiting, NotFound, Error, Unreadable, Revisions, Unread
<1> DEFINE new == [f EXCEPT !.read = IF ~IsPublic THEN NotFound
                                     ELSE IF readable THEN publications ELSE Unreadable]
<1>1. /\ fetches' = (fetches \ {f}) \cup {new}
      /\ UNCHANGED <<publications, archived, readable, entry, stale, view>>
  BY DEF ApiReads
<1>2. f \in PublicFetch BY DEF PublicTypeOK
<1>3. new \in PublicFetch /\ new.for = f.for
  BY <1>2 DEF PublicFetch, PublicTypeOK, IsPublic
<1>4. new.read = NotFound => publications = 0 \/ archived
  BY <1>2 DEF PublicFetch, PublicTypeOK, IsPublic
<1> HIDE DEF new
<1>5. PublicTypeOK' BY <1>1, <1>3 DEF PublicTypeOK
<1>6. FetchesAwaited' BY <1>1, <1>3 DEF FetchesAwaited
<1>7. ShowsEntry' BY <1>1, <1>3 DEF ShowsEntry
<1>8. MissingIsArchived' BY <1>1, <1>3, <1>4 DEF MissingIsArchived
<1> QED BY <1>5, <1>6, <1>7, <1>8

\* The end of a fetch keeps it: the entry changes with it, or something moved.
LEMMA FetchEndKeeps ==
  ASSUME PublicInv, NEW f \in fetches, Found(f) \/ NotPublic(f) \/ FetchFails(f)
  PROVE  PublicInv'
<1> USE DEF PublicInv, Parts, Waiting, NotFound, Error, Unreadable, Revisions, Unread
<1>1. f \in PublicFetch BY DEF PublicTypeOK
<1>2. fetches' = fetches \ {f} /\ UNCHANGED <<publications, archived, readable>>
  BY DEF Found, NotPublic, FetchFails
<1>3. PICK value \in Revisions \cup {NotFound, Error} :
        /\ view' = IF f.for \in Parts
                     THEN [view EXCEPT ![f.for] = value, !.moved = view'.moved]
                     ELSE [view EXCEPT !.moved = view'.moved]
        /\ view'.moved \in BOOLEAN
        /\ view.moved \/ entry' # entry => view'.moved
        /\ entry' \in Nat \cup {Unreadable}
        /\ stale' \in BOOLEAN
        /\ value > 0 => entry' = value
        /\ value = NotFound => f.read = NotFound
  <2>1. ASSUME NEW value, NEW moved \in BOOLEAN, Return(f, value, moved)
        PROVE  /\ view' = IF f.for \in Parts
                            THEN [view EXCEPT ![f.for] = value, !.moved = view'.moved]
                            ELSE [view EXCEPT !.moved = view'.moved]
               /\ view'.moved \in BOOLEAN
               /\ view.moved \/ moved => view'.moved
    BY <2>1, <1>1 DEF Return, PublicTypeOK, PublicFetch
  <2>2. CASE Found(f)
    <3> DEFINE parsed == Parsed(f.read)
    <3>1. /\ f.read \in Revisions \cup {Unreadable} /\ entry' = f.read /\ stale' = FALSE
          /\ Return(f, parsed, f.read # entry)
      BY <1>1, <2>2 DEF Found, PublicFetch
    <3>2. (f.read # entry) \in BOOLEAN OBVIOUS
    <3>3. parsed = Error \/ (parsed = f.read /\ parsed \in Revisions)
      BY <3>1 DEF Parsed
    <3> HIDE DEF parsed
    <3>4. /\ view' = IF f.for \in Parts
                       THEN [view EXCEPT ![f.for] = parsed, !.moved = view'.moved]
                       ELSE [view EXCEPT !.moved = view'.moved]
          /\ view'.moved \in BOOLEAN
          /\ view.moved \/ entry' # entry => view'.moved
      BY <2>1, <3>1, <3>2
    <3>5. entry' \in Nat \cup {Unreadable} /\ stale' \in BOOLEAN BY <3>1
    <3>6. /\ parsed \in Revisions \cup {NotFound, Error}
          /\ parsed > 0 => entry' = parsed
          /\ parsed = NotFound => f.read = NotFound
      BY <3>1, <3>3
    <3> HIDE <2>1
    <3> QED BY <3>4, <3>5, <3>6, Zenon
  <2>3. CASE NotPublic(f)
    <3>1. /\ f.read = NotFound /\ entry' \in {entry, 0}
          /\ stale' = (stale /\ entry' # 0)
          /\ Return(f, NotFound, entry' # entry)
      BY <2>3 DEF NotPublic
    <3>2. (entry' # entry) \in BOOLEAN /\ stale' \in BOOLEAN BY <3>1
    <3>3. entry' \in Nat \cup {Unreadable} BY <3>1 DEF PublicTypeOK
    <3>4. /\ view' = IF f.for \in Parts
                       THEN [view EXCEPT ![f.for] = NotFound, !.moved = view'.moved]
                       ELSE [view EXCEPT !.moved = view'.moved]
          /\ view'.moved \in BOOLEAN
          /\ view.moved \/ entry' # entry => view'.moved
      BY <2>1, <3>1, <3>2
    <3> HIDE <2>1
    <3>5. /\ NotFound \in Revisions \cup {NotFound, Error}
          /\ NotFound > 0 => entry' = NotFound
          /\ NotFound = NotFound => f.read = NotFound
      BY <3>1
    <3> QED BY <3>2, <3>3, <3>4, <3>5, Zenon
  <2>4. CASE FetchFails(f)
    <3>1. UNCHANGED <<entry, stale>> /\ Return(f, Error, FALSE)
      BY <2>4 DEF FetchFails, Unavailable
    <3>2. entry' \in Nat \cup {Unreadable} /\ stale' \in BOOLEAN BY <3>1 DEF PublicTypeOK
    <3>3. /\ view' = IF f.for \in Parts
                       THEN [view EXCEPT ![f.for] = Error, !.moved = view'.moved]
                       ELSE [view EXCEPT !.moved = view'.moved]
          /\ view'.moved \in BOOLEAN
          /\ view.moved => view'.moved
      BY <2>1, <3>1
    <3>4. /\ Error \in Revisions \cup {NotFound, Error}
          /\ Error > 0 => entry' = Error
          /\ Error = NotFound => f.read = NotFound
      OBVIOUS
    <3>5. entry' = entry BY <3>1
    <3> HIDE <2>1
    <3> QED BY <3>2, <3>3, <3>4, <3>5, Zenon
  <2> QED BY <2>2, <2>3, <2>4
<1>4. /\ view'.wasPublic = view.wasPublic
      /\ \A p \in Parts : view'[p] = IF f.for = p THEN value ELSE view[p]
      /\ view'.body = IF f.for = "body" THEN value ELSE view.body
  BY <1>3 DEF PublicTypeOK
<1>5. PublicTypeOK'
  <2>1. view' \in [metadata: Revisions \cup {NotFound, Waiting, Error},
                  body: Revisions \cup {NotFound, Waiting, Error},
                  moved: BOOLEAN, wasPublic: BOOLEAN]
    BY <1>3 DEF PublicTypeOK
  <2> QED BY <1>2, <1>3, <2>1 DEF PublicTypeOK
<1>6. FetchesAwaited' BY <1>2, <1>4 DEF FetchesAwaited
<1>7. ShowsEntry'
  <2> SUFFICES ASSUME ~view'.moved
               PROVE  /\ \A p \in Parts : view'[p] >= NotFound => view'[p] = entry'
                      /\ \A g \in fetches' : g.for \in Parts => entry' = 0
    BY DEF ShowsEntry
  <2>1. ~view.moved /\ entry' = entry BY <1>3, <1>4
  <2>2. \A p \in Parts : view[p] >= NotFound => view[p] = entry BY <2>1 DEF ShowsEntry
  <2>3. \A g \in fetches : g.for \in Parts => entry = 0 BY <2>1 DEF ShowsEntry
  <2>4. ASSUME NEW p \in Parts, view'[p] >= NotFound PROVE view'[p] = entry'
    <3>1. CASE f.for = p
      <4>1. view'[p] = value /\ value \in Nat BY <1>4, <2>4, <3>1
      <4>2. CASE value > 0 BY <1>3, <4>1, <4>2
      <4>3. CASE value = 0 BY <2>1, <2>3, <3>1, <4>1, <4>3
      <4> QED BY <4>1, <4>2, <4>3
    <3>2. CASE f.for # p BY <1>4, <2>1, <2>2, <2>4, <3>2
    <3> QED BY <3>1, <3>2
  <2> QED BY <1>2, <2>1, <2>3, <2>4
<1>8. MissingIsArchived' BY <1>2, <1>3, <1>4 DEF MissingIsArchived
<1> QED BY <1>5, <1>6, <1>7, <1>8

\* The next view keeps it: it starts with no fetch of its own in flight.
LEMMA VisitAgainKeeps ==
  ASSUME PublicInv, VisitAgain
  PROVE  PublicInv'
<1> USE DEF PublicInv, Parts, Waiting, NotFound, Error, Unreadable, Revisions, Unread
<1>1. /\ view' = NewView(IsPublic)
      /\ UNCHANGED <<publications, archived, readable, entry, stale, fetches>>
      /\ view.metadata # Waiting /\ view.body # Waiting
  BY DEF VisitAgain
<1>2. \A f \in fetches : f.for \notin Parts
  BY <1>1 DEF FetchesAwaited
<1>3. IsPublic \in BOOLEAN BY DEF IsPublic, PublicTypeOK
<1>4. PublicTypeOK' BY <1>1, <1>3 DEF PublicTypeOK, NewView
<1>5. FetchesAwaited' BY <1>1, <1>2 DEF FetchesAwaited
<1>6. ShowsEntry' BY <1>1, <1>2 DEF ShowsEntry, NewView
<1>7. MissingIsArchived'
  <2>1. view'.wasPublic = IsPublic /\ view'.body = -1 BY <1>1 DEF NewView
  <2>2. IsPublic => publications' # 0 BY <1>1 DEF IsPublic
  <2> QED BY <1>1, <1>2, <2>1, <2>2 DEF MissingIsArchived
<1> QED BY <1>4, <1>5, <1>6, <1>7

\* Every step keeps the invariant.
LEMMA PublicStepOK == PublicInv /\ [PublicNext]_publicVars => PublicInv'
<1>1. PublicInv /\ UNCHANGED publicVars => PublicInv'
  BY DEF PublicInv, PublicTypeOK, FetchesAwaited, ShowsEntry, MissingIsArchived, publicVars
<1> QED
  BY <1>1, SourceKeeps, CallKeeps, ApiReadsKeeps, FetchEndKeeps, VisitAgainKeeps
     DEF PublicNext, Visit

\* The inductive invariant of the page, its cache and the fetches between them.
THEOREM PublicInvariance == PublicSpec => []PublicInv
BY PublicInitOK, PublicStepOK, PTL DEF PublicSpec

\* Title and body are of one revision unless something changed between the two
\* calls, for any number of publications and overlapping fetches.
THEOREM OneRevisionCorrect == PublicSpec => []PageIsOneRevision
<1>1. PublicInv => PageIsOneRevision
  BY DEF PublicInv, ShowsEntry, PageIsOneRevision, Parts
<1> QED BY <1>1, PublicInvariance, PTL

\* "Not found" is said of a public article only when it is taken down.
THEOREM NotFoundCorrect == PublicSpec => []NotFoundIsTrue
<1>1. PublicInv => NotFoundIsTrue
  BY DEF PublicInv, MissingIsArchived, NotFoundIsTrue
<1> QED BY <1>1, PublicInvariance, PTL

-----------------------------------------------------------------------------
(***************************************************************************)
(* AuthSession.                                                            *)
(***************************************************************************)

Panels == [me: {"asked", "answered", "done"}, answer: Emails \cup {NoOne},
           account: Emails \cup {NoOne}, error: BOOLEAN, overtaken: BOOLEAN]
CallRecords == [kind: {"none", "create", "login", "logout"}, registering: BOOLEAN,
                email: Emails \cup {NoOne}, made: BOOLEAN,
                answer: {"none", "ok", "exists", "refused"}, mounted: BOOLEAN]

AuthTypeOK ==
  /\ accounts \subseteq Emails
  /\ session \in accounts \cup {NoOne}
  /\ place \in Places
  /\ leaving \in Places \cup {Stay}
  /\ formError \in {"", "exists", "failed", "refused"}
  /\ panel \in Panels

\* A call and the page: the form's are of a page that has been left or of the form
\* that is shown, and the sign-in of a registration is the second half of one that
\* made the account.
CallFits(call, there) ==
  /\ call \in CallRecords
  /\ call.mounted => call.kind # "none"
  /\ call.mounted /\ call.kind # "logout" => there \in Forms
  /\ call.kind \in {"create", "login"} => call.email \in Emails
  /\ call.kind = "create" /\ call.answer = "ok" => call.made
  /\ call.kind = "login" /\ call.registering => call.made
  /\ call.answer \in {"exists", "refused"} => call.kind \in {"create", "login"}
  /\ call.registering => call.kind \in {"create", "login"}

\* The page that is shown waits for one call at most.
CallsOK ==
  /\ calls \in [Slots -> CallRecords]
  /\ \A s \in Slots : CallFits(calls[s], place)
  /\ \A s, t \in Slots : calls[s].mounted /\ calls[t].mounted => s = t

\* The account is shown where it belongs and after its call, and only then signed
\* out; an answer that is not shown yet agrees with the session or was overtaken.
PanelOK ==
  /\ panel.me # "asked" => place = "account"
  /\ panel.account # NoOne => panel.me = "done"
  /\ panel.me = "answered" => panel.answer = session \/ panel.overtaken
  /\ \A s \in Slots : calls[s].mounted /\ calls[s].kind = "logout" => panel.account # NoOne

AuthInv == AuthTypeOK /\ CallsOK /\ PanelOK /\ ShownIsSignedIn

\* The first page satisfies the invariant.
LEMMA AuthInitOK == AuthInit => AuthInv
<1> SUFFICES ASSUME AuthInit PROVE AuthInv
  OBVIOUS
<1>1. AuthTypeOK BY DEF AuthInit, AuthTypeOK, Panels, FreshPanel, Places, Forms, Stay
<1>2. FreeSlot \in CallRecords BY DEF FreeSlot, CallRecords
<1>3. CallsOK BY <1>2 DEF AuthInit, CallsOK, CallFits, FreeSlot
<1>4. PanelOK BY DEF AuthInit, PanelOK, FreshPanel, FreeSlot
<1>5. ShownIsSignedIn BY DEF AuthInit, ShownIsSignedIn, FreshPanel
<1> QED BY <1>1, <1>3, <1>4, <1>5 DEF AuthInv

\* A page that is mounted starts over, with no account shown and no call to wait
\* for.
LEMMA MountKeeps ==
  ASSUME AuthInv, NEW there \in Places, Mount(there), UNCHANGED <<accounts, session>>
  PROVE  AuthInv'
<1> USE DEF AuthInv, Mount
<1>1. AuthTypeOK' BY DEF AuthTypeOK, Panels, FreshPanel, Stay
<1>2. CallsOK'
  <2>1. \A s \in Slots : /\ calls'[s] = [calls[s] EXCEPT !.mounted = FALSE]
                         /\ calls[s] \in CallRecords
    BY DEF CallsOK
  <2>2. \A s \in Slots : calls'[s] \in CallRecords /\ ~calls'[s].mounted
    BY <2>1 DEF CallRecords
  <2>3. calls' \in [Slots -> CallRecords]
    <3>1. calls' = [s \in Slots |-> calls'[s]] BY <2>1
    <3> QED BY <2>2, <3>1
  <2>4. ASSUME NEW s \in Slots PROVE CallFits(calls'[s], place')
    <3>1. CallFits(calls[s], place) BY DEF CallsOK
    <3>2. /\ calls'[s].kind = calls[s].kind /\ calls'[s].email = calls[s].email
          /\ calls'[s].answer = calls[s].answer /\ calls'[s].made = calls[s].made
          /\ calls'[s].registering = calls[s].registering
      BY <2>1 DEF CallRecords
    <3> QED BY <2>2, <3>1, <3>2 DEF CallFits
  <2> QED BY <2>2, <2>3, <2>4 DEF CallsOK
<1>3. PanelOK'
  <2>1. \A s \in Slots : ~calls'[s].mounted
    <3>1. \A s \in Slots : calls[s] \in CallRecords BY DEF CallsOK
    <3> QED BY <3>1 DEF CallRecords
  <2> QED BY <2>1 DEF PanelOK, FreshPanel
<1>4. ShownIsSignedIn' BY DEF ShownIsSignedIn, FreshPanel
<1> QED BY <1>1, <1>2, <1>3, <1>4

\* One call changes, on the page that is shown or behind it.
LEMMA SlotKeeps ==
  ASSUME AuthInv, NEW s \in Slots, NEW call, CallFits(call, place),
         call.mounted => calls[s].mounted \/ ~Busy,
         call.mounted /\ call.kind = "logout" => panel.account # NoOne,
         calls' = [calls EXCEPT ![s] = call], place' = place
  PROVE  /\ CallsOK'
         /\ call.mounted => Busy'
         /\ call.mounted = calls[s].mounted => Busy' = Busy
         /\ \A t \in Slots : calls'[t].mounted /\ calls'[t].kind = "logout" =>
              panel.account # NoOne
<1> USE DEF AuthInv, CallsOK
<1>1. /\ calls'[s] = call
      /\ \A t \in Slots : t # s => calls'[t] = calls[t]
      /\ call \in CallRecords
      /\ calls' \in [Slots -> CallRecords]
  BY DEF CallFits
<1>2. \A t \in Slots : CallFits(calls'[t], place') BY <1>1
<1>3. ASSUME NEW t \in Slots, NEW u \in Slots, calls'[t].mounted, calls'[u].mounted
      PROVE  t = u
  BY <1>1, <1>3 DEF Busy
<1>4. CallsOK' BY <1>1, <1>2, <1>3
<1>5. call.mounted => Busy' BY <1>1 DEF Busy
<1>6. call.mounted = calls[s].mounted => Busy' = Busy
  <2> SUFFICES ASSUME call.mounted = calls[s].mounted PROVE Busy' = Busy
    OBVIOUS
  <2>1. \A t \in Slots : calls'[t].mounted = calls[t].mounted BY <1>1
  <2> QED BY <2>1 DEF Busy
<1>7. \A t \in Slots : calls'[t].mounted /\ calls'[t].kind = "logout" =>
        panel.account # NoOne
  BY <1>1 DEF PanelOK
<1> QED BY <1>4, <1>5, <1>6, <1>7

\* A slot that is freed was the only one that the page waited for, or is none of
\* the page's.
LEMMA FreeKeeps ==
  ASSUME AuthInv, NEW s \in Slots, Free(s), place' = place
  PROVE  /\ CallsOK'
         /\ ~calls[s].mounted => Busy' = Busy
         /\ \A t \in Slots : calls'[t].mounted /\ calls'[t].kind = "logout" =>
              panel.account # NoOne
<1>1. CallFits(FreeSlot, place) BY DEF CallFits, FreeSlot, CallRecords
<1>2. FreeSlot.mounted = FALSE BY DEF FreeSlot
<1>3. calls[s].mounted \in BOOLEAN BY DEF AuthInv, CallsOK, CallRecords
<1> QED BY <1>1, <1>2, <1>3, SlotKeeps DEF Free

\* Another tab keeps it: it overtakes what the panel shows.
LEMMA OtherTabKeeps ==
  ASSUME AuthInv, OtherTab
  PROVE  AuthInv'
<1> USE DEF AuthInv, OtherTab
<1>1. AuthTypeOK'
  <2>1. accounts' \subseteq Emails BY DEF AuthTypeOK
  <2> QED BY <2>1 DEF AuthTypeOK, Panels
<1>2. CallsOK' BY DEF CallsOK
<1>3. PanelOK' /\ ShownIsSignedIn' BY DEF AuthTypeOK, Panels, PanelOK, ShownIsSignedIn
<1> QED BY <1>1, <1>2, <1>3

\* The page that waits for a call: a form shows no account, and the account page
\* one that is there to be signed out.
LEMMA WaitingPage ==
  ASSUME AuthInv, NEW s \in Slots, calls[s].mounted
  PROVE  /\ Busy
         /\ panel.me # "answered"
         /\ calls[s].kind # "logout" => panel.account = NoOne
<1> USE DEF AuthInv
<1>1. Busy BY DEF Busy
<1>2. CASE calls[s].kind = "logout"
  <2>1. panel.account # NoOne BY <1>2 DEF PanelOK
  <2>2. panel.me = "done" BY <2>1 DEF PanelOK
  <2> QED BY <1>1, <1>2, <2>2
<1>3. CASE calls[s].kind # "logout"
  <2>1. place \in Forms BY <1>3 DEF CallsOK, CallFits
  <2>2. panel.me = "asked" BY <2>1 DEF PanelOK, Forms
  <2> QED BY <1>1, <2>2 DEF PanelOK
<1> QED BY <1>2, <1>3

\* The call that the API has answered still fits its page.
LEMMA ApiAnswerFits ==
  ASSUME AuthInv, NEW s \in Slots, ApiStep(s)
  PROVE  \E call : /\ calls' = [calls EXCEPT ![s] = call]
                   /\ CallFits(call, place)
                   /\ call.mounted = calls[s].mounted
                   /\ call.kind = calls[s].kind
<1>1. CallFits(calls[s], place) /\ calls[s] \in CallRecords BY DEF AuthInv, CallsOK
<1>2. ASSUME NEW reply \in {"ok", "exists", "refused"}, NEW made \in BOOLEAN,
             calls' = [calls EXCEPT ![s] = [calls[s] EXCEPT !.answer = reply, !.made = made]],
             calls[s].kind = "create" /\ reply = "ok" => made,
             reply # "ok" => calls[s].kind \in {"create", "login"},
             calls[s].made => made
      PROVE  \E call : /\ calls' = [calls EXCEPT ![s] = call]
                       /\ CallFits(call, place)
                       /\ call.mounted = calls[s].mounted
                       /\ call.kind = calls[s].kind
  <2> DEFINE call == [calls[s] EXCEPT !.answer = reply, !.made = made]
  <2>1. call \in CallRecords BY <1>1 DEF CallRecords
  <2>2. /\ call.kind = calls[s].kind /\ call.email = calls[s].email
        /\ call.registering = calls[s].registering /\ call.made = made
        /\ call.mounted = calls[s].mounted /\ call.answer = reply
    BY <1>1 DEF CallRecords
  <2>3. calls' = [calls EXCEPT ![s] = call] BY <1>2
  <2> HIDE DEF call
  <2>4. CallFits(call, place) BY <1>1, <1>2, <2>1, <2>2 DEF CallFits
  <2> QED BY <2>2, <2>3, <2>4
<1>3. ASSUME NEW reply \in {"ok", "exists", "refused"}, ApiAnswers(s, reply)
      PROVE  calls' = [calls EXCEPT ![s] = [calls[s] EXCEPT !.answer = reply,
                                                            !.made = calls[s].made]]
  BY <1>1, <1>3 DEF ApiAnswers, AuthInv, CallsOK, CallRecords
<1>4. calls[s].made \in BOOLEAN BY <1>1 DEF CallRecords
<1>5. CASE ApiCreates(s)
  <2>1. CASE ApiAnswers(s, "exists") BY <1>2, <1>3, <1>4, <1>5, <2>1 DEF ApiCreates
  <2>2. CASE calls' = [calls EXCEPT ![s].answer = "ok", ![s].made = TRUE]
    <3>1. calls' = [calls EXCEPT ![s] = [calls[s] EXCEPT !.answer = "ok", !.made = TRUE]]
      BY <2>2 DEF AuthInv, CallsOK
    <3> QED BY <1>2, <3>1
  <2> QED BY <1>5, <2>1, <2>2 DEF ApiCreates
<1>6. CASE ApiSignsIn(s)
  <2>1. CASE ApiAnswers(s, "ok") BY <1>2, <1>3, <1>4, <1>6, <2>1 DEF ApiSignsIn
  <2>2. CASE ApiAnswers(s, "refused") BY <1>2, <1>3, <1>4, <1>6, <2>2 DEF ApiSignsIn
  <2> QED BY <1>6, <2>1, <2>2 DEF ApiSignsIn
<1>7. CASE ApiSignsOut(s) BY <1>2, <1>3, <1>4, <1>7 DEF ApiSignsOut
<1> QED BY <1>5, <1>6, <1>7 DEF ApiStep

\* The API's steps keep it: what they change behind the page is overtaken, and
\* on the account page only a sign-out is waited for.
LEMMA ApiKeeps ==
  ASSUME AuthInv, NEW s \in Slots, ApiStep(s)
  PROVE  AuthInv'
<1> USE DEF AuthInv
<1>1. CallFits(calls[s], place) /\ calls[s] \in CallRecords BY DEF CallsOK
<1>2. UNCHANGED <<place, leaving, formError>>
  BY DEF ApiStep, ApiCreates, ApiSignsIn, ApiSignsOut
<1>3. /\ CallsOK'
      /\ Busy' = Busy
      /\ \A t \in Slots : calls'[t].mounted /\ calls'[t].kind = "logout" =>
           panel.account # NoOne
  <2>1. PICK call : /\ calls' = [calls EXCEPT ![s] = call]
                    /\ CallFits(call, place)
                    /\ call.mounted = calls[s].mounted
                    /\ call.kind = calls[s].kind
    BY ApiAnswerFits
  <2>2. call.mounted => calls[s].mounted \/ ~Busy BY <2>1
  <2>3. call.mounted /\ call.kind = "logout" => panel.account # NoOne BY <2>1 DEF PanelOK
  <2> QED BY <1>2, <2>1, <2>2, <2>3, SlotKeeps
<1>4. /\ accounts' \subseteq Emails
      /\ session' \in accounts' \cup {NoOne}
      /\ \/ panel' = panel /\ session' = session
         \/ panel' = [panel EXCEPT !.overtaken = @ \/ ~calls[s].mounted]
  <2>1. CASE ApiCreates(s)
    <3>1. calls[s].email \in Emails BY <1>1, <2>1 DEF ApiCreates, CallFits
    <3> QED BY <2>1, <3>1 DEF ApiCreates, AuthTypeOK
  <2>2. CASE ApiSignsIn(s) BY <2>2 DEF ApiSignsIn, Overtaking, AuthTypeOK
  <2>3. CASE ApiSignsOut(s) BY <2>3 DEF ApiSignsOut, Overtaking, AuthTypeOK
  <2> QED BY <2>1, <2>2, <2>3 DEF ApiStep
<1>5. /\ panel' \in Panels
      /\ panel'.me = panel.me /\ panel'.answer = panel.answer
      /\ panel'.account = panel.account /\ panel'.error = panel.error
      /\ panel.overtaken => panel'.overtaken
      /\ session' = session \/ calls[s].mounted \/ panel'.overtaken
  <2>1. calls[s].mounted \in BOOLEAN BY <1>1 DEF CallRecords
  <2> QED BY <1>4, <2>1 DEF AuthTypeOK, Panels
<1>6. AuthTypeOK' BY <1>2, <1>4, <1>5 DEF AuthTypeOK
<1>7. calls[s].mounted => Busy /\ panel.me # "answered" BY WaitingPage
<1>8. PanelOK' BY <1>2, <1>3, <1>5, <1>7 DEF PanelOK
<1>9. ShownIsSignedIn' BY <1>2, <1>3, <1>5, <1>7 DEF ShownIsSignedIn
<1> QED BY <1>3, <1>6, <1>8, <1>9

\* A submission keeps it: the form's page shows no account.
LEMMA SubmitKeeps ==
  ASSUME AuthInv, Submit
  PROVE  AuthInv'
<1> USE DEF AuthInv
<1>1. /\ place \in Forms /\ ~Busy /\ formError' = ""
      /\ UNCHANGED <<accounts, session, place, leaving, panel>>
  BY DEF Submit
<1>2. PICK s \in Slots, email \in Emails :
        Send(s, [FreeSlot EXCEPT !.kind = IF place = "register" THEN "create" ELSE "login",
                                 !.registering = (place = "register"),
                                 !.email = email, !.mounted = TRUE])
  BY DEF Submit
<1> DEFINE call == [FreeSlot EXCEPT !.kind = IF place = "register" THEN "create" ELSE "login",
                                    !.registering = (place = "register"),
                                    !.email = email, !.mounted = TRUE]
<1>3. /\ call \in CallRecords /\ call.mounted /\ call.email = email
      /\ call.answer = "none"
      /\ call.kind = "create" \/ (call.kind = "login" /\ ~call.registering)
  BY <1>1 DEF FreeSlot, CallRecords, Forms
<1>4. calls' = [calls EXCEPT ![s] = call] BY <1>2 DEF Send
<1> HIDE DEF call
<1>5. CallFits(call, place) BY <1>1, <1>3 DEF CallFits
<1>6. /\ CallsOK'
      /\ \A t \in Slots : calls'[t].mounted /\ calls'[t].kind = "logout" =>
           panel.account # NoOne
  <2>1. call.kind # "logout" BY <1>3
  <2> QED BY <1>1, <1>3, <1>4, <1>5, <2>1, SlotKeeps
<1>7. panel.me = "asked" /\ panel.account = NoOne BY <1>1 DEF PanelOK, Forms
<1>8. AuthTypeOK' BY <1>1 DEF AuthTypeOK
<1>9. PanelOK' BY <1>1, <1>6, <1>7 DEF PanelOK
<1>10. ShownIsSignedIn' BY <1>1, <1>7 DEF ShownIsSignedIn
<1> QED BY <1>6, <1>8, <1>9, <1>10

\* The second call of a registration keeps it: the first has made the account.
LEMMA CreatedKeeps ==
  ASSUME AuthInv, NEW s \in Slots, Created(s)
  PROVE  AuthInv'
<1> USE DEF AuthInv
<1>1. UNCHANGED <<accounts, session, place, leaving, formError, panel>>
  BY DEF Created
<1>2. CallFits(calls[s], place) /\ calls[s] \in CallRecords BY DEF CallsOK
<1> DEFINE call == [calls[s] EXCEPT !.kind = "login", !.answer = "none"]
<1>3. call \in CallRecords BY <1>2 DEF CallRecords
<1>4. /\ call.kind = "login" /\ call.email = calls[s].email
      /\ call.registering = calls[s].registering /\ call.made = calls[s].made
      /\ call.mounted = calls[s].mounted /\ call.answer = "none"
  BY <1>2 DEF CallRecords
<1>5. calls' = [calls EXCEPT ![s] = call] BY DEF Created, GoOn, CallsOK
<1> HIDE DEF call
<1>6. CallFits(call, place) BY <1>2, <1>3, <1>4 DEF CallFits, Created
<1>7. /\ CallsOK'
      /\ Busy' = Busy
      /\ \A t \in Slots : calls'[t].mounted /\ calls'[t].kind = "logout" =>
           panel.account # NoOne
  BY <1>1, <1>4, <1>5, <1>6, SlotKeeps
<1>8. AuthTypeOK' BY <1>1 DEF AuthTypeOK
<1>9. PanelOK' BY <1>1, <1>7 DEF PanelOK
<1>10. ShownIsSignedIn' BY <1>1, <1>7 DEF ShownIsSignedIn
<1> QED BY <1>7, <1>8, <1>9, <1>10

\* The end of a call keeps it: the form's page shows no account, a sign-out leaves
\* the page or says that it failed, and what ends behind the page is overtaken.
LEMMA CallEndKeeps ==
  ASSUME AuthInv, NEW s \in Slots,
         SignedIn(s) \/ FormRefused(s) \/ FormFails(s) \/ SignedOut(s) \/ LogoutFails(s)
  PROVE  AuthInv'
<1> USE DEF AuthInv
<1>1. CallFits(calls[s], place) /\ calls[s] \in CallRecords BY DEF CallsOK
<1>2. calls[s].mounted \in BOOLEAN BY <1>1 DEF CallRecords
<1>3. Free(s) /\ UNCHANGED <<accounts, session, place>>
  BY DEF SignedIn, FormRefused, FormFails, SignedOut, LogoutFails, Declined
<1>4. /\ CallsOK'
      /\ ~calls[s].mounted => Busy' = Busy
      /\ \A t \in Slots : calls'[t].mounted /\ calls'[t].kind = "logout" =>
           panel.account # NoOne
  BY <1>3, FreeKeeps
<1>5. calls[s].mounted => /\ panel.me # "answered"
                          /\ calls[s].kind # "logout" => panel.account = NoOne
  BY WaitingPage
<1>6. /\ leaving' \in {leaving, "login", "account"}
      /\ formError' \in {formError, "exists", "refused", "failed"}
      /\ \/ panel' = panel
         \/ panel' = [panel EXCEPT !.overtaken = @ \/ ~calls[s].mounted]
         \/ panel' = [panel EXCEPT !.error = TRUE]
  BY DEF SignedIn, FormRefused, FormFails, SignedOut, LogoutFails, Overtaking, LogoutFailed
<1>7. /\ panel' \in Panels
      /\ panel'.me = panel.me /\ panel'.answer = panel.answer
      /\ panel'.account = panel.account
      /\ panel.error => panel'.error
      /\ panel.overtaken => panel'.overtaken
  BY <1>2, <1>6 DEF AuthTypeOK, Panels
<1>8. AuthTypeOK' BY <1>3, <1>6, <1>7 DEF AuthTypeOK, Places, Forms
<1>9. PanelOK' BY <1>3, <1>4, <1>7 DEF PanelOK
<1>10. ShownIsSignedIn'
  <2>1. CASE ~calls[s].mounted
    <3>1. leaving' = leaving \/ panel'.overtaken \/ leaving' = "login"
      <4>1. CASE SignedIn(s) BY <2>1, <4>1 DEF SignedIn, Overtaking, AuthTypeOK, Panels
      <4> QED BY <4>1 DEF FormRefused, FormFails, SignedOut, LogoutFails
    <3> QED BY <1>3, <1>4, <1>7, <2>1, <3>1 DEF ShownIsSignedIn
  <2>2. CASE calls[s].mounted /\ calls[s].kind # "logout"
    BY <1>5, <1>7, <2>2 DEF ShownIsSignedIn
  <2>3. CASE calls[s].mounted /\ calls[s].kind = "logout"
    <3>1. leaving' = "login" \/ panel'.error
      <4>1. ~SignedIn(s) /\ ~FormFails(s) BY <2>3 DEF SignedIn, FormFails
      <4>2. ~FormRefused(s) BY <1>1, <2>3 DEF FormRefused, CallFits
      <4>3. CASE SignedOut(s) BY <4>3 DEF SignedOut
      <4>4. CASE LogoutFails(s)
        BY <2>3, <4>4 DEF LogoutFails, LogoutFailed, AuthTypeOK, Panels
      <4> QED BY <4>1, <4>2, <4>3, <4>4
    <3> QED BY <3>1 DEF ShownIsSignedIn
  <2> QED BY <2>1, <2>2, <2>3
<1> QED BY <1>4, <1>8, <1>9, <1>10

\* The account page's own steps keep it: what is shown was the session's account
\* when the API answered.
LEMMA PanelKeeps ==
  ASSUME AuthInv, ApiReadsAccount \/ ShowAccount \/ AccountMeFails
  PROVE  AuthInv'
<1> USE DEF AuthInv
<1>1. /\ UNCHANGED <<accounts, session, place, calls, formError>>
      /\ place = "account" /\ panel.me # "done"
      /\ leaving' \in {leaving, "login"}
  BY DEF ApiReadsAccount, ShowAccount, AccountMeFails
<1>2. CallsOK' BY <1>1 DEF CallsOK
<1>3. Busy' = Busy BY <1>1 DEF Busy
<1>4. panel.account = NoOne BY <1>1 DEF PanelOK
<1>5. \A s \in Slots : ~(calls[s].mounted /\ calls[s].kind = "logout") BY <1>4 DEF PanelOK
<1>6. session \in Emails \cup {NoOne} BY DEF AuthTypeOK
<1>7. CASE ApiReadsAccount
  <2>1. /\ panel' \in Panels /\ panel'.me = "answered" /\ panel'.answer = session
        /\ panel'.account = NoOne
    BY <1>4, <1>6, <1>7 DEF ApiReadsAccount, AuthTypeOK, Panels
  <2>2. AuthTypeOK' BY <1>1, <2>1 DEF AuthTypeOK, Places, Forms
  <2>3. PanelOK' BY <1>1, <1>5, <2>1 DEF PanelOK
  <2>4. ShownIsSignedIn' BY <2>1 DEF ShownIsSignedIn
  <2> QED BY <1>2, <2>2, <2>3, <2>4
<1>8. CASE ShowAccount
  <2>1. /\ panel' \in Panels /\ panel'.me = "done"
        /\ panel'.account = panel.answer /\ panel'.overtaken = panel.overtaken
    BY <1>8 DEF ShowAccount, AuthTypeOK, Panels
  <2>2. AuthTypeOK' BY <1>1, <2>1 DEF AuthTypeOK, Places, Forms
  <2>3. PanelOK' BY <1>1, <1>5, <2>1 DEF PanelOK
  <2>4. panel.answer = session \/ panel.overtaken BY <1>8 DEF ShowAccount, PanelOK
  <2>5. ShownIsSignedIn' BY <1>1, <2>1, <2>4 DEF ShownIsSignedIn
  <2> QED BY <1>2, <2>2, <2>3, <2>5
<1>9. CASE AccountMeFails
  <2>1. panel' \in Panels /\ panel'.me = "done" /\ panel'.account = NoOne
    BY <1>4, <1>9 DEF AccountMeFails, AuthTypeOK, Panels
  <2>2. AuthTypeOK' BY <1>1, <2>1 DEF AuthTypeOK, Places, Forms
  <2>3. PanelOK' BY <1>1, <1>5, <2>1 DEF PanelOK
  <2>4. ShownIsSignedIn' BY <2>1 DEF ShownIsSignedIn
  <2> QED BY <1>2, <2>2, <2>3, <2>4
<1> QED BY <1>7, <1>8, <1>9

\* The sign-out keeps it: the page waits for it.
LEMMA LogoutKeeps ==
  ASSUME AuthInv, Logout
  PROVE  AuthInv'
<1> USE DEF AuthInv
<1>1. /\ panel.account # NoOne /\ ~Busy /\ panel' = [panel EXCEPT !.error = FALSE]
      /\ UNCHANGED <<accounts, session, place, leaving, formError>>
  BY DEF Logout
<1> DEFINE call == [FreeSlot EXCEPT !.kind = "logout", !.mounted = TRUE]
<1>2. PICK s \in Slots : calls' = [calls EXCEPT ![s] = call] BY DEF Logout, Send
<1>3. /\ call \in CallRecords /\ call.mounted /\ call.kind = "logout"
      /\ call.answer = "none" /\ ~call.registering
  BY DEF FreeSlot, CallRecords
<1> HIDE DEF call
<1>4. CallFits(call, place) BY <1>3 DEF CallFits
<1>5. /\ CallsOK' /\ Busy'
      /\ \A t \in Slots : calls'[t].mounted /\ calls'[t].kind = "logout" =>
           panel.account # NoOne
  BY <1>1, <1>2, <1>3, <1>4, SlotKeeps
<1>6. /\ panel' \in Panels
      /\ panel'.me = panel.me /\ panel'.answer = panel.answer
      /\ panel'.account = panel.account /\ panel'.overtaken = panel.overtaken
  BY <1>1 DEF AuthTypeOK, Panels
<1>7. AuthTypeOK' BY <1>1, <1>6 DEF AuthTypeOK
<1>8. PanelOK' BY <1>1, <1>5, <1>6 DEF PanelOK
<1>9. ShownIsSignedIn' BY <1>5 DEF ShownIsSignedIn
<1> QED BY <1>5, <1>7, <1>8, <1>9

\* The page that is arrived at is mounted, unless it is there already: then no
\* account is shown, or it stays.
LEMMA ArriveKeeps ==
  ASSUME AuthInv, Arrive
  PROVE  AuthInv'
<1>1. CASE leaving # place /\ Mount(leaving)
  <2>1. leaving \in Places BY DEF Arrive, AuthInv, AuthTypeOK
  <2> QED BY <1>1, <2>1, MountKeeps DEF Arrive
<1>2. CASE leaving = place /\ leaving' = Stay /\ UNCHANGED <<place, calls, formError, panel>>
  <2> USE DEF AuthInv
  <2>1. UNCHANGED <<accounts, session>> BY DEF Arrive
  <2>2. AuthTypeOK' BY <1>2, <2>1 DEF AuthTypeOK
  <2>3. CallsOK' BY <1>2 DEF CallsOK
  <2>4. PanelOK' BY <1>2, <2>1 DEF PanelOK
  <2>5. Busy' = Busy BY <1>2 DEF Busy
  <2>6. panel.account # NoOne => leaving # "login" BY <1>2 DEF PanelOK
  <2>7. ShownIsSignedIn' BY <1>2, <2>1, <2>5, <2>6 DEF ShownIsSignedIn
  <2> QED BY <2>2, <2>3, <2>4, <2>7
<1> QED BY <1>1, <1>2 DEF Arrive

\* Every step keeps the invariant.
LEMMA AuthStepOK == AuthInv /\ [AuthNext]_authVars => AuthInv'
<1> SUFFICES ASSUME AuthInv, [AuthNext]_authVars PROVE AuthInv'
  OBVIOUS
<1>1. CASE FollowLink BY <1>1, MountKeeps DEF FollowLink
<1>2. ASSUME NEW s \in Slots, ApiStep(s) \/ FormStep(s) \/ PanelStep(s) PROVE AuthInv'
  BY <1>2, ApiKeeps, CreatedKeeps, CallEndKeeps DEF FormStep, PanelStep
<1>3. CASE UNCHANGED authVars
  <2> USE <1>3 DEF authVars, AuthInv
  <2>1. AuthTypeOK' BY DEF AuthTypeOK
  <2>2. CallsOK' BY DEF CallsOK
  <2>3. PanelOK' BY DEF PanelOK
  <2>4. ShownIsSignedIn' BY DEF ShownIsSignedIn, Busy
  <2> QED BY <2>1, <2>2, <2>3, <2>4
<1> QED
  BY <1>1, <1>2, <1>3, ArriveKeeps, OtherTabKeeps, SubmitKeeps, LogoutKeeps, PanelKeeps
     DEF AuthNext

\* The inductive invariant of the pages, their calls and the session.
THEOREM AuthInvariance == AuthSpec => []AuthInv
BY AuthInitOK, AuthStepOK, PTL DEF AuthSpec

\* Whose account is shown is signed in, or the visitor can see that it may be
\* over, or it was overtaken: for any number of calls left under way.
THEOREM ShownCorrect == AuthSpec => []ShownIsSignedIn
<1>1. AuthInv => ShownIsSignedIn BY DEF AuthInv
<1> QED BY <1>1, AuthInvariance, PTL

\* "Create account" signs in nobody but the account it has created, wherever the
\* visitor has gone.
THEOREM RegisterCorrect == AuthSpec => RegisterOpensItsOwn
<1>1. AuthInv /\ [AuthNext]_authVars =>
        [session' # session =>
           \A s \in Slots : calls[s].registering /\ calls'[s] # calls[s] => calls[s].made]_authVars
  <2> SUFFICES ASSUME AuthInv, AuthNext, session' # session,
                      NEW s \in Slots, calls[s].registering, calls'[s] # calls[s]
               PROVE  calls[s].made
    OBVIOUS
  <2>1. PICK t \in Slots : ApiSignsIn(t) \/ ApiSignsOut(t)
    <3>1. ~Arrive /\ ~FollowLink BY DEF Arrive, FollowLink
    <3>2. ~OtherTab BY DEF OtherTab
    <3>3. ~Submit /\ ~Logout /\ ~ApiReadsAccount /\ ~ShowAccount /\ ~AccountMeFails
      BY DEF Submit, Logout, ApiReadsAccount, ShowAccount, AccountMeFails
    <3>4. PICK t \in Slots : ApiStep(t) \/ FormStep(t) \/ PanelStep(t)
      BY <3>1, <3>2, <3>3 DEF AuthNext
    <3>5. ~FormStep(t) /\ ~PanelStep(t)
      BY DEF FormStep, PanelStep, Created, SignedIn, FormRefused, FormFails, SignedOut,
             LogoutFails
    <3> QED BY <3>4, <3>5 DEF ApiStep, ApiCreates
  <2>2. t = s
    BY <2>1 DEF ApiSignsIn, ApiSignsOut, ApiAnswers, AuthInv, CallsOK
  <2>3. CallFits(calls[s], place) BY DEF AuthInv, CallsOK
  <2> QED BY <2>1, <2>2, <2>3 DEF ApiSignsIn, ApiSignsOut, CallFits
<1> QED BY <1>1, AuthInvariance, PTL DEF AuthSpec, RegisterOpensItsOwn
=============================================================================
