----------------------------- MODULE SearchRoute -----------------------------
(***************************************************************************)
(* The route that the search dialog asks (app/api/search/route.ts): it     *)
(* merges the articles that the content API finds with the topics and      *)
(* paths of searchCatalog (lib/content/search.ts), each with a ranking and *)
(* a limit of its own.                                                     *)
(*                                                                         *)
(* An item stands for what ranks it: its kind, and the best place where    *)
(* the query occurs.  Items are numbered in the order of their titles.  A  *)
(* list of results is the set of them: its order is that of its ranking.   *)
(***************************************************************************)
EXTENDS Integers, FiniteSets

CONSTANTS
  Limit,    \* 20 in both places and in the API
  MaxFound  \* bounds how many items contain the query

ASSUME RouteAssumption == Limit \in Nat \ {0} /\ MaxFound \in Nat

VARIABLES
  index,    \* the items that contain the query
  answer    \* of the route

routeVars == <<index, answer>>

SearchKinds == {"article", "topic", "path"}
Containing(kind) == {i \in DOMAIN index : index[i].kind = kind}

\* Only the API looks into the body of an article.  searchCatalog looks into the title
\* followed by the description: "across" is a query that begins in one and ends in
\* the other.
Item == [kind: {"article"}, in: {"exact", "title", "description", "body"}]
          \cup [kind: {"topic", "path"}, in: {"exact", "title", "description", "across"}]

NoAnswer == [status |-> 0, kind |-> "all", results |-> {}]

\* The API returns no more than its limit.
RouteInit ==
  /\ index \in UNION {[1 .. n -> Item] : n \in 0 .. MaxFound}
  /\ Cardinality(Containing("article")) <= Limit
  /\ answer = NoAnswer

-----------------------------------------------------------------------------

\* The score of searchCatalog, for topics and paths.
CatalogScore == [i \in DOMAIN index |-> IF index[i].in \in {"exact", "title"} THEN 2 ELSE 0]

ResultScore ==
  [i \in DOMAIN index |->
     [exact |-> 3, title |-> 2, description |-> 1, body |-> 0, across |-> 0][index[i].in]]

Precedes(score, i, j) == score[i] > score[j] \/ (score[i] = score[j] /\ i < j)

\* sort, by a score and then by title, and slice.
Best(items, score) == {j \in items : Cardinality({i \in items : Precedes(score, i, j)}) < Limit}

SearchCatalog(kind) == Best(Containing(kind), CatalogScore)

\* Mutation: the results are cut before they are ranked, articles first.
MergedUnranked(articles, taxonomy) ==
  Best(articles \cup taxonomy, [i \in DOMAIN index |-> IF i \in articles THEN 1 ELSE 0])

Merged(articles, taxonomy) == Best(articles \cup taxonomy, ResultScore)

\* GET with a valid query; requestedKind narrows it.
GetResults(requestedKind) ==
  /\ answer.status = 0
  /\ LET articles == IF requestedKind \in {"topic", "path"} THEN {} ELSE Containing("article")
         taxonomy == IF requestedKind = "article" THEN {}
                     ELSE SearchCatalog("topic") \cup SearchCatalog("path")
     IN  answer' = [status |-> 200, kind |-> requestedKind, results |-> Merged(articles, taxonomy)]
  /\ UNCHANGED index

\* The API has failed: status 503, also for the topics and paths.
GetFails(requestedKind) ==
  /\ answer.status = 0
  /\ requestedKind \notin {"topic", "path"}
  /\ answer' = [status |-> 503, kind |-> requestedKind, results |-> {}]
  /\ UNCHANGED index

\* The reader searches again.
SearchAgain ==
  /\ answer.status # 0
  /\ answer' = NoAnswer
  /\ UNCHANGED index

RouteNext ==
  \/ \E kind \in SearchKinds \cup {"all"} : GetResults(kind) \/ GetFails(kind)
  \/ SearchAgain

RouteSpec == RouteInit /\ [][RouteNext]_routeVars

-----------------------------------------------------------------------------
(***************************************************************************)
(* Properties.                                                             *)
(***************************************************************************)

\* What the request asks for: a filter by topic or path still gets both.
Asked ==
  UNION {Containing(kind) : kind \in CASE answer.kind = "article" -> {"article"}
                                  [] answer.kind \in {"topic", "path"} -> {"topic", "path"}
                                  [] OTHER -> SearchKinds}

\* Where searchCatalog scores two items the same, the first by title comes first, and
\* the route may rank the other higher: an exact title, or a description that contains
\* the query.  searchCatalog drops it when enough others come first.
LostToLimit(j) ==
  LET found == Containing(index[j].kind)
  IN  /\ index[j].kind # "article"
      /\ Cardinality({i \in found : Precedes(CatalogScore, i, j)}) >= Limit
      /\ \E i \in found :
           i < j /\ CatalogScore[i] = CatalogScore[j] /\ ResultScore[i] < ResultScore[j]

\* The two rankings agree: no result is left out for one that ranks below it, and
\* none while there is room - but for what a long list of topics or paths loses.
BestResultsKept ==
  answer.status = 200 =>
    /\ answer.results \subseteq Asked
    /\ \A j \in Asked \ answer.results :
         \/ LostToLimit(j)
         \/ /\ Cardinality(answer.results) = Limit
            /\ \A i \in answer.results : ResultScore[i] >= ResultScore[j]

\* The dialog's buttons "Topics" and "Learning Paths", below "Filter search
\* results", ask for results of one kind.
FilterIsKept ==
  answer.kind # "all" => \A i \in answer.results : index[i].kind = answer.kind
=============================================================================
