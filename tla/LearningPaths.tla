---------------------------- MODULE LearningPaths ----------------------------
(***************************************************************************)
(* Where an article stands in the learning paths is written down twice, in *)
(* the path (article_ids of a module) and in the article (learning_paths). *)
(* loadCatalog of lib/content/loader.ts serves a catalog only when         *)
(* validateCatalog of validation.ts finds nothing wrong with it; this is   *)
(* the part of it that compares the two.                                   *)
(***************************************************************************)
EXTENDS Integers, SequencesExt

CONSTANTS
  CatalogArticles,
  Modules,   \* the modules, whose identifiers are unique
  Paths,
  Listed     \* bounds how many entries a list has, and the orders

ASSUME PathsAssumption == Listed \in Nat

VARIABLES
  pathOf, order, articleIds,  \* per module
  memberships,                \* per article: the modules it says that it is in
  served                      \* "no" before it is loaded, then "yes" or "refused"

catalogVars == <<pathOf, order, articleIds, memberships, served>>

Lists(S) == UNION {[1 .. n -> S] : n \in 0 .. Listed}

LibraryInit ==
  /\ pathOf \in [Modules -> Paths]
  /\ order \in [Modules -> 1 .. Listed]
  /\ articleIds \in [Modules -> Lists(CatalogArticles)]
  /\ memberships \in [CatalogArticles -> Lists(Modules)]
  /\ served = "no"

-----------------------------------------------------------------------------
(***************************************************************************)
(* validateCatalog.                                                        *)
(***************************************************************************)

ModulesOf(path) == {m \in Modules : pathOf[m] = path}

ModuleErrors(m) ==
  \/ \E n \in ModulesOf(pathOf[m]) \ {m} : order[n] = order[m]
  \/ ~IsInjective(articleIds[m])

MembershipErrors(article) ==
  \/ ~IsInjective(memberships[article])
  \/ \E m \in ToSet(memberships[article]) : article \notin ToSet(articleIds[m])

\* placements: the modules of a path that list an article.
Placements(path, article) == {m \in ModulesOf(path) : article \in ToSet(articleIds[m])}

\* Mutation: a placement without a membership is accepted.
PlacementErrorsUnmatched(path, article) == Cardinality(Placements(path, article)) > 1

PlacementErrors(path, article) ==
  \/ Cardinality(Placements(path, article)) > 1
  \/ ~(Placements(path, article) \subseteq ToSet(memberships[article]))

\* pathSequence: its places, each a module and a position in its list.  The
\* order of the modules decides nothing here.
PathSequence(path) == UNION {{m} \X DOMAIN articleIds[m] : m \in ModulesOf(path)}

SequenceErrors(path) ==
  \E p, q \in PathSequence(path) : p # q /\ articleIds[p[1]][p[2]] = articleIds[q[1]][q[2]]

\* loadCatalog
Load ==
  /\ served = "no"
  /\ served' = IF \/ \E m \in Modules : ModuleErrors(m)
                  \/ \E article \in CatalogArticles : MembershipErrors(article)
                  \/ \E path \in Paths, article \in CatalogArticles : PlacementErrors(path, article)
                  \/ \E path \in Paths : SequenceErrors(path)
               THEN "refused" ELSE "yes"
  /\ UNCHANGED <<pathOf, order, articleIds, memberships>>

LibraryNext == Load

LibrarySpec == LibraryInit /\ [][LibraryNext]_catalogVars

-----------------------------------------------------------------------------
(***************************************************************************)
(* Properties.                                                             *)
(***************************************************************************)

\* Paths and articles agree about every article in every module, no list has an
\* entry twice, no article has two places in a path, and the order of a path's
\* modules is decided: what "previous", "next" and a learner's progress rest on.
PathsAgree ==
  /\ \A article \in CatalogArticles, m \in Modules :
       article \in ToSet(articleIds[m]) <=> m \in ToSet(memberships[article])
  /\ \A m \in Modules : IsInjective(articleIds[m])
  /\ \A article \in CatalogArticles : IsInjective(memberships[article])
  /\ \A m, n \in Modules : m # n /\ pathOf[m] = pathOf[n] =>
       order[m] # order[n] /\ ToSet(articleIds[m]) \cap ToSet(articleIds[n]) = {}

\* The validator accepts exactly those catalogs.
ServedPathsAgree == (served = "yes" => PathsAgree) /\ (served = "refused" => ~PathsAgree)
=============================================================================
