---------------------------- MODULE Prerequisites ----------------------------
(***************************************************************************)
(* The search for cycles among the prerequisites of the articles           *)
(* (visitPrerequisite in lib/content/validation.ts), one call or return of *)
(* the recursion in a step.  Articles and prerequisites are taken in any   *)
(* order; unknown identifiers, which are reported elsewhere, are skipped.  *)
(***************************************************************************)
EXTENDS Integers, Sequences, FiniteSets

CONSTANT Articles

VARIABLES
  prerequisites,  \* the catalog
  waiting,        \* the articles that the outer loop has not come to
  trail,          \* the calls in progress, outermost first
  visiting,
  visited,
  cycles          \* the reported trails

searchVars == <<prerequisites, waiting, trail, visiting, visited, cycles>>

Ids(calls) == [k \in DOMAIN calls |-> calls[k].id]

CycleInit ==
  /\ prerequisites \in [Articles -> SUBSET Articles]
  /\ waiting = Articles
  /\ trail = <<>>
  /\ visiting = {}
  /\ visited = {}
  /\ cycles = {}

\* The call visitPrerequisite(id, calls).
Visit(id, calls) ==
  /\ cycles' = IF id \in visiting THEN cycles \cup {Append(Ids(calls), id)} ELSE cycles
  /\ IF id \in visiting \cup visited
       THEN trail' = calls /\ UNCHANGED visiting
       ELSE /\ trail' = Append(calls, [id |-> id, rest |-> prerequisites[id]])
            /\ visiting' = visiting \cup {id}
  /\ UNCHANGED <<prerequisites, visited>>

VisitArticle ==
  /\ trail = <<>>
  /\ \E id \in waiting : waiting' = waiting \ {id} /\ Visit(id, <<>>)

Innermost == trail[Len(trail)]

VisitNext ==
  /\ trail # <<>>
  /\ \E id \in Innermost.rest :
       Visit(id, [trail EXCEPT ![Len(trail)].rest = @ \ {id}])
  /\ UNCHANGED waiting

\* Mutation: the article stays among those being visited.
StillVisiting(id) == visiting

NoLongerVisiting(id) == visiting \ {id}

Return ==
  /\ trail # <<>>
  /\ Innermost.rest = {}
  /\ trail' = SubSeq(trail, 1, Len(trail) - 1)
  /\ visiting' = NoLongerVisiting(Innermost.id)
  /\ visited' = visited \cup {Innermost.id}
  /\ UNCHANGED <<prerequisites, waiting, cycles>>

CycleNext == VisitArticle \/ VisitNext \/ Return

CycleSpec == CycleInit /\ [][CycleNext]_searchVars

-----------------------------------------------------------------------------
(***************************************************************************)
(* Properties.                                                             *)
(***************************************************************************)

Searched == waiting = {} /\ trail = <<>>

\* A set of articles each of which requires another one of the set: there is one
\* exactly when there is a cycle.
HasCycle ==
  \E S \in (SUBSET Articles) \ {{}} : \A a \in S : prerequisites[a] \cap S # {}

\* A trail that comes back to where it has been, one prerequisite at a time.
IsCycle(path) ==
  /\ \A k \in 1 .. Len(path) - 1 : path[k + 1] \in prerequisites[path[k]]
  /\ \E k \in 1 .. Len(path) - 1 : path[k] = path[Len(path)]

\* The search never reports what is no cycle, and when it is over it has reported
\* one if there is any: wherever it begins, and although it turns back at every
\* article that it has been to.
CyclesReported ==
  /\ \A path \in cycles : IsCycle(path)
  /\ Searched => (cycles # {} <=> HasCycle)
=============================================================================
