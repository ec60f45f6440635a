----------------------------- MODULE TitleLookup -----------------------------
(***************************************************************************)
(* One page of the content list gets its titles (mapConcurrent and         *)
(* listContent in admin-content.service.ts): the items of the page are     *)
(* looked up by a few workers that share one index.  JavaScript runs a     *)
(* worker from the answer to one lookup to the start of the next without   *)
(* interruption; answers come in any order and any of them may fail.       *)
(***************************************************************************)
EXTENDS Integers

CONSTANTS
  N,           \* how many items the page has
  Concurrency  \* TITLE_LOOKUP_CONCURRENCY

ASSUME SizesAssumption == N \in Nat /\ Concurrency \in Nat \ {0}

VARIABLES
  nextIndex,   \* the next item to look up
  index,       \* per worker: the item whose lookup is in flight, 0 for none
  results,     \* per item: the item whose title it got, 0 for none yet
  promise      \* what the caller of mapConcurrent sees

vars == <<nextIndex, index, results, promise>>

Smaller(a, b) == IF a < b THEN a ELSE b
Items == 1 .. N
Workers == 1 .. Smaller(Concurrency, N)

TypeOK ==
  /\ nextIndex \in 1 .. N + 1
  /\ index \in [Workers -> 0 .. N]
  /\ results \in [Items -> 0 .. N]
  /\ promise \in {"pending", "fulfilled", "rejected"}

\* Creating the workers runs each of them up to its first lookup.
Init ==
  /\ nextIndex = Smaller(Concurrency, N) + 1
  /\ index = [w \in Workers |-> w]
  /\ results = [i \in Items |-> 0]
  /\ promise = "pending"

\* Mutation: the shared index starts again at the end.
ClaimAround(w) ==
  /\ index' = [index EXCEPT ![w] = IF nextIndex <= N THEN nextIndex ELSE 1]
  /\ nextIndex' = IF nextIndex <= N THEN nextIndex + 1 ELSE 2

\* A worker takes the next item, or ends.
Claim(w) ==
  IF nextIndex <= N
  THEN index' = [index EXCEPT ![w] = nextIndex] /\ nextIndex' = nextIndex + 1
  ELSE index' = [index EXCEPT ![w] = 0] /\ UNCHANGED nextIndex

LookupAnswered(w) ==
  /\ index[w] # 0
  /\ results' = [results EXCEPT ![index[w]] = index[w]]
  /\ Claim(w)
  /\ UNCHANGED promise

\* Mutation: a failed worker is not noticed.
LookupFailsSilently(w) ==
  /\ index[w] # 0
  /\ index' = [index EXCEPT ![w] = 0]
  /\ UNCHANGED <<nextIndex, results, promise>>

\* The worker rejects and with it the whole call; the other workers go on.
LookupFails(w) ==
  /\ index[w] # 0
  /\ index' = [index EXCEPT ![w] = 0]
  /\ promise' = "rejected"
  /\ UNCHANGED <<nextIndex, results>>

\* Every worker has ended.
Fulfil ==
  /\ promise = "pending"
  /\ \A w \in Workers : index[w] = 0
  /\ promise' = "fulfilled"
  /\ UNCHANGED <<nextIndex, index, results>>

Next == Fulfil \/ \E w \in Workers : LookupAnswered(w) \/ LookupFails(w)

Spec == Init /\ [][Next]_vars

\* Every fetch is answered or fails.
FairSpec == Spec /\ WF_vars(Next)

-----------------------------------------------------------------------------
(***************************************************************************)
(* Properties.                                                             *)
(***************************************************************************)

\* No item is looked up twice: not by two workers, and not once it is done.
LookedUpOnce ==
  \A w \in Workers : index[w] # 0 =>
    /\ results[index[w]] = 0
    /\ \A v \in Workers : index[v] = index[w] => v = w

\* A list that is returned has the title of every item, each at its own place,
\* in whatever order the answers came.
FulfilledIsComplete == promise = "fulfilled" => \A i \in Items : results[i] = i

\* A caller is never left waiting, and hears of every failure: what goes on
\* after one only fills a list that nobody will see.
Settles == <>[](promise # "pending" /\ \A w \in Workers : index[w] = 0)
=============================================================================
