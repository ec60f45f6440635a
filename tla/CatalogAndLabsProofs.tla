------------------------ MODULE CatalogAndLabsProofs ------------------------
(***************************************************************************)
(* What the checks of the catalog promise, for every graph of              *)
(* prerequisites and every library of learning paths, and what holds of    *)
(* the programs of the labs, for any number of clients.                    *)
(***************************************************************************)
EXTENDS Prerequisites, LearningPaths, DemoApi, LabRunner, FiniteSetTheorems, SequenceTheorems, TLAPS

-----------------------------------------------------------------------------
(***************************************************************************)
(* Prerequisites.                                                          *)
(***************************************************************************)

Visits == [id: Articles, rest: SUBSET Articles]

SearchTypeOK ==
  /\ prerequisites \in [Articles -> SUBSET Articles]
  /\ waiting \subseteq Articles
  /\ trail \in Seq(Visits)
  /\ visiting \subseteq Articles
  /\ visited \subseteq Articles
  /\ cycles \subseteq Seq(Articles)

\* The calls in progress are the articles being visited, each the prerequisite of
\* the one before it.
TrailOK ==
  /\ visiting = {trail[k].id : k \in 1 .. Len(trail)}
  /\ \A j, k \in 1 .. Len(trail) : trail[j].id = trail[k].id => j = k
  /\ \A k \in 1 .. Len(trail) - 1 : trail[k + 1].id \in prerequisites[trail[k].id]
  /\ \A k \in 1 .. Len(trail) : trail[k].rest \subseteq prerequisites[trail[k].id]
  /\ visiting \cap visited = {}

\* Nothing is forgotten: an article that does not wait has been begun, and as long
\* as no cycle is reported, what a call has done is visited or called by it.
ProgressOK ==
  /\ waiting \cup visiting \cup visited = Articles
  /\ cycles = {} =>
       \A k \in 1 .. Len(trail) :
         prerequisites[trail[k].id] \ trail[k].rest
           \subseteq visited \cup (IF k < Len(trail) THEN {trail[k + 1].id} ELSE {})

\* As long as no cycle is reported, what is visited has none: its prerequisites
\* are visited, and of any of its articles one requires no other.
VisitedOK ==
  cycles = {} =>
    /\ \A a \in visited : prerequisites[a] \subseteq visited
    /\ \A S \in SUBSET visited : S # {} => \E a \in S : prerequisites[a] \cap S = {}

SearchInv ==
  /\ SearchTypeOK
  /\ TrailOK
  /\ ProgressOK
  /\ VisitedOK
  /\ \A path \in cycles : IsCycle(path)

\* A reported trail is a cycle of the catalog: from where it comes back to, each
\* of its articles requires the next.
LEMMA CycleIsThere ==
  ASSUME SearchTypeOK, NEW path \in cycles, IsCycle(path)
  PROVE  HasCycle
<1>1. path \in Seq(Articles) BY DEF SearchTypeOK
<1>2. Len(path) \in Nat /\ DOMAIN path = 1 .. Len(path) BY <1>1, LenProperties
<1>3. \A i \in 1 .. Len(path) : path[i] \in Articles BY <1>1, <1>2, ElementOfSeq
<1>4. PICK k \in 1 .. Len(path) - 1 : path[k] = path[Len(path)] BY DEF IsCycle
<1> DEFINE S == {path[i] : i \in k .. Len(path) - 1}
<1>5. S \in (SUBSET Articles) \ {{}}
  <2>1. k .. Len(path) - 1 \subseteq 1 .. Len(path) BY <1>2
  <2>2. S \subseteq Articles BY <1>3, <2>1
  <2>3. path[k] \in S BY <1>2
  <2> QED BY <2>2, <2>3
<1>6. ASSUME NEW a \in S PROVE prerequisites[a] \cap S # {}
  <2>1. PICK i \in k .. Len(path) - 1 : a = path[i] OBVIOUS
  <2>2. i \in Int /\ k <= i /\ i <= Len(path) - 1 /\ i \in 1 .. Len(path) - 1 BY <1>2
  <2>3. path[i + 1] \in prerequisites[a] BY <2>1, <2>2 DEF IsCycle
  <2>4. path[i + 1] \in S
    <3>1. CASE i = Len(path) - 1
      <4>1. path[i + 1] = path[k] BY <1>2, <1>4, <3>1
      <4> QED BY <1>2, <4>1
    <3>2. CASE i < Len(path) - 1
      <4>1. i + 1 \in k .. Len(path) - 1 BY <1>2, <2>2, <3>2
      <4> QED BY <4>1
    <3>3. \A x, y \in Int : x <= y => x = y \/ x < y OBVIOUS
    <3>4. Len(path) - 1 \in Int BY <1>2
    <3>5. i = Len(path) - 1 \/ i < Len(path) - 1 BY <2>2, <3>3, <3>4, Zenon
    <3> QED BY <3>1, <3>2, <3>5
  <2> QED BY <2>3, <2>4
<1> HIDE DEF S
<1> QED BY <1>5, <1>6 DEF HasCycle

\* What the trail is, place by place.
LEMMA TrailFacts ==
  ASSUME SearchInv
  PROVE  /\ Len(trail) \in Nat /\ DOMAIN trail = 1 .. Len(trail)
         /\ trail = <<>> <=> Len(trail) = 0
         /\ \A k \in 1 .. Len(trail) : trail[k].id \in Articles /\ trail[k] \in Visits
         /\ trail = <<>> => visiting = {}
<1>1. trail \in Seq(Visits) BY DEF SearchInv, SearchTypeOK
<1>2. Len(trail) \in Nat /\ DOMAIN trail = 1 .. Len(trail) BY <1>1, LenProperties
<1>3. \A k \in 1 .. Len(trail) : trail[k] \in Visits BY <1>1, <1>2, ElementOfSeq
<1>4. trail = <<>> <=> Len(trail) = 0 BY <1>1
<1>5. trail = <<>> => visiting = {} BY <1>4 DEF SearchInv, TrailOK
<1> QED BY <1>2, <1>3, <1>4, <1>5 DEF Visits

\* The search is over: all articles are visited, so that a cycle was reported if
\* there is one.
LEMMA SearchedIsComplete == SearchInv => CyclesReported
<1> SUFFICES ASSUME SearchInv PROVE CyclesReported
  OBVIOUS
<1>1. ASSUME Searched, cycles # {} PROVE HasCycle
  <2>1. PICK path \in cycles : TRUE BY <1>1
  <2> QED BY <2>1, CycleIsThere DEF SearchInv
<1>2. ASSUME Searched, cycles = {}, HasCycle PROVE FALSE
  <2>1. visited = Articles BY <1>2, TrailFacts DEF Searched, SearchInv, ProgressOK
  <2>2. PICK S \in (SUBSET Articles) \ {{}} : \A a \in S : prerequisites[a] \cap S # {}
    BY <1>2 DEF HasCycle
  <2> QED BY <1>2, <2>1, <2>2 DEF SearchInv, VisitedOK
<1> QED BY <1>1, <1>2 DEF CyclesReported, SearchInv

\* Before the search the invariant holds.
LEMMA SearchInitOK == CycleInit => SearchInv
<1> SUFFICES ASSUME CycleInit PROVE SearchInv
  OBVIOUS
<1>1. trail = <<>> /\ Len(trail) = 0 /\ 1 .. Len(trail) = {} /\ cycles = {} BY DEF CycleInit
<1>2. SearchTypeOK BY DEF CycleInit, SearchTypeOK
<1>3. TrailOK BY <1>1 DEF CycleInit, TrailOK
<1>4. ProgressOK BY <1>1 DEF CycleInit, ProgressOK
<1>5. VisitedOK BY DEF CycleInit, VisitedOK
<1> QED BY <1>1, <1>2, <1>3, <1>4, <1>5 DEF SearchInv

\* A place of a sequence is its last or has a next.
LEMMA LastOrBefore == \A n \in Nat : \A k \in 1 .. n : k = n \/ (k < n /\ k \in 1 .. n - 1)
OBVIOUS

\* The places before the last one.
LEMMA PlacesBefore == \A n \in Nat : \A k \in 1 .. n - 1 : k \in 1 .. n /\ ~(k = n)
OBVIOUS

\* A trail without its innermost call: the others stay where they are.
LEMMA WithoutLast ==
  ASSUME NEW S, NEW s \in Seq(S), Len(s) > 0
  PROVE  /\ SubSeq(s, 1, Len(s) - 1) \in Seq(S)
         /\ Len(SubSeq(s, 1, Len(s) - 1)) = Len(s) - 1
         /\ \A k \in 1 .. Len(s) - 1 : SubSeq(s, 1, Len(s) - 1)[k] = s[k]
<1>1. Len(s) \in Nat BY LenProperties
<1>2. \A k \in 1 .. Len(s) - 1 : s[k] \in S
  <2>1. \A k \in 1 .. Len(s) : s[k] \in S BY ElementOfSeq
  <2> QED BY <1>1, <2>1, PlacesBefore, Zenon
<1> DEFINE m == Len(s) - 1
<1>3. m \in Int /\ 1 \in Int /\ m - 1 + 1 = m /\ (m < 1 => m = 0)
      /\ \A k \in 1 .. m : 1 + k - 1 = k
  BY <1>1
<1> HIDE DEF m
<1>4. /\ SubSeq(s, 1, m) \in Seq(S)
      /\ Len(SubSeq(s, 1, m)) = IF 1 <= m THEN m - 1 + 1 ELSE 0
      /\ \A i \in 1 .. m - 1 + 1 : SubSeq(s, 1, m)[i] = s[1 + i - 1]
  <2>1. \A k \in 1 .. m : s[k] \in S BY <1>2 DEF m
  <2> QED BY <1>3, <2>1, SubSeqProperties
<1>5. Len(SubSeq(s, 1, m)) = m BY <1>3, <1>4
<1>6. \A k \in 1 .. m : SubSeq(s, 1, m)[k] = s[k] BY <1>3, <1>4
<1> QED BY <1>4, <1>5, <1>6 DEF m

\* A call of visitPrerequisite keeps the invariant: from the outer loop, or for a
\* prerequisite of the innermost call, whose rest it leaves.
LEMMA VisitKeeps ==
  ASSUME SearchInv, NEW id \in Articles, NEW calls \in Seq(Visits),
         Visit(id, calls),
         Len(calls) = Len(trail),
         \A k \in 1 .. Len(trail) : calls[k].id = trail[k].id,
         \A k \in 1 .. Len(trail) - 1 : calls[k].rest = trail[k].rest,
         Len(trail) > 0 => /\ id \in prerequisites[trail[Len(trail)].id]
                           /\ calls[Len(trail)].rest = trail[Len(trail)].rest \ {id},
         waiting' \subseteq waiting /\ waiting \subseteq waiting' \cup {id}
  PROVE  SearchInv'
<1> DEFINE n == Len(trail)
           path == Append(Ids(calls), id)
<1>1. /\ n \in Nat /\ DOMAIN calls = 1 .. n
      /\ \A k \in 1 .. n : calls[k] \in Visits /\ trail[k].id \in Articles
  BY LenProperties, ElementOfSeq, TrailFacts
<1>2. UNCHANGED <<prerequisites, visited>> BY DEF Visit
<1>3. /\ path \in Seq(Articles) /\ Len(path) = n + 1
      /\ \A k \in 1 .. n : path[k] = trail[k].id
      /\ path[n + 1] = id
  <2>1. Ids(calls) \in [1 .. n -> Articles] BY <1>1 DEF Ids, Visits
  <2>2. Ids(calls) \in Seq(Articles) /\ Len(Ids(calls)) = n
    <3>1. Ids(calls) \in Seq(Articles) BY <1>1, <2>1
    <3>2. DOMAIN Ids(calls) = 1 .. n BY <2>1
    <3> QED BY <1>1, <3>1, <3>2, LenProperties
  <2>3. \A k \in 1 .. n : Ids(calls)[k] = trail[k].id BY <1>1 DEF Ids
  <2> HIDE DEF n
  <2> QED BY <1>1, <2>2, <2>3
<1>4. ASSUME id \in visiting PROVE IsCycle(path)'
  <2>1. PICK j \in 1 .. n : trail[j].id = id BY <1>4 DEF SearchInv, TrailOK
  <2>2. ASSUME NEW k \in 1 .. Len(path) - 1 PROVE path[k + 1] \in prerequisites[path[k]]
    <3>1. k \in 1 .. n BY <1>1, <1>3
    <3>2. CASE k = n
      <4>1. n > 0 BY <1>1, <3>1
      <4>2. path[k] = trail[n].id /\ path[k + 1] = id BY <1>3, <3>1, <3>2
      <4> QED BY <4>1, <4>2
    <3>3. CASE k \in 1 .. n - 1
      <4>1. k + 1 \in 1 .. n BY <1>1, <3>3
      <4> QED BY <1>3, <3>1, <3>3, <4>1 DEF SearchInv, TrailOK
    <3> QED BY <1>1, <3>1, <3>2, <3>3, LastOrBefore, Zenon
  <2>3. j \in 1 .. Len(path) - 1 /\ path[j] = path[Len(path)] BY <1>1, <1>3, <2>1
  <2> HIDE DEF path
  <2> QED BY <1>2, <2>2, <2>3 DEF IsCycle
<1>5. cycles' \subseteq Seq(Articles) /\ \A p \in cycles' : IsCycle(p)'
  <2>1. cycles' = IF id \in visiting THEN cycles \cup {path} ELSE cycles BY DEF Visit
  <2>2. \A p \in cycles : IsCycle(p)' BY <1>2 DEF SearchInv, IsCycle
  <2> HIDE DEF path
  <2> QED BY <1>3, <1>4, <2>1, <2>2 DEF SearchInv, SearchTypeOK
<1>6. CASE id \in visiting \cup visited
  <2>1. trail' = calls /\ UNCHANGED visiting BY <1>6 DEF Visit
  <2>2. SearchTypeOK'
    BY <1>2, <1>5, <2>1 DEF SearchInv, SearchTypeOK
  <2>3. TrailOK'
    <3>1. \A k \in 1 .. n : calls[k].rest \subseteq trail[k].rest
      BY <1>1
    <3> QED BY <1>1, <1>2, <2>1, <3>1 DEF SearchInv, TrailOK
  <2>4. (waiting \cup visiting \cup visited)' = Articles
    BY <1>2, <1>6, <2>1 DEF SearchInv, ProgressOK
  <2>5. cycles' = {} => cycles = {} /\ id \in visited BY <1>6 DEF Visit
  <2>6. ProgressOK'
    <3> SUFFICES ASSUME cycles' = {}, NEW k \in 1 .. n
                 PROVE  prerequisites[calls[k].id] \ calls[k].rest
                          \subseteq visited \cup (IF k < n THEN {calls[k + 1].id} ELSE {})
      BY <1>2, <2>1, <2>4 DEF ProgressOK
    <3>1. prerequisites[trail[k].id] \ trail[k].rest
            \subseteq visited \cup (IF k < n THEN {trail[k + 1].id} ELSE {})
      BY <2>5 DEF SearchInv, ProgressOK
    <3>2. CASE k < n
      <4>1. k \in 1 .. n - 1 /\ k + 1 \in 1 .. n BY <1>1, <3>2
      <4> QED BY <3>1, <3>2, <4>1
    <3>3. CASE k = n BY <1>1, <2>5, <3>1, <3>3
    <3> QED BY <1>1, <3>2, <3>3, LastOrBefore, Zenon
  <2>7. VisitedOK' BY <1>2, <2>5 DEF SearchInv, VisitedOK
  <2> QED BY <1>5, <2>2, <2>3, <2>6, <2>7 DEF SearchInv
<1>7. CASE id \notin visiting \cup visited
  <2> DEFINE call == [id |-> id, rest |-> prerequisites[id]]
  <2>1. /\ trail' = Append(calls, call)
        /\ visiting' = visiting \cup {id}
        /\ cycles' = cycles
    BY <1>7 DEF Visit
  <2>2. call \in Visits /\ call.id = id /\ call.rest = prerequisites[id]
    BY DEF Visits, SearchInv, SearchTypeOK
  <2> HIDE DEF call
  <2>3. /\ trail' \in Seq(Visits) /\ Len(trail') = n + 1
        /\ \A k \in 1 .. n : trail'[k] = calls[k]
        /\ trail'[n + 1] = call
    BY <1>1, <2>1, <2>2
  <2> HIDE DEF n
  <2>4. SearchTypeOK'
    BY <1>2, <1>5, <2>1, <2>3 DEF SearchInv, SearchTypeOK
  <2>5. TrailOK'
    <3>1. visiting' = {trail'[k].id : k \in 1 .. n + 1}
      <4>1. visiting = {trail[k].id : k \in 1 .. n} BY DEF SearchInv, TrailOK, n
      <4>2. \A k \in 1 .. n : trail'[k].id = trail[k].id BY <2>3 DEF n
      <4>3. 1 .. n + 1 = (1 .. n) \cup {n + 1} BY <1>1
      <4> QED BY <2>1, <2>2, <2>3, <4>1, <4>2, <4>3
    <3>2. \A j, k \in 1 .. n + 1 : trail'[j].id = trail'[k].id => j = k
      <4>1. \A k \in 1 .. n : trail'[k].id = trail[k].id /\ trail[k].id \in visiting
        BY <2>3 DEF n, SearchInv, TrailOK
      <4>2. \A j, k \in 1 .. n : trail[j].id = trail[k].id => j = k
        BY DEF n, SearchInv, TrailOK
      <4>3. 1 .. n + 1 = (1 .. n) \cup {n + 1} BY <1>1
      <4> QED BY <1>7, <2>2, <2>3, <4>1, <4>2, <4>3
    <3>3. ASSUME NEW k \in 1 .. n PROVE trail'[k + 1].id \in prerequisites[trail'[k].id]
      <4>1. CASE k = n BY <1>1, <2>2, <2>3, <4>1 DEF n
      <4>2. CASE k \in 1 .. n - 1
        <5>1. k + 1 \in 1 .. n BY <1>1, <4>2
        <5>2. trail[k + 1].id \in prerequisites[trail[k].id] BY <4>2 DEF n, SearchInv, TrailOK
        <5>3. k \in 1 .. n BY <1>1, <4>2
        <5> QED BY <2>3, <5>1, <5>2, <5>3 DEF n
      <4> QED BY <1>1, <4>1, <4>2
    <3>4. ASSUME NEW k \in 1 .. n + 1 PROVE trail'[k].rest \subseteq prerequisites[trail'[k].id]
      <4>1. CASE k = n + 1 BY <2>2, <2>3, <4>1
      <4>2. CASE k \in 1 .. n
        <5>1. calls[k].rest \subseteq trail[k].rest BY <1>1, <4>2 DEF n
        <5> QED BY <2>3, <4>2, <5>1 DEF n, SearchInv, TrailOK
      <4> QED BY <1>1, <4>1, <4>2
    <3>5. visiting' \cap visited' = {} BY <1>2, <1>7, <2>1 DEF SearchInv, TrailOK
    <3>6. (1 .. Len(trail'))  = 1 .. n + 1 /\ 1 .. Len(trail') - 1 = 1 .. n BY <1>1, <2>3
    <3> QED BY <1>2, <3>1, <3>2, <3>3, <3>4, <3>5, <3>6 DEF TrailOK
  <2>6. ProgressOK'
    <3>1. (waiting \cup visiting \cup visited)' = Articles
      BY <1>2, <2>1 DEF SearchInv, ProgressOK, SearchTypeOK
    <3> SUFFICES ASSUME cycles = {}, NEW k \in 1 .. n + 1
                 PROVE  prerequisites[trail'[k].id] \ trail'[k].rest
                          \subseteq visited \cup (IF k < n + 1 THEN {trail'[k + 1].id} ELSE {})
      BY <1>2, <2>1, <2>3, <3>1 DEF ProgressOK
    <3>2. CASE k = n + 1 BY <2>2, <2>3, <3>2
    <3>3. CASE k \in 1 .. n
      <4>1. prerequisites[trail[k].id] \ trail[k].rest
              \subseteq visited \cup (IF k < n THEN {trail[k + 1].id} ELSE {})
        BY <3>3 DEF SearchInv, ProgressOK, n
      <4>2. CASE k = n BY <1>1, <2>2, <2>3, <3>3, <4>1, <4>2 DEF n
      <4>3. CASE k < n
        <5>1. k \in 1 .. n - 1 /\ k + 1 \in 1 .. n BY <1>1, <3>3, <4>3
        <5>2. calls[k].rest = trail[k].rest /\ calls[k + 1].id = trail[k + 1].id
              /\ calls[k].id = trail[k].id
          BY <3>3, <5>1 DEF n
        <5>3. trail'[k] = calls[k] /\ trail'[k + 1] = calls[k + 1] BY <2>3, <3>3, <5>1
        <5>4. k < n + 1 BY <1>1, <3>3
        <5> QED BY <4>1, <4>3, <5>2, <5>3, <5>4
      <4> QED BY <1>1, <3>3, <4>2, <4>3
    <3> QED BY <1>1, <3>2, <3>3
  <2>7. VisitedOK' BY <1>2, <2>1 DEF SearchInv, VisitedOK
  <2> QED BY <1>5, <2>4, <2>5, <2>6, <2>7 DEF SearchInv
<1> QED BY <1>6, <1>7

\* The outer loop comes to an article.
LEMMA VisitArticleKeeps ==
  ASSUME SearchInv, VisitArticle
  PROVE  SearchInv'
<1>1. PICK id \in waiting : waiting' = waiting \ {id} /\ Visit(id, <<>>)
  BY DEF VisitArticle
<1>2. trail = <<>> /\ Len(trail) = 0 BY TrailFacts DEF VisitArticle
<1>3. id \in Articles /\ <<>> \in Seq(Visits) BY DEF SearchInv, SearchTypeOK
<1>4. \A k \in 1 .. Len(trail) : FALSE BY <1>2
<1>5. \A k \in 1 .. Len(trail) - 1 : FALSE BY <1>2
<1>6. waiting' \subseteq waiting /\ waiting \subseteq waiting' \cup {id} BY <1>1
<1>7. Len(<<>>) = Len(trail) /\ ~(Len(trail) > 0) BY <1>2
<1> QED BY <1>1, <1>3, <1>4, <1>5, <1>6, <1>7, VisitKeeps

\* The innermost call comes to its next prerequisite.
LEMMA VisitNextKeeps ==
  ASSUME SearchInv, VisitNext
  PROVE  SearchInv'
<1> DEFINE n == Len(trail)
<1>1. PICK id \in Innermost.rest : Visit(id, [trail EXCEPT ![n].rest = @ \ {id}])
  BY DEF VisitNext
<1> DEFINE calls == [trail EXCEPT ![n].rest = @ \ {id}]
           call == [trail[n] EXCEPT !.rest = @ \ {id}]
<1>2. /\ n \in Nat /\ n > 0 /\ n \in 1 .. n /\ DOMAIN trail = 1 .. n
      /\ trail \in Seq(Visits) /\ trail[n] \in Visits
  BY TrailFacts DEF VisitNext, SearchInv, SearchTypeOK
<1>3. /\ id \in prerequisites[trail[n].id] /\ id \in Articles
  <2>1. trail[n].rest \subseteq prerequisites[trail[n].id] BY <1>2 DEF SearchInv, TrailOK
  <2>2. trail[n].rest \subseteq Articles BY <1>2 DEF Visits
  <2> QED BY <2>1, <2>2 DEF Innermost
<1>4. /\ call \in Visits /\ call.id = trail[n].id /\ call.rest = trail[n].rest \ {id}
  BY <1>2 DEF Visits
<1>5. calls = [trail EXCEPT ![n] = call] OBVIOUS
<1>11. Visit(id, calls) BY <1>1
<1> HIDE DEF call, calls
<1>6. /\ calls \in Seq(Visits) /\ Len(calls) = n
      /\ \A k \in 1 .. n : calls[k] = IF k = n THEN call ELSE trail[k]
  BY <1>2, <1>4, <1>5, ExceptSeq
<1>7. \A k \in 1 .. n : calls[k].id = trail[k].id BY <1>4, <1>6
<1>8. \A k \in 1 .. n - 1 : calls[k].rest = trail[k].rest
  <2>1. \A k \in 1 .. n - 1 : k \in 1 .. n /\ ~(k = n) BY <1>2, PlacesBefore, Zenon
  <2> QED BY <1>6, <2>1, Zenon
<1>9. calls[n].rest = trail[n].rest \ {id} BY <1>2, <1>4, <1>6
<1>10. waiting' = waiting BY DEF VisitNext
<1> QED BY <1>3, <1>6, <1>7, <1>8, <1>9, <1>10, <1>11, VisitKeeps

\* A call returns: as long as no cycle is reported, all that its article requires
\* is visited, and nothing visited requires it.
LEMMA ReturnKeeps ==
  ASSUME SearchInv, Return
  PROVE  SearchInv'
<1> DEFINE n == Len(trail)
           a == trail[n].id
<1>1. /\ n \in Nat /\ n > 0 /\ n \in 1 .. n /\ n - 1 \in Nat /\ n - 1 < n
      /\ trail \in Seq(Visits) /\ a \in Articles
  BY TrailFacts DEF Return, SearchInv, SearchTypeOK
<1>2. /\ trail' = SubSeq(trail, 1, n - 1)
      /\ visiting' = visiting \ {a}
      /\ visited' = visited \cup {a}
      /\ UNCHANGED <<prerequisites, waiting, cycles>>
      /\ trail[n].rest = {}
  BY DEF Return, Innermost, NoLongerVisiting
<1>3. /\ trail' \in Seq(Visits) /\ Len(trail') = n - 1
      /\ \A k \in 1 .. n - 1 : trail'[k] = trail[k]
  BY <1>1, <1>2, WithoutLast
<1>4. a \in visiting /\ a \notin visited BY <1>1 DEF SearchInv, TrailOK
<1>5. cycles = {} => prerequisites[a] \subseteq visited
  BY <1>1, <1>2 DEF SearchInv, ProgressOK
<1> HIDE DEF a
<1>6. SearchTypeOK' BY <1>1, <1>2, <1>3 DEF SearchInv, SearchTypeOK
<1>7. TrailOK'
  <2>1. visiting' = {trail'[k].id : k \in 1 .. n - 1}
    <3>1. visiting = {trail[k].id : k \in 1 .. n} BY DEF SearchInv, TrailOK
    <3>2. \A k \in 1 .. n - 1 : trail[k].id # a BY <1>1 DEF SearchInv, TrailOK, a
    <3>3. 1 .. n = (1 .. n - 1) \cup {n} BY <1>1
    <3> HIDE DEF n
    <3> QED BY <1>2, <1>3, <3>1, <3>2, <3>3 DEF a
  <2>2. (1 .. n - 1) \subseteq 1 .. n /\ (1 .. n - 1 - 1) \subseteq (1 .. n - 1) BY <1>1
  <2>3. \A k \in 1 .. n - 1 - 1 : k + 1 \in 1 .. n - 1 BY <1>1
  <2>4. \A j, k \in 1 .. n - 1 : trail'[j].id = trail'[k].id => j = k
    BY <1>3, <2>2 DEF SearchInv, TrailOK
  <2>5. \A k \in 1 .. n - 1 - 1 : trail'[k + 1].id \in prerequisites[trail'[k].id]
    BY <1>3, <2>2, <2>3 DEF SearchInv, TrailOK
  <2>6. \A k \in 1 .. n - 1 : trail'[k].rest \subseteq prerequisites[trail'[k].id]
    BY <1>3, <2>2 DEF SearchInv, TrailOK
  <2>7. visiting' \cap visited' = {} BY <1>2 DEF SearchInv, TrailOK
  <2> QED BY <1>2, <1>3, <2>1, <2>4, <2>5, <2>6, <2>7 DEF TrailOK
<1>8. ProgressOK'
  <2>1. (waiting \cup visiting \cup visited)' = Articles
    BY <1>1, <1>2, <1>4 DEF SearchInv, ProgressOK
  <2> SUFFICES ASSUME cycles = {}, NEW k \in 1 .. n - 1
               PROVE  prerequisites[trail[k].id] \ trail[k].rest \subseteq visited \cup {a} \cup
                        (IF k < n - 1 THEN {trail'[k + 1].id} ELSE {})
    <3>1. Len(trail') = n - 1 /\ (\A k \in 1 .. n - 1 : trail'[k] = trail[k]) BY <1>3
    <3> QED BY <1>2, <2>1, <3>1 DEF ProgressOK
  <2>2. prerequisites[trail[k].id] \ trail[k].rest \subseteq visited \cup {trail[k + 1].id}
    BY <1>1 DEF SearchInv, ProgressOK
  <2>3. CASE k = n - 1 BY <1>1, <2>2, <2>3 DEF a
  <2>4. CASE k < n - 1
    <3>1. k + 1 \in 1 .. n - 1 BY <1>1, <2>4
    <3> QED BY <1>3, <2>2, <2>4, <3>1
  <2> QED BY <1>1, <2>3, <2>4, LastOrBefore, Zenon
<1>9. VisitedOK'
  <2> SUFFICES ASSUME cycles = {}
               PROVE  /\ \A b \in visited \cup {a} : prerequisites[b] \subseteq visited \cup {a}
                      /\ \A S \in SUBSET (visited \cup {a}) :
                           S # {} => \E b \in S : prerequisites[b] \cap S = {}
    BY <1>2 DEF VisitedOK
  <2>1. \A b \in visited : prerequisites[b] \subseteq visited BY DEF SearchInv, VisitedOK
  <2>2. \A b \in visited \cup {a} : prerequisites[b] \subseteq visited BY <1>5, <2>1
  <2>3. ASSUME NEW S \in SUBSET (visited \cup {a}), S # {}
        PROVE  \E b \in S : prerequisites[b] \cap S = {}
    <3>1. CASE S = {a} BY <1>4, <1>5, <3>1
    <3>2. CASE S # {a}
      <4>1. S \ {a} \in SUBSET visited /\ S \ {a} # {} BY <2>3, <3>2
      <4>2. PICK b \in S \ {a} : prerequisites[b] \cap (S \ {a}) = {}
        BY <4>1 DEF SearchInv, VisitedOK
      <4>3. prerequisites[b] \subseteq visited BY <2>1, <4>1
      <4> QED BY <1>4, <4>2, <4>3
    <3> QED BY <3>1, <3>2
  <2> QED BY <2>2, <2>3
<1>10. \A p \in cycles' : IsCycle(p)' BY <1>2 DEF SearchInv, IsCycle
<1> QED BY <1>6, <1>7, <1>8, <1>9, <1>10 DEF SearchInv

\* Every step of the search keeps the invariant.
LEMMA SearchStepOK == SearchInv /\ [CycleNext]_searchVars => SearchInv'
<1>1. SearchInv /\ UNCHANGED searchVars => SearchInv'
  <2> SUFFICES ASSUME SearchInv, UNCHANGED searchVars PROVE SearchInv'
    OBVIOUS
  <2> USE DEF SearchInv, searchVars
  <2>1. SearchTypeOK' BY DEF SearchTypeOK
  <2>2. TrailOK' BY DEF TrailOK
  <2>3. ProgressOK' BY DEF ProgressOK
  <2>4. VisitedOK' BY DEF VisitedOK
  <2>5. \A p \in cycles' : IsCycle(p)' BY DEF IsCycle
  <2> QED BY <2>1, <2>2, <2>3, <2>4, <2>5
<1> QED BY <1>1, VisitArticleKeeps, VisitNextKeeps, ReturnKeeps DEF CycleNext

\* The invariant holds throughout.
THEOREM SearchInvariance == CycleSpec => []SearchInv
BY SearchInitOK, SearchStepOK, PTL DEF CycleSpec

\* What is reported is a cycle, and at the end there is one exactly when one was
\* reported, for every set of articles and whatever they require.
THEOREM CyclesCorrect == CycleSpec => []CyclesReported
BY SearchInvariance, SearchedIsComplete, PTL

-----------------------------------------------------------------------------
(***************************************************************************)
(* LearningPaths.                                                          *)
(***************************************************************************)

CatalogErrors ==
  \/ \E m \in Modules : ModuleErrors(m)
  \/ \E article \in CatalogArticles : MembershipErrors(article)
  \/ \E path \in Paths, article \in CatalogArticles : PlacementErrors(path, article)
  \/ \E path \in Paths : SequenceErrors(path)

\* The lists of a library, place by place.
LibraryTypeOK ==
  /\ pathOf \in [Modules -> Paths]
  /\ \A m \in Modules : ToSet(articleIds[m]) \subseteq CatalogArticles
  /\ \A article \in CatalogArticles : ToSet(memberships[article]) \subseteq Modules

LibraryInv == LibraryTypeOK /\ ServedPathsAgree

\* A library without errors: paths and articles agree.
LEMMA AcceptedAgrees == LibraryTypeOK /\ ~CatalogErrors => PathsAgree
<1> SUFFICES ASSUME LibraryTypeOK, ~CatalogErrors PROVE PathsAgree
  OBVIOUS
<1>1. ASSUME NEW article \in CatalogArticles, NEW m \in Modules
      PROVE  article \in ToSet(articleIds[m]) <=> m \in ToSet(memberships[article])
  <2>1. ASSUME article \in ToSet(articleIds[m]) PROVE m \in ToSet(memberships[article])
    <3>1. m \in Placements(pathOf[m], article) BY <2>1 DEF Placements, ModulesOf
    <3>2. pathOf[m] \in Paths BY DEF LibraryTypeOK
    <3> QED BY <3>1, <3>2 DEF CatalogErrors, PlacementErrors
  <2>2. ASSUME m \in ToSet(memberships[article]) PROVE article \in ToSet(articleIds[m])
    BY <2>2 DEF CatalogErrors, MembershipErrors
  <2> QED BY <2>1, <2>2
<1>2. \A m \in Modules : IsInjective(articleIds[m]) BY DEF CatalogErrors, ModuleErrors
<1>3. \A article \in CatalogArticles : IsInjective(memberships[article])
  BY DEF CatalogErrors, MembershipErrors
<1>4. ASSUME NEW m \in Modules, NEW n \in Modules, m # n, pathOf[m] = pathOf[n]
      PROVE  order[m] # order[n] /\ ToSet(articleIds[m]) \cap ToSet(articleIds[n]) = {}
  <2>1. order[m] # order[n] BY <1>4 DEF CatalogErrors, ModuleErrors, ModulesOf
  <2>2. ASSUME NEW article \in ToSet(articleIds[m]) \cap ToSet(articleIds[n]) PROVE FALSE
    <3>1. PICK k \in DOMAIN articleIds[m] : articleIds[m][k] = article BY DEF ToSet
    <3>2. PICK l \in DOMAIN articleIds[n] : articleIds[n][l] = article BY DEF ToSet
    <3>3. /\ <<m, k>> \in PathSequence(pathOf[m])
          /\ <<n, l>> \in PathSequence(pathOf[m])
          /\ <<m, k>> # <<n, l>>
      BY <1>4, <3>1, <3>2 DEF PathSequence, ModulesOf
    <3>4. SequenceErrors(pathOf[m]) BY <3>1, <3>2, <3>3 DEF SequenceErrors
    <3>5. pathOf[m] \in Paths BY DEF LibraryTypeOK
    <3> QED BY <3>4, <3>5 DEF CatalogErrors
  <2> QED BY <2>1, <2>2
<1> QED BY <1>1, <1>2, <1>3, <1>4 DEF PathsAgree

\* A library in which paths and articles agree has no errors.
LEMMA AgreedIsAccepted == LibraryTypeOK /\ PathsAgree => ~CatalogErrors
<1> SUFFICES ASSUME LibraryTypeOK, PathsAgree PROVE ~CatalogErrors
  OBVIOUS
<1>1. ASSUME NEW m \in Modules PROVE ~ModuleErrors(m)
  BY DEF ModuleErrors, ModulesOf, PathsAgree
<1>2. ASSUME NEW article \in CatalogArticles PROVE ~MembershipErrors(article)
  BY DEF MembershipErrors, PathsAgree, LibraryTypeOK
<1>3. ASSUME NEW path \in Paths, NEW article \in CatalogArticles
      PROVE  ~PlacementErrors(path, article)
  <2> DEFINE placed == Placements(path, article)
  <2>1. \A m, n \in placed : m = n BY DEF Placements, ModulesOf, PathsAgree
  <2>2. placed = {} \/ \E m : placed = {m} BY <2>1
  <2>3. Cardinality(placed) \in {0, 1} BY <2>2, FS_EmptySet, FS_Singleton
  <2>4. ~(Cardinality(placed) > 1) BY <2>3
  <2>5. placed \subseteq ToSet(memberships[article]) BY DEF Placements, ModulesOf, PathsAgree
  <2> QED BY <2>4, <2>5 DEF PlacementErrors
<1>4. ASSUME NEW path \in Paths, SequenceErrors(path) PROVE FALSE
  <2>1. PICK p \in PathSequence(path), q \in PathSequence(path) :
          p # q /\ articleIds[p[1]][p[2]] = articleIds[q[1]][q[2]]
    BY <1>4 DEF SequenceErrors
  <2>2. PICK m \in ModulesOf(path) : p \in {m} \X DOMAIN articleIds[m] BY DEF PathSequence
  <2>3. PICK n \in ModulesOf(path) : q \in {n} \X DOMAIN articleIds[n] BY DEF PathSequence
  <2>4. /\ p = <<m, p[2]>> /\ p[2] \in DOMAIN articleIds[m]
        /\ q = <<n, q[2]>> /\ q[2] \in DOMAIN articleIds[n]
        /\ articleIds[m][p[2]] = articleIds[n][q[2]]
    BY <2>1, <2>2, <2>3
  <2>5. articleIds[m][p[2]] \in ToSet(articleIds[m]) \cap ToSet(articleIds[n])
    BY <2>4 DEF ToSet
  <2>6. m = n BY <2>5 DEF ModulesOf, PathsAgree
  <2>7. IsInjective(articleIds[m]) BY DEF ModulesOf, PathsAgree
  <2> QED BY <2>1, <2>4, <2>6, <2>7 DEF IsInjective
<1> QED BY <1>1, <1>2, <1>3, <1>4 DEF CatalogErrors

\* A library that is not loaded satisfies the invariant.
LEMMA LibraryInitOK == LibraryInit => LibraryInv
<1> SUFFICES ASSUME LibraryInit PROVE LibraryInv
  OBVIOUS
<1>1. ASSUME NEW S, NEW list \in Lists(S) PROVE ToSet(list) \subseteq S
  <2>1. PICK n \in 0 .. Listed : list \in [1 .. n -> S] BY DEF Lists
  <2> QED BY <2>1 DEF ToSet
<1>2. \A m \in Modules : articleIds[m] \in Lists(CatalogArticles) BY DEF LibraryInit
<1>3. \A article \in CatalogArticles : memberships[article] \in Lists(Modules)
  BY DEF LibraryInit
<1> QED BY <1>1, <1>2, <1>3 DEF LibraryInv, LibraryTypeOK, ServedPathsAgree, LibraryInit

\* Loading keeps it: the validator refuses exactly what does not agree.
LEMMA LibraryStepOK == LibraryInv /\ [LibraryNext]_catalogVars => LibraryInv'
<1> SUFFICES ASSUME LibraryInv, [LibraryNext]_catalogVars PROVE LibraryInv'
  OBVIOUS
<1>1. UNCHANGED <<pathOf, order, articleIds, memberships>>
  BY DEF LibraryNext, Load, catalogVars
<1>2. LibraryTypeOK' BY <1>1 DEF LibraryInv, LibraryTypeOK
<1>3. PathsAgree' <=> PathsAgree BY <1>1 DEF PathsAgree
<1>4. CASE Load
  <2>1. served' = IF CatalogErrors THEN "refused" ELSE "yes" BY <1>4 DEF Load, CatalogErrors
  <2>2. CatalogErrors <=> ~PathsAgree BY AcceptedAgrees, AgreedIsAccepted DEF LibraryInv
  <2> QED BY <1>2, <1>3, <2>1, <2>2 DEF LibraryInv, ServedPathsAgree
<1>5. CASE UNCHANGED catalogVars
  BY <1>2, <1>3, <1>5 DEF LibraryInv, ServedPathsAgree, catalogVars
<1> QED BY <1>4, <1>5 DEF LibraryNext

\* What is served agrees, and what agrees is served, for any libraries.
THEOREM ServedCorrect == LibrarySpec => []ServedPathsAgree
<1>1. LibraryInv => ServedPathsAgree BY DEF LibraryInv
<1> QED BY <1>1, LibraryInitOK, LibraryStepOK, PTL DEF LibrarySpec

-----------------------------------------------------------------------------
(***************************************************************************)
(* DemoApi.                                                                *)
(***************************************************************************)

DemoTypeOK ==
  /\ ready \in BOOLEAN
  /\ toggle \in [Clients -> [step: {"none", "loaded", "stored"}, loaded: BOOLEAN]]
  /\ stored \in Nat
  /\ alone \in BOOLEAN
  /\ late \in BOOLEAN

\* Of toggles that do not overlap the one in its handler has loaded what holds.
AloneOK ==
  server = "serving" /\ alone =>
    /\ \A c, d \in InHandler : c = d
    /\ \A c \in Clients : toggle[c].step = "loaded" => toggle[c].loaded = ready

DemoInv == DemoTypeOK /\ AloneOK /\ ReadinessIsExplained

\* The process as it starts satisfies the invariant.
LEMMA DemoInitOK == DemoInit => DemoInv
<1> SUFFICES ASSUME DemoInit PROVE DemoInv
  OBVIOUS
<1>1. DemoTypeOK BY DEF DemoInit, DemoTypeOK, NoToggle
<1>2. AloneOK BY DEF DemoInit, AloneOK, InHandler, NoToggle
<1>3. ReadinessIsExplained BY DEF DemoInit, ReadinessIsExplained
<1> QED BY <1>1, <1>2, <1>3 DEF DemoInv

\* A load keeps it: whoever comes while another is in the handler is not alone.
LEMMA LoadsKeeps ==
  ASSUME DemoInv, NEW c \in Clients, ToggleLoads(c)
  PROVE  DemoInv'
<1>1. /\ toggle' = [toggle EXCEPT ![c] = [step |-> "loaded", loaded |-> ready]]
      /\ alone' = (alone /\ InHandler = {})
      /\ UNCHANGED <<ready, server, stored, late>>
  BY DEF ToggleLoads
<1>2. DemoTypeOK' BY <1>1 DEF DemoInv, DemoTypeOK
<1>3. AloneOK'
  <2> SUFFICES ASSUME alone'
               PROVE  /\ \A d \in InHandler' : d = c
                      /\ \A d \in Clients : toggle'[d].step = "loaded" => toggle'[d].loaded = ready
    BY <1>1 DEF AloneOK
  <2>1. \A d \in Clients : toggle[d].step = "none" BY <1>1 DEF InHandler
  <2> QED BY <1>1, <2>1 DEF InHandler, DemoInv, DemoTypeOK
<1>4. ReadinessIsExplained' BY <1>1 DEF DemoInv, ReadinessIsExplained
<1> QED BY <1>2, <1>3, <1>4 DEF DemoInv

\* A store keeps it: alone it counts, and after the signal it is late.
LEMMA StoresKeeps ==
  ASSUME DemoInv, NEW c \in Clients, ToggleStores(c)
  PROVE  DemoInv'
<1>1. /\ toggle[c].step = "loaded"
      /\ ready' = ~toggle[c].loaded
      /\ toggle' = [toggle EXCEPT ![c].step = "stored"]
      /\ stored' = stored + 1
      /\ late' = (late \/ server # "serving")
      /\ UNCHANGED <<server, alone>>
  BY DEF ToggleStores, Toggled
<1>2. /\ toggle'[c].step = "stored"
      /\ \A d \in Clients \ {c} : toggle'[d] = toggle[d]
  BY <1>1 DEF DemoInv, DemoTypeOK
<1>3. DemoTypeOK' BY <1>1 DEF DemoInv, DemoTypeOK
<1>4. AloneOK'
  <2> SUFFICES ASSUME server = "serving", alone PROVE AloneOK'
    BY <1>1 DEF AloneOK
  <2>1. \A d \in InHandler : d = c BY <1>1 DEF DemoInv, AloneOK, InHandler
  <2>2. \A d \in Clients \ {c} : toggle[d].step = "none" BY <2>1 DEF InHandler
  <2> QED BY <1>2, <2>2 DEF AloneOK, InHandler
<1>5. ReadinessIsExplained'
  <2>1. CASE server = "serving"
    <3> SUFFICES ASSUME alone PROVE ready' <=> stored' % 2 = 0
      BY <1>1, <2>1 DEF ReadinessIsExplained
    <3>1. ready' = ~ready BY <1>1, <2>1 DEF DemoInv, AloneOK, DemoTypeOK
    <3>2. ready <=> stored % 2 = 0 BY <2>1 DEF DemoInv, ReadinessIsExplained
    <3>3. (stored + 1) % 2 = 0 <=> ~(stored % 2 = 0) BY DEF DemoInv, DemoTypeOK
    <3> QED BY <1>1, <3>1, <3>2, <3>3
  <2>2. CASE server # "serving" BY <1>1, <2>2 DEF ReadinessIsExplained
  <2> QED BY <2>1, <2>2
<1> QED BY <1>3, <1>4, <1>5 DEF DemoInv

\* An answer keeps it.
LEMMA AnswersKeeps ==
  ASSUME DemoInv, NEW c \in Clients, ToggleAnswers(c)
  PROVE  DemoInv'
<1>1. /\ toggle' = [toggle EXCEPT ![c] = NoToggle]
      /\ UNCHANGED <<ready, server, stored, alone, late>>
  BY DEF ToggleAnswers
<1>2. /\ toggle'[c].step = "none"
      /\ \A d \in Clients \ {c} : toggle'[d] = toggle[d]
  BY <1>1 DEF DemoInv, DemoTypeOK, NoToggle
<1>3. DemoTypeOK' BY <1>1 DEF DemoInv, DemoTypeOK, NoToggle
<1>4. InHandler' \subseteq InHandler BY <1>2 DEF InHandler
<1>5. AloneOK' BY <1>1, <1>2, <1>4 DEF DemoInv, AloneOK
<1>6. ReadinessIsExplained' BY <1>1 DEF DemoInv, ReadinessIsExplained
<1> QED BY <1>3, <1>5, <1>6 DEF DemoInv

\* The way out keeps it: readiness is given up at once.
LEMMA LeavingKeeps ==
  ASSUME DemoInv, Terminate \/ StartDrain \/ Exit
  PROVE  DemoInv'
<1>1. /\ server' # "serving"
      /\ UNCHANGED <<stored, alone, late>>
      /\ toggle' \in {toggle, [c \in Clients |-> NoToggle]}
      /\ ready' = FALSE \/ (ready' = ready /\ server # "serving")
  BY DEF Terminate, StartDrain, Exit, GiveUp
<1>2. DemoTypeOK'
  <2>1. toggle' \in [Clients -> [step: {"none", "loaded", "stored"}, loaded: BOOLEAN]]
    <3>1. CASE toggle' = toggle BY <3>1 DEF DemoInv, DemoTypeOK
    <3>2. CASE toggle' = [c \in Clients |-> NoToggle] BY <3>2 DEF NoToggle
    <3> QED BY <1>1, <3>1, <3>2
  <2>2. ready' \in BOOLEAN BY <1>1 DEF DemoInv, DemoTypeOK
  <2> QED BY <1>1, <2>1, <2>2 DEF DemoInv, DemoTypeOK
<1>3. AloneOK' BY <1>1 DEF AloneOK
<1>4. ReadinessIsExplained' BY <1>1 DEF DemoInv, ReadinessIsExplained
<1> QED BY <1>2, <1>3, <1>4 DEF DemoInv

\* Every step keeps the invariant.
LEMMA DemoStepOK == DemoInv /\ [DemoNext]_demoVars => DemoInv'
<1>1. DemoInv /\ UNCHANGED demoVars => DemoInv'
  BY DEF DemoInv, DemoTypeOK, AloneOK, InHandler, ReadinessIsExplained, demoVars
<1> QED BY <1>1, LoadsKeeps, StoresKeeps, AnswersKeeps, LeavingKeeps DEF DemoNext

\* Readiness is what the toggles have made it, for any number of clients.
THEOREM ReadinessCorrect == DemoSpec => []ReadinessIsExplained
<1>1. DemoInv => ReadinessIsExplained BY DEF DemoInv
<1> QED BY <1>1, DemoInitOK, DemoStepOK, PTL DEF DemoSpec


-----------------------------------------------------------------------------
(***************************************************************************)
(* LabRunner.                                                              *)
(***************************************************************************)

\* A cluster of the runner's own is noted, about to be noted, or has a reason; it
\* takes somebody else's for its own only blindly.
LabInv ==
  /\ cluster = "runner" =>
       \/ at = "wait"
       \/ failed
       \/ createdByRunner /\ at \in {"verify", "test", "exit"}
       \/ at = "done" /\ ~cleanup
  /\ cluster = "other" /\ (at \in {"make", "wait"} \/ createdByRunner) => blind
  /\ at = "check" => ~createdByRunner

\* Every step of the script, and of others on the machine, keeps the invariant.
LEMMA LabStepOK == LabInv /\ [LabNext]_labVars => LabInv'
<1> SUFFICES ASSUME LabInv, [LabNext]_labVars PROVE LabInv'
  OBVIOUS
<1> USE DEF LabInv
<1>1. CASE OtherCreates BY <1>1 DEF OtherCreates
<1>2. CASE OtherDeletes BY <1>2 DEF OtherDeletes
<1>3. CASE CheckCluster BY <1>3 DEF CheckCluster, OwnsExisting
<1>4. CASE MakeCluster BY <1>4 DEF MakeCluster
<1>5. CASE Succeed
  <2>1. \/ at = "wait" /\ at' = "verify"
        \/ at = "verify" /\ at' = "test"
        \/ at = "test" /\ at' = "exit"
    <3> DEFINE after == [wait |-> "verify", verify |-> "test", test |-> "exit"]
    <3>1. after["wait"] = "verify" /\ after["verify"] = "test" /\ after["test"] = "exit"
      OBVIOUS
    <3>2. at \in {"wait", "verify", "test"} /\ at' = after[at] BY <1>5 DEF Succeed
    <3> HIDE DEF after
    <3>3. CASE at = "wait" BY <3>1, <3>2, <3>3
    <3>4. CASE at = "verify" BY <3>1, <3>2, <3>4
    <3>5. CASE at = "test" BY <3>1, <3>2, <3>5
    <3> QED BY <3>2, <3>3, <3>4, <3>5
  <2>2. /\ createdByRunner' <=> (at = "wait" \/ createdByRunner)
        /\ UNCHANGED <<cluster, cleanup, blind, failed>>
    BY <1>5 DEF Succeed, OwnsAfterMake
  <2> QED BY <2>1, <2>2
<1>6. CASE Fail BY <1>6 DEF Fail
<1>7. CASE Cleanup BY <1>7 DEF Cleanup
<1>8. CASE UNCHANGED labVars BY <1>8 DEF labVars
<1> QED BY <1>1, <1>2, <1>3, <1>4, <1>5, <1>6, <1>7, <1>8 DEF LabNext

\* The invariant holds throughout.
THEOREM LabInvariance == LabSpec => []LabInv
<1>1. LabInit => LabInv BY DEF LabInit, LabInv
<1> QED BY <1>1, LabStepOK, PTL DEF LabSpec

\* The runner's own cluster outlives it only for a reason.
THEOREM LeftoverCorrect == LabSpec => []LeftoverHasReason
<1>1. LabInv => LeftoverHasReason BY DEF LabInv, LeftoverHasReason
<1> QED BY <1>1, LabInvariance, PTL

\* Somebody else's cluster is only deleted when the check did not see it.
THEOREM ForeignCorrect == LabSpec => ForeignClusterKept
<1>1. LabInv /\ [LabNext]_labVars =>
        [Cleanup /\ cluster = "other" /\ cluster' = "none" => blind]_labVars
  BY DEF LabInv, Cleanup
<1> QED BY <1>1, LabInvariance, PTL DEF LabSpec, ForeignClusterKept
=============================================================================
