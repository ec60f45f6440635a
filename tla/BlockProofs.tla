----------------------------- MODULE BlockProofs -----------------------------
(***************************************************************************)
(* Proofs about what an author edits - the list of blocks and the fields   *)
(* of one block - for documents, tables and lists of any size.             *)
(***************************************************************************)
EXTENDS BlockEditing, BlockFields, SequenceTheorems, TLAPS

(***************************************************************************)
(* Sequences with an element taken out or put in.                          *)
(***************************************************************************)

\* RemoveAt closes the gap: what is behind the element moves up by one place.
LEMMA RemoveAtElements ==
  ASSUME NEW S, NEW s \in Seq(S), NEW i \in 1 .. Len(s)
  PROVE  /\ RemoveAt(s, i) \in Seq(S)
         /\ Len(RemoveAt(s, i)) = Len(s) - 1
         /\ \A k \in 1 .. Len(s) - 1 : RemoveAt(s, i)[k] = IF k < i THEN s[k] ELSE s[k + 1]
<1> DEFINE before == SubSeq(s, 1, i - 1)
           after == SubSeq(s, i + 1, Len(s))
<1>1. Len(s) \in Nat /\ \A k \in 1 .. Len(s) : s[k] \in S OBVIOUS
<1>2. /\ before \in Seq(S) /\ Len(before) = i - 1
      /\ \A k \in 1 .. i - 1 : before[k] = s[k]
  BY <1>1
<1>3. /\ after \in Seq(S) /\ Len(after) = Len(s) - i
      /\ \A k \in 1 .. Len(s) - i : after[k] = s[i + k]
  BY <1>1
<1>4. RemoveAt(s, i) = before \o after BY DEF RemoveAt
<1> HIDE DEF before, after
<1>5. /\ before \o after \in Seq(S) /\ Len(before \o after) = Len(s) - 1
      /\ \A k \in 1 .. Len(s) - 1 :
           (before \o after)[k] = IF k <= i - 1 THEN before[k] ELSE after[k - (i - 1)]
  <2>1. /\ before \o after \in Seq(S)
        /\ Len(before \o after) = Len(before) + Len(after)
        /\ \A k \in 1 .. Len(before) + Len(after) :
             (before \o after)[k] = IF k <= Len(before) THEN before[k] ELSE after[k - Len(before)]
    BY <1>2, <1>3, ConcatProperties, Zenon
  <2> QED BY <1>1, <1>2, <1>3, <2>1
<1>6. ASSUME NEW k \in 1 .. Len(s) - 1
      PROVE  (before \o after)[k] = IF k < i THEN s[k] ELSE s[k + 1]
  <2>1. CASE k < i BY <1>1, <1>2, <1>5, <2>1
  <2>2. CASE ~(k < i)
    <3>1. k - (i - 1) \in 1 .. Len(s) - i /\ i + (k - (i - 1)) = k + 1 BY <1>1, <2>2
    <3> QED BY <1>1, <1>3, <1>5, <2>2, <3>1
  <2> QED BY <2>1, <2>2
<1> QED BY <1>4, <1>5, <1>6

\* InsertAt makes room: what is behind the place moves down by one.
LEMMA InsertAtElements ==
  ASSUME NEW S, NEW s \in Seq(S), NEW e \in S, NEW i \in 1 .. Len(s) + 1
  PROVE  /\ InsertAt(s, i, e) \in Seq(S)
         /\ Len(InsertAt(s, i, e)) = Len(s) + 1
         /\ \A k \in 1 .. Len(s) + 1 :
              InsertAt(s, i, e)[k] = IF k < i THEN s[k] ELSE IF k = i THEN e ELSE s[k - 1]
<1> DEFINE before == SubSeq(s, 1, i - 1)
           after == SubSeq(s, i, Len(s))
<1>1. Len(s) \in Nat /\ \A k \in 1 .. Len(s) : s[k] \in S OBVIOUS
<1>2. /\ before \in Seq(S) /\ Len(before) = i - 1
      /\ \A k \in 1 .. i - 1 : before[k] = s[k]
  BY <1>1
<1>3. /\ after \in Seq(S) /\ Len(after) = Len(s) + 1 - i
      /\ \A k \in 1 .. Len(s) + 1 - i : after[k] = s[i + k - 1]
  BY <1>1
<1>4. InsertAt(s, i, e) = before \o <<e>> \o after BY DEF InsertAt
<1> HIDE DEF before, after
<1> DEFINE upTo == before \o <<e>>
<1>5. /\ upTo \in Seq(S) /\ Len(upTo) = i
      /\ \A k \in 1 .. i : upTo[k] = IF k < i THEN s[k] ELSE e
  BY <1>1, <1>2
<1> HIDE DEF upTo
<1>6. /\ upTo \o after \in Seq(S) /\ Len(upTo \o after) = Len(s) + 1
      /\ \A k \in 1 .. Len(s) + 1 :
           (upTo \o after)[k] = IF k <= i THEN upTo[k] ELSE after[k - i]
  <2>1. /\ upTo \o after \in Seq(S)
        /\ Len(upTo \o after) = Len(upTo) + Len(after)
        /\ \A k \in 1 .. Len(upTo) + Len(after) :
             (upTo \o after)[k] = IF k <= Len(upTo) THEN upTo[k] ELSE after[k - Len(upTo)]
    BY <1>3, <1>5, ConcatProperties, Zenon
  <2> QED BY <1>1, <1>3, <1>5, <2>1
<1>7. ASSUME NEW k \in 1 .. Len(s) + 1
      PROVE  (upTo \o after)[k] = IF k < i THEN s[k] ELSE IF k = i THEN e ELSE s[k - 1]
  <2>1. CASE k <= i BY <1>1, <1>5, <1>6, <2>1
  <2>2. CASE k > i
    <3>1. k - i \in 1 .. Len(s) + 1 - i /\ i + (k - i) - 1 = k - 1 BY <1>1, <2>2
    <3>2. (upTo \o after)[k] = after[k - i] BY <1>1, <1>6, <2>2
    <3>3. after[k - i] = s[k - 1] BY <1>3, <3>1
    <3> QED BY <1>1, <2>2, <3>2, <3>3
  <2>3. k <= i \/ k > i BY <1>1
  <2> QED BY <2>1, <2>2, <2>3
<1> QED BY <1>4, <1>6, <1>7 DEF upTo

\* What is where after an insertion, place by place.
LEMMA InsertAtPlaces ==
  ASSUME NEW S, NEW s \in Seq(S), NEW e \in S, NEW i \in 1 .. Len(s) + 1,
         NEW k \in 1 .. Len(s) + 1
  PROVE  InsertAt(s, i, e)[k] = IF k < i THEN s[k] ELSE IF k = i THEN e ELSE s[k - 1]
BY InsertAtElements

\* What was put in comes out again.
LEMMA RemoveInserted ==
  ASSUME NEW S, NEW s \in Seq(S), NEW e \in S, NEW i \in 1 .. Len(s) + 1
  PROVE  RemoveAt(InsertAt(s, i, e), i) = s
<1> DEFINE u == InsertAt(s, i, e)
           t == RemoveAt(u, i)
<1>1. /\ u \in Seq(S) /\ Len(u) = Len(s) + 1 /\ Len(s) \in Nat /\ i \in 1 .. Len(u)
      /\ \A k \in 1 .. Len(s) + 1 :
           u[k] = IF k < i THEN s[k] ELSE IF k = i THEN e ELSE s[k - 1]
  BY InsertAtElements
<1> HIDE DEF u
<1>2. /\ t \in Seq(S) /\ Len(t) = Len(s)
      /\ \A k \in 1 .. Len(s) : t[k] = IF k < i THEN u[k] ELSE u[k + 1]
  <2>1. /\ t \in Seq(S) /\ Len(t) = Len(u) - 1
        /\ \A k \in 1 .. Len(u) - 1 : t[k] = IF k < i THEN u[k] ELSE u[k + 1]
    BY <1>1, RemoveAtElements, Zenon
  <2> QED BY <1>1, <2>1
<1> HIDE DEF t
<1>3. ASSUME NEW k \in 1 .. Len(s) PROVE t[k] = s[k]
  <2>1. CASE k < i BY <1>1, <1>2, <2>1
  <2>2. CASE ~(k < i)
    <3>1. k + 1 \in 1 .. Len(s) + 1 /\ ~(k + 1 < i) /\ k + 1 # i /\ (k + 1) - 1 = k BY <1>1, <2>2
    <3> QED BY <1>1, <1>2, <2>2, <3>1
  <2> QED BY <2>1, <2>2
<1>4. t = s BY <1>2, <1>3, SeqEqual
<1> QED BY <1>4 DEF t, u

-----------------------------------------------------------------------------
(***************************************************************************)
(* The list operations.  A list is one without two blocks of one id.       *)
(***************************************************************************)

BlockLists == {list \in Seq(Block) : UniqueIds(list)}

\* A list of blocks element by element, and what unique ids mean for two places.
LEMMA ListFacts ==
  ASSUME NEW list \in Seq(Block)
  PROVE  /\ Len(list) \in Nat /\ DOMAIN list = 1 .. Len(list)
         /\ \A k \in 1 .. Len(list) : list[k] \in Block /\ list[k].id \in Ids
         /\ \A id : id \in IdsOf(list) <=> \E k \in 1 .. Len(list) : list[k].id = id
         /\ UniqueIds(list) <=> \A j, k \in 1 .. Len(list) : list[j].id = list[k].id => j = k
<1>1. Len(list) \in Nat /\ DOMAIN list = 1 .. Len(list) OBVIOUS
<1>2. \A k \in 1 .. Len(list) : list[k] \in Block OBVIOUS
<1> QED BY <1>1, <1>2 DEF Block, IdsOf, UniqueIds

\* findIndex: a place of the block when the list has it, 0 when it has not.
LEMMA IndexOfCorrect ==
  ASSUME NEW list \in Seq(Block), NEW id
  PROVE  /\ id \in IdsOf(list) => IndexOf(list, id) \in 1 .. Len(list)
                                  /\ list[IndexOf(list, id)].id = id
         /\ id \notin IdsOf(list) => IndexOf(list, id) = 0
<1>1. CASE id \in IdsOf(list)
  <2>1. \E k \in DOMAIN list : list[k].id = id BY <1>1 DEF IdsOf
  <2>2. IndexOf(list, id) \in DOMAIN list /\ list[IndexOf(list, id)].id = id
    BY <1>1, <2>1 DEF IndexOf
  <2> QED BY <1>1, <2>2, ListFacts
<1>2. CASE id \notin IdsOf(list) BY <1>2 DEF IndexOf
<1> QED BY <1>1, <1>2

\* A removal takes out the block and nothing else.
LEMMA RemoveBlockCorrect ==
  ASSUME NEW list \in BlockLists, NEW id
  PROVE  /\ RemoveBlock(list, id) \in BlockLists
         /\ IdsOf(RemoveBlock(list, id)) = IdsOf(list) \ {id}
         /\ Len(RemoveBlock(list, id)) <= Len(list)
         /\ id \notin IdsOf(list) => RemoveBlock(list, id) = list
<1>1. list \in Seq(Block) /\ UniqueIds(list) BY DEF BlockLists
<1>2. CASE id \notin IdsOf(list) BY <1>1, <1>2, ListFacts DEF RemoveBlock, BlockLists
<1>3. CASE id \in IdsOf(list)
  <2> DEFINE i == IndexOf(list, id)
             rest == RemoveAt(list, i)
  <2>1. i \in 1 .. Len(list) /\ list[i].id = id /\ Len(list) \in Nat
    BY <1>1, <1>3, IndexOfCorrect, ListFacts
  <2> HIDE DEF i
  <2>2. /\ rest \in Seq(Block) /\ Len(rest) = Len(list) - 1
        /\ \A k \in 1 .. Len(list) - 1 : rest[k] = IF k < i THEN list[k] ELSE list[k + 1]
    BY <1>1, <2>1, RemoveAtElements, Zenon
  <2> HIDE DEF rest
  <2>3. \A j, k \in 1 .. Len(list) : list[j].id = list[k].id => j = k BY <1>1, ListFacts
  <2>4. \A j, k \in 1 .. Len(rest) : rest[j].id = rest[k].id => j = k
    BY <2>1, <2>2, <2>3
  <2>5. UniqueIds(rest) BY <2>2, <2>4, ListFacts
  <2>6. ASSUME NEW other PROVE other \in IdsOf(rest) <=> other \in IdsOf(list) \ {id}
    <3>1. ASSUME other \in IdsOf(rest) PROVE other \in IdsOf(list) \ {id}
      <4>1. PICK k \in 1 .. Len(list) - 1 : rest[k].id = other BY <2>2, <3>1, ListFacts
      <4>2. PICK j \in 1 .. Len(list) : j # i /\ rest[k] = list[j]
        <5>1. CASE k < i BY <2>1, <2>2, <5>1
        <5>2. CASE ~(k < i) BY <2>1, <2>2, <5>2
        <5> QED BY <5>1, <5>2
      <4> QED BY <1>1, <2>1, <2>3, <4>1, <4>2, ListFacts
    <3>2. ASSUME other \in IdsOf(list), other # id PROVE other \in IdsOf(rest)
      <4>1. PICK k \in 1 .. Len(list) : list[k].id = other BY <1>1, <3>2, ListFacts
      <4>2. k # i BY <2>1, <3>2, <4>1
      <4>3. PICK j \in 1 .. Len(list) - 1 : rest[j] = list[k]
        <5>1. CASE k < i BY <2>1, <2>2, <5>1
        <5>2. CASE k > i
          <6>1. k - 1 \in 1 .. Len(list) - 1 /\ ~(k - 1 < i) /\ (k - 1) + 1 = k BY <2>1, <5>2
          <6> QED BY <2>2, <6>1
        <5> QED BY <2>1, <4>2, <5>1, <5>2
      <4> QED BY <2>2, <4>1, <4>3, ListFacts
    <3> QED BY <3>1, <3>2
  <2>7. IdsOf(rest) = IdsOf(list) \ {id} BY <2>6, Zenon
  <2>8. RemoveBlock(list, id) = rest BY <1>3 DEF RemoveBlock, rest, i
  <2> QED BY <1>3, <2>1, <2>2, <2>5, <2>7, <2>8 DEF BlockLists
<1> QED BY <1>2, <1>3

\* With unique ids a block is found where it stands.
LEMMA IndexOfUnique ==
  ASSUME NEW list \in BlockLists, NEW k \in 1 .. Len(list)
  PROVE  list[k].id \in IdsOf(list) /\ IndexOf(list, list[k].id) = k
<1>1. list \in Seq(Block) /\ UniqueIds(list) BY DEF BlockLists
<1>2. list[k].id \in IdsOf(list) BY <1>1, ListFacts
<1>3. /\ IndexOf(list, list[k].id) \in 1 .. Len(list)
      /\ list[IndexOf(list, list[k].id)].id = list[k].id
  BY <1>1, <1>2, IndexOfCorrect
<1>4. \A i, j \in 1 .. Len(list) : list[i].id = list[j].id => i = j BY <1>1, ListFacts
<1> QED BY <1>2, <1>3, <1>4

\* A block with a new id is added to the others.
LEMMA InsertCorrect ==
  ASSUME NEW list \in BlockLists, NEW b \in Block, b.id \notin IdsOf(list),
         NEW i \in 1 .. Len(list) + 1
  PROVE  /\ InsertAt(list, i, b) \in BlockLists
         /\ IdsOf(InsertAt(list, i, b)) = IdsOf(list) \cup {b.id}
         /\ Len(InsertAt(list, i, b)) = Len(list) + 1
         /\ RemoveBlock(InsertAt(list, i, b), b.id) = list
<1> DEFINE new == InsertAt(list, i, b)
<1>1. list \in Seq(Block) /\ UniqueIds(list) BY DEF BlockLists
<1>2. /\ new \in Seq(Block) /\ Len(new) = Len(list) + 1
      /\ \A k \in 1 .. Len(list) + 1 :
           new[k] = IF k < i THEN list[k] ELSE IF k = i THEN b ELSE list[k - 1]
  <2>1. list \in Seq(Block) /\ b \in Block /\ i \in 1 .. Len(list) + 1 BY <1>1
  <2>2. new \in Seq(Block) BY <2>1, InsertAtElements, Zenon
  <2>3. Len(new) = Len(list) + 1 BY <2>1, InsertAtElements, Zenon
  <2>4. \A k \in 1 .. Len(list) + 1 :
           new[k] = IF k < i THEN list[k] ELSE IF k = i THEN b ELSE list[k - 1]
    BY <2>1, InsertAtPlaces
  <2> QED BY <2>2, <2>3, <2>4
<1>3. RemoveAt(new, i) = list BY <1>1, RemoveInserted, Zenon
<1> HIDE DEF new
<1>4. /\ Len(list) \in Nat
      /\ \A j, k \in 1 .. Len(list) : list[j].id = list[k].id => j = k
      /\ \A k \in 1 .. Len(list) : list[k].id # b.id
  BY <1>1, ListFacts
<1>5. \A k \in 1 .. Len(new) : k # i =>
        \E j \in 1 .. Len(list) : new[k] = list[j] /\ j = IF k < i THEN k ELSE k - 1
  BY <1>2, <1>4
<1>6. new[i] = b BY <1>2, <1>4
<1>7. UniqueIds(new)
  <2> SUFFICES ASSUME NEW j \in 1 .. Len(new), NEW k \in 1 .. Len(new), new[j].id = new[k].id
               PROVE  j = k
    BY <1>2, ListFacts
  <2>1. CASE j = i \/ k = i BY <1>4, <1>5, <1>6, <2>1
  <2>2. CASE j # i /\ k # i BY <1>2, <1>4, <1>5, <2>2
  <2> QED BY <2>1, <2>2
<1>8. ASSUME NEW id PROVE id \in IdsOf(new) <=> id \in IdsOf(list) \cup {b.id}
  <2>1. ASSUME id \in IdsOf(new) PROVE id \in IdsOf(list) \cup {b.id}
    <3>1. PICK k \in 1 .. Len(new) : new[k].id = id BY <1>2, <2>1, ListFacts
    <3> QED BY <1>1, <1>5, <1>6, <3>1, ListFacts
  <2>2. ASSUME id \in IdsOf(list) PROVE id \in IdsOf(new)
    <3>1. PICK k \in 1 .. Len(list) : list[k].id = id BY <1>1, <2>2, ListFacts
    <3>2. \E j \in 1 .. Len(new) : new[j] = list[k]
      <4>1. CASE k < i BY <1>2, <1>4, <4>1
      <4>2. CASE ~(k < i)
        <5>1. k + 1 \in 1 .. Len(new) /\ ~(k + 1 < i) /\ k + 1 # i /\ (k + 1) - 1 = k
          BY <1>2, <1>4, <4>2
        <5> QED BY <1>2, <5>1
      <4> QED BY <4>1, <4>2
    <3> QED BY <1>2, <3>1, <3>2, ListFacts
  <2>3. b.id \in IdsOf(new)
    <3>1. i \in 1 .. Len(new) BY <1>2
    <3> QED BY <1>2, <1>6, <3>1, ListFacts
  <2> QED BY <2>1, <2>2, <2>3
<1>9. IdsOf(new) = IdsOf(list) \cup {b.id} BY <1>8, Zenon
<1>10. new \in BlockLists BY <1>2, <1>7 DEF BlockLists
<1>11. IndexOf(new, b.id) = i
  <2>1. i \in 1 .. Len(new) BY <1>2
  <2> QED BY <1>6, <1>10, <2>1, IndexOfUnique
<1>12. RemoveBlock(new, b.id) = list BY <1>3, <1>9, <1>11 DEF RemoveBlock
<1> QED BY <1>2, <1>9, <1>10, <1>12 DEF new

\* insertBlock adds a new block; taking it out again gives the list there was.
LEMMA InsertBlockCorrect ==
  ASSUME NEW list \in BlockLists, NEW b \in Block, b.id \notin IdsOf(list)
  PROVE  /\ InsertBlock(list, b) \in BlockLists
         /\ IdsOf(InsertBlock(list, b)) = IdsOf(list) \cup {b.id}
         /\ Len(InsertBlock(list, b)) = Len(list) + 1
         /\ RemoveBlock(InsertBlock(list, b), b.id) = list
<1> DEFINE i == Len(list) + 1
           new == InsertAt(list, i, b)
<1>1. list \in Seq(Block) /\ Len(list) \in Nat BY DEF BlockLists
<1>2. /\ new \in Seq(Block) /\ Len(new) = Len(list) + 1
      /\ \A k \in 1 .. Len(list) + 1 :
           new[k] = IF k < i THEN list[k] ELSE IF k = i THEN b ELSE list[k - 1]
  <2>1. i \in 1 .. Len(list) + 1 BY <1>1
  <2> QED BY <1>1, <2>1, InsertAtElements
<1>3. /\ new \in BlockLists
      /\ IdsOf(new) = IdsOf(list) \cup {b.id}
      /\ RemoveBlock(new, b.id) = list
  <2>1. i \in 1 .. Len(list) + 1 BY <1>1
  <2> QED BY <2>1, InsertCorrect, Zenon
<1> HIDE DEF new
<1>4. /\ Append(list, b) \in Seq(Block) /\ Len(Append(list, b)) = Len(list) + 1
      /\ \A k \in 1 .. Len(list) + 1 : Append(list, b)[k] = new[k]
  BY <1>1, <1>2
<1>5. Append(list, b) = new BY <1>2, <1>4, SeqEqual
<1> QED BY <1>2, <1>3, <1>5 DEF InsertBlock

\* duplicateBlock adds one block, and leaves the others as they are.
LEMMA DuplicateBlockCorrect ==
  ASSUME NEW list \in BlockLists, NEW id \in IdsOf(list),
         NEW newId \in Ids, newId \notin IdsOf(list)
  PROVE  /\ DuplicateBlock(list, id, newId) \in BlockLists
         /\ IdsOf(DuplicateBlock(list, id, newId)) = IdsOf(list) \cup {newId}
         /\ Len(DuplicateBlock(list, id, newId)) = Len(list) + 1
         /\ RemoveBlock(DuplicateBlock(list, id, newId), newId) = list
<1> DEFINE i == IndexOf(list, id)
           copy == [list[i] EXCEPT !.id = newId]
<1>1. list \in Seq(Block) /\ Len(list) \in Nat BY DEF BlockLists
<1>2. i \in 1 .. Len(list) BY <1>1, IndexOfCorrect
<1>3. list[i] \in Block BY <1>1, <1>2
<1>4. copy \in Block /\ copy.id = newId BY <1>3 DEF Block
<1>5. DuplicateBlock(list, id, newId) = InsertAt(list, i + 1, copy)
  BY <1>2 DEF DuplicateBlock
<1>6. i + 1 \in 1 .. Len(list) + 1 BY <1>1, <1>2
<1> HIDE DEF i, copy
<1> QED BY <1>4, <1>5, <1>6, InsertCorrect

\* A block that is moved leaves the others in their order.
LEMMA MoveBlockCorrect ==
  ASSUME NEW list \in BlockLists, NEW id \in IdsOf(list), NEW offset \in Int
  PROVE  /\ MoveBlock(list, id, offset) \in BlockLists
         /\ IdsOf(MoveBlock(list, id, offset)) = IdsOf(list)
         /\ Len(MoveBlock(list, id, offset)) = Len(list)
         /\ RemoveBlock(MoveBlock(list, id, offset), id) = RemoveBlock(list, id)
<1> DEFINE from == IndexOf(list, id)
           to == from + offset
           rest == RemoveBlock(list, id)
<1>1. list \in Seq(Block) /\ Len(list) \in Nat /\ DOMAIN list = 1 .. Len(list)
  BY DEF BlockLists
<1>2. from \in 1 .. Len(list) /\ list[from].id = id BY <1>1, IndexOfCorrect
<1>3. list[from] \in Block BY <1>1, <1>2
<1>4. CASE to \notin DOMAIN list BY <1>4 DEF MoveBlock
<1>5. CASE to \in DOMAIN list
  <2>1. rest = RemoveAt(list, from) BY DEF RemoveBlock
  <2>2. Len(rest) = Len(list) - 1
    <3> HIDE DEF from, rest
    <3> QED BY <1>1, <1>2, <2>1, RemoveAtElements
  <2>3. MoveBlock(list, id, offset) = InsertAt(rest, to, list[from])
    BY <1>2, <1>5, <2>1 DEF MoveBlock
  <2>4. rest \in BlockLists /\ IdsOf(rest) = IdsOf(list) \ {id}
    BY RemoveBlockCorrect
  <2>5. to \in 1 .. Len(rest) + 1 BY <1>1, <1>5, <2>2
  <2> HIDE DEF from, to, rest
  <2>6. list[from].id \notin IdsOf(rest) BY <1>2, <2>4
  <2>7. /\ InsertAt(rest, to, list[from]) \in BlockLists
        /\ IdsOf(InsertAt(rest, to, list[from])) = IdsOf(rest) \cup {list[from].id}
        /\ Len(InsertAt(rest, to, list[from])) = Len(rest) + 1
        /\ RemoveBlock(InsertAt(rest, to, list[from]), list[from].id) = rest
    BY <1>3, <2>4, <2>5, <2>6, InsertCorrect
  <2>8. IdsOf(rest) \cup {id} = IdsOf(list) BY <2>4
  <2> QED BY <1>1, <1>2, <2>2, <2>3, <2>7, <2>8 DEF rest
<1> QED BY <1>4, <1>5

\* replaceBlock changes no block but its own, and moves none.
LEMMA ReplaceBlockCorrect ==
  ASSUME NEW list \in BlockLists, NEW id \in IdsOf(list), NEW b \in Block, b.id = id
  PROVE  /\ ReplaceBlock(list, id, b) \in BlockLists
         /\ IdsOf(ReplaceBlock(list, id, b)) = IdsOf(list)
         /\ Len(ReplaceBlock(list, id, b)) = Len(list)
         /\ RemoveBlock(ReplaceBlock(list, id, b), id) = RemoveBlock(list, id)
<1> DEFINE new == ReplaceBlock(list, id, b)
           i == IndexOf(list, id)
<1>1. list \in Seq(Block) BY DEF BlockLists
<1>2. /\ Len(list) \in Nat /\ DOMAIN list = 1 .. Len(list)
      /\ \A j, k \in 1 .. Len(list) : list[j].id = list[k].id => j = k
  BY <1>1, ListFacts DEF BlockLists
<1>3. /\ new \in Seq(Block) /\ Len(new) = Len(list)
      /\ \A k \in 1 .. Len(list) : new[k] = IF list[k].id = id THEN b ELSE list[k]
  BY <1>1, <1>2 DEF ReplaceBlock
<1>4. i \in 1 .. Len(list) /\ list[i].id = id BY <1>1, IndexOfCorrect
<1> HIDE DEF new, i
<1>5. \A k \in 1 .. Len(list) : new[k].id = list[k].id /\ (k # i => new[k] = list[k])
  BY <1>2, <1>3, <1>4
<1>6. new \in BlockLists
  <2>1. \A j, k \in 1 .. Len(new) : new[j].id = new[k].id => j = k BY <1>2, <1>3, <1>5
  <2> QED BY <1>3, <2>1, ListFacts DEF BlockLists
<1>7. \A other : other \in IdsOf(new) <=> other \in IdsOf(list)
  BY <1>1, <1>3, <1>5, ListFacts
<1>8. IdsOf(new) = IdsOf(list) BY <1>7, Zenon
<1>9. IndexOf(new, id) = i BY <1>3, <1>4, <1>5, <1>6, IndexOfUnique
<1>10. RemoveAt(new, i) = RemoveAt(list, i)
  <2> DEFINE s == RemoveAt(list, i)
             t == RemoveAt(new, i)
  <2>1. /\ s \in Seq(Block) /\ Len(s) = Len(list) - 1
        /\ \A k \in 1 .. Len(list) - 1 : s[k] = IF k < i THEN list[k] ELSE list[k + 1]
    BY <1>1, <1>4, RemoveAtElements, Zenon
  <2>2. /\ t \in Seq(Block) /\ Len(t) = Len(new) - 1
        /\ \A k \in 1 .. Len(new) - 1 : t[k] = IF k < i THEN new[k] ELSE new[k + 1]
    BY <1>3, <1>4, RemoveAtElements, Zenon
  <2> HIDE DEF s, t
  <2>3. ASSUME NEW k \in 1 .. Len(list) - 1 PROVE s[k] = t[k]
    <3>1. k \in 1 .. Len(list) /\ k + 1 \in 1 .. Len(list) BY <1>2
    <3>2. CASE k < i
      <4>1. k # i BY <1>4, <3>1, <3>2
      <4> QED BY <1>3, <1>5, <2>1, <2>2, <3>1, <3>2, <4>1
    <3>3. CASE ~(k < i)
      <4>1. k + 1 # i BY <1>4, <3>1, <3>3
      <4> QED BY <1>3, <1>5, <2>1, <2>2, <3>1, <3>3, <4>1
    <3> QED BY <3>2, <3>3
  <2>4. Len(s) = Len(t) BY <1>3, <2>1, <2>2
  <2>5. s = t BY <2>1, <2>2, <2>3, <2>4, SeqEqual, Zenon
  <2> QED BY <2>5 DEF s, t
<1>11. RemoveBlock(new, id) = RemoveBlock(list, id)
  BY <1>8, <1>9, <1>10 DEF RemoveBlock, i
<1> QED BY <1>3, <1>6, <1>8, <1>11 DEF new

-----------------------------------------------------------------------------
(***************************************************************************)
(* The handlers.                                                           *)
(***************************************************************************)

BlocksInv ==
  /\ TypeOK
  /\ UniqueIds(blocks)
  /\ Len(blocks) <= MaxBlocks
  /\ SelectionExists

\* What the invariant says of the list, in the form in which the steps use it.
LEMMA BlocksFacts ==
  ASSUME BlocksInv
  PROVE  /\ blocks \in BlockLists /\ IdsOf(blocks) \subseteq Ids
         /\ Len(blocks) \in Nat /\ DOMAIN blocks = 1 .. Len(blocks)
         /\ blocks = <<>> <=> IdsOf(blocks) = {}
<1>1. blocks \in Seq(Block) /\ blocks \in BlockLists BY DEF BlocksInv, TypeOK, BlockLists
<1>2. blocks = <<>> <=> Len(blocks) = 0 BY <1>1
<1>3. \A id : id \in IdsOf(blocks) <=> \E k \in 1 .. Len(blocks) : blocks[k].id = id
  BY <1>1, ListFacts
<1>4. Len(blocks) \in Nat /\ DOMAIN blocks = 1 .. Len(blocks) BY <1>1
<1>5. IdsOf(blocks) \subseteq Ids BY <1>1, <1>3, ListFacts
<1>6. Len(blocks) = 0 => IdsOf(blocks) = {} BY <1>3
<1>7. Len(blocks) # 0 => blocks[1].id \in IdsOf(blocks) BY <1>3, <1>4
<1> QED BY <1>1, <1>2, <1>4, <1>5, <1>6, <1>7

\* A document that is loaded, its first block selected.
LEMMA LoadedOK ==
  ASSUME NEW list \in ValidDocuments
  PROVE  /\ list \in BlockLists /\ Len(list) <= MaxBlocks
         /\ IF list = <<>> THEN FirstSelected(list) = None
            ELSE FirstSelected(list) \in IdsOf(list) \cap Ids
<1> USE BlockAssumption
<1>1. PICK n \in 0 .. MaxBlocks : list \in [1 .. n -> Block] BY DEF ValidDocuments
<1>2. list \in Seq(Block) /\ Len(list) = n BY <1>1
<1>3. list \in BlockLists BY <1>2 DEF ValidDocuments, BlockLists
<1>4. list # <<>> => 1 \in 1 .. Len(list) BY <1>2
<1>5. list # <<>> => list[1].id \in IdsOf(list) \cap Ids BY <1>2, <1>4, ListFacts
<1> QED BY <1>1, <1>2, <1>3, <1>5 DEF FirstSelected

\* The first document satisfies the invariant.
LEMMA BlocksInitOK == Init => BlocksInv
<1> SUFFICES ASSUME Init PROVE BlocksInv OBVIOUS
<1> USE BlockAssumption DEF Init
<1>1. /\ blocks \in BlockLists /\ Len(blocks) <= MaxBlocks
      /\ IF blocks = <<>> THEN selectedBlockId = None
         ELSE selectedBlockId \in IdsOf(blocks) \cap Ids
  BY LoadedOK
<1> QED BY <1>1 DEF BlocksInv, TypeOK, BlockLists, SelectionExists

\* What a removal selects in place of the block it removes.
LEMMA FallbackCorrect ==
  ASSUME BlocksInv, NEW id \in IdsOf(blocks)
  PROVE  IF Fallback(id) = None THEN Len(blocks) = 1
         ELSE Fallback(id) \in (IdsOf(blocks) \ {id}) \cap Ids
<1> DEFINE index == IndexOf(blocks, id)
<1>1. /\ blocks \in Seq(Block) /\ Len(blocks) \in Nat /\ DOMAIN blocks = 1 .. Len(blocks)
      /\ \A j, k \in 1 .. Len(blocks) : blocks[j].id = blocks[k].id => j = k
  BY ListFacts DEF BlocksInv, TypeOK
<1>2. index \in 1 .. Len(blocks) /\ blocks[index].id = id BY <1>1, IndexOfCorrect
<1>3. \A k \in 1 .. Len(blocks) : k # index =>
        blocks[k].id \in (IdsOf(blocks) \ {id}) \cap Ids /\ blocks[k].id # None
  <2> HIDE DEF index
  <2>1. \A k \in 1 .. Len(blocks) : blocks[k].id \in IdsOf(blocks) \cap Ids BY <1>1, ListFacts
  <2> QED BY <1>1, <1>2, <2>1, BlockAssumption
<1>4. CASE index + 1 \in 1 .. Len(blocks)
  <2>1. Fallback(id) = blocks[index + 1].id BY <1>1, <1>4 DEF Fallback
  <2> HIDE DEF index
  <2> QED BY <1>2, <1>3, <1>4, <2>1
<1>5. CASE index + 1 \notin 1 .. Len(blocks) /\ index - 1 \in 1 .. Len(blocks)
  <2>1. Fallback(id) = blocks[index - 1].id BY <1>1, <1>5 DEF Fallback
  <2> HIDE DEF index
  <2> QED BY <1>2, <1>3, <1>5, <2>1
<1>6. CASE index + 1 \notin 1 .. Len(blocks) /\ index - 1 \notin 1 .. Len(blocks)
  <2>1. Fallback(id) = None BY <1>1, <1>6 DEF Fallback
  <2> HIDE DEF index
  <2> QED BY <1>1, <1>2, <1>6, <2>1
<1> QED BY <1>4, <1>5, <1>6

\* Another document: all the dialogs are closed and its first block is selected.
LEMMA LoadDocumentStep ==
  ASSUME BlocksInv, LoadDocument
  PROVE  BlocksInv'
<1> USE BlockAssumption
<1>1. /\ blocks' \in ValidDocuments /\ selectedBlockId' = FirstSelected(blocks')
      /\ deleteBlockId' = None /\ refocused' = None
  BY DEF LoadDocument
<1>2. /\ blocks' \in BlockLists /\ Len(blocks') <= MaxBlocks
      /\ IF blocks' = <<>> THEN selectedBlockId' = None
         ELSE selectedBlockId' \in IdsOf(blocks') \cap Ids
  BY <1>1, LoadedOK
<1> QED BY <1>1, <1>2 DEF BlocksInv, TypeOK, BlockLists, SelectionExists

\* A new block is selected.
LEMMA AddedStep ==
  ASSUME BlocksInv, AddBlock \/ \E id \in IdsOf(blocks) : DuplicateSelected(id)
  PROVE  BlocksInv' /\ \E id \in Ids : RemoveBlock(blocks', id) = RemoveBlock(blocks, id)
<1> USE BlockAssumption
<1>1. PICK new \in FreshIds :
        /\ blocks' \in BlockLists
        /\ IdsOf(blocks') = IdsOf(blocks) \cup {new}
        /\ Len(blocks') = Len(blocks) + 1
        /\ RemoveBlock(blocks', new) = blocks
        /\ selectedBlockId' = new
  <2>1. CASE AddBlock
    <3>1. PICK new \in FreshIds, content \in Contents :
            /\ blocks' = InsertBlock(blocks, [id |-> new, content |-> content])
            /\ selectedBlockId' = new
      BY <2>1 DEF AddBlock
    <3> DEFINE b == [id |-> new, content |-> content]
    <3>2. b \in Block /\ b.id = new /\ new \notin IdsOf(blocks) BY DEF Block, FreshIds
    <3> HIDE DEF b
    <3>3. /\ InsertBlock(blocks, b) \in BlockLists
          /\ IdsOf(InsertBlock(blocks, b)) = IdsOf(blocks) \cup {b.id}
          /\ Len(InsertBlock(blocks, b)) = Len(blocks) + 1
          /\ RemoveBlock(InsertBlock(blocks, b), b.id) = blocks
      BY <3>2, BlocksFacts, InsertBlockCorrect
    <3> QED BY <3>1, <3>2, <3>3 DEF b
  <2>2. CASE \E id \in IdsOf(blocks) : DuplicateSelected(id)
    <3>1. PICK id \in IdsOf(blocks), new \in FreshIds :
            blocks' = DuplicateBlock(blocks, id, new) /\ selectedBlockId' = new
      BY <2>2 DEF DuplicateSelected
    <3>2. new \in Ids /\ new \notin IdsOf(blocks) BY DEF FreshIds
    <3> QED BY <3>1, <3>2, BlocksFacts, DuplicateBlockCorrect
  <2> QED BY <2>1, <2>2
<1>2. /\ deleteBlockId' = deleteBlockId /\ refocused' = refocused
      /\ Len(blocks) < MaxBlocks
  BY DEF AddBlock, DuplicateSelected, HasRoom
<1>3. new \in Ids /\ new \notin IdsOf(blocks) BY DEF FreshIds
<1>4. TypeOK' /\ UniqueIds(blocks)'
  BY <1>1, <1>2, <1>3 DEF BlocksInv, TypeOK, BlockLists
<1>5. Len(blocks') <= MaxBlocks BY <1>1, <1>2, BlocksFacts
<1>6. SelectionExists' BY <1>1, <1>2, <1>3 DEF BlocksInv, SelectionExists
<1>7. RemoveBlock(blocks, new) = blocks BY <1>3, BlocksFacts, RemoveBlockCorrect
<1> QED BY <1>1, <1>3, <1>4, <1>5, <1>6, <1>7 DEF BlocksInv

\* A block is moved or edited.
LEMMA EditedStep ==
  ASSUME BlocksInv, NEW id \in IdsOf(blocks),
         UpdateBlock(id) \/ \E offset \in {-1, 1} : ReorderBlock(id, offset)
  PROVE  BlocksInv' /\ RemoveBlock(blocks', id) = RemoveBlock(blocks, id)
<1>1. /\ blocks' \in BlockLists /\ IdsOf(blocks') = IdsOf(blocks)
      /\ Len(blocks') = Len(blocks)
      /\ RemoveBlock(blocks', id) = RemoveBlock(blocks, id)
  <2>1. CASE UpdateBlock(id)
    <3>1. PICK content \in Contents :
            blocks' = ReplaceBlock(blocks, id, [id |-> id, content |-> content])
      BY <2>1 DEF UpdateBlock, Updated
    <3> DEFINE b == [id |-> id, content |-> content]
    <3>2. b \in Block /\ b.id = id BY BlocksFacts DEF Block
    <3> HIDE DEF b
    <3> QED BY <3>1, <3>2, BlocksFacts, ReplaceBlockCorrect DEF b
  <2>2. CASE \E offset \in {-1, 1} : ReorderBlock(id, offset)
    <3>1. PICK offset \in Int : blocks' = MoveBlock(blocks, id, offset)
      BY <2>2 DEF ReorderBlock
    <3> QED BY <3>1, BlocksFacts, MoveBlockCorrect
  <2> QED BY <2>1, <2>2
<1>2. UNCHANGED <<selectedBlockId, deleteBlockId, refocused>>
  BY DEF UpdateBlock, ReorderBlock
<1>3. blocks' = <<>> => blocks = <<>>
  <2>1. blocks' = <<>> => Len(blocks') = 0 OBVIOUS
  <2>2. Len(blocks) = 0 => blocks = <<>> BY DEF BlocksInv, TypeOK
  <2> QED BY <1>1, <2>1, <2>2
<1>4. blocks = <<>> => blocks' = <<>>
  <2>1. blocks = <<>> => Len(blocks) = 0 OBVIOUS
  <2>2. Len(blocks') = 0 => blocks' = <<>> BY <1>1 DEF BlockLists
  <2> QED BY <1>1, <2>1, <2>2
<1>5. TypeOK' /\ UniqueIds(blocks)' BY <1>1, <1>2 DEF BlocksInv, TypeOK, BlockLists
<1>6. SelectionExists' BY <1>1, <1>2, <1>4 DEF BlocksInv, SelectionExists
<1> QED BY <1>1, <1>5, <1>6 DEF BlocksInv

\* A block is removed; the selection moves on, or stays where the focus is.
LEMMA ConfirmDeleteStep ==
  ASSUME BlocksInv, ConfirmDelete
  PROVE  BlocksInv' /\ \E id \in Ids : RemoveBlock(blocks', id) = RemoveBlock(blocks, id)
<1> USE BlockAssumption
<1> DEFINE rest == RemoveBlock(blocks, deleteBlockId)
<1>1. /\ deleteBlockId \in IdsOf(blocks) /\ deleteBlockId \in Ids
      /\ blocks' = rest /\ deleteBlockId' = None
  BY DEF ConfirmDelete, BlocksInv, SelectionExists, TypeOK
<1>2. /\ rest \in BlockLists /\ IdsOf(rest) = IdsOf(blocks) \ {deleteBlockId}
      /\ Len(rest) <= Len(blocks)
  BY BlocksFacts, RemoveBlockCorrect
<1>3. RemoveBlock(rest, deleteBlockId) = rest
  <2>1. deleteBlockId \notin IdsOf(rest) BY <1>2
  <2> HIDE DEF rest
  <2> QED BY <1>2, <2>1, RemoveBlockCorrect
<1>4. Len(rest) = 0 => rest = <<>> BY <1>2 DEF BlockLists
<1>5. Len(blocks) = 1 => Len(rest) = 0
  <2>1. rest = RemoveAt(blocks, IndexOf(blocks, deleteBlockId)) BY <1>1 DEF RemoveBlock
  <2>2. IndexOf(blocks, deleteBlockId) \in 1 .. Len(blocks)
    BY <1>1, IndexOfCorrect DEF BlocksInv, TypeOK
  <2>3. Len(rest) = Len(blocks) - 1
    <3> HIDE DEF rest
    <3> QED BY <2>1, <2>2, RemoveAtElements DEF BlocksInv, TypeOK
  <2> QED BY <2>3
<1> HIDE DEF rest
<1>6. Len(blocks') <= MaxBlocks BY <1>1, <1>2, BlocksFacts DEF BlocksInv, BlockLists
<1>7. /\ blocks' \in Seq(Block) /\ UniqueIds(blocks')
      /\ IdsOf(blocks') = IdsOf(blocks) \ {deleteBlockId}
  BY <1>1, <1>2 DEF BlockLists
<1>8. SUFFICES /\ selectedBlockId' \in Ids \cup {None} /\ refocused' \in Ids \cup {None}
               /\ IF selectedBlockId' = None THEN blocks' = <<>>
                  ELSE selectedBlockId' \in IdsOf(blocks') \cup {refocused'}
  <2>1. BlocksInv' BY <1>1, <1>6, <1>7, <1>8 DEF BlocksInv, TypeOK, SelectionExists
  <2> QED BY <1>1, <1>3, <2>1 DEF rest
<1>9. /\ selectedBlockId \in Ids \cup {None} /\ refocused \in Ids \cup {None}
      /\ selectedBlockId # None /\ selectedBlockId \in IdsOf(blocks) \cup {refocused}
  BY <1>1, BlocksFacts DEF BlocksInv, TypeOK, SelectionExists
<1>10. CASE /\ selectedBlockId' = IF selectedBlockId = deleteBlockId
                                  THEN Fallback(deleteBlockId) ELSE selectedBlockId
            /\ UNCHANGED refocused
  <2>1. CASE selectedBlockId = deleteBlockId
    <3>1. IF selectedBlockId' = None THEN rest = <<>>
          ELSE selectedBlockId' \in IdsOf(rest) \cap Ids
      BY <1>1, <1>2, <1>4, <1>5, <1>10, <2>1, FallbackCorrect
    <3> QED BY <1>1, <1>9, <1>10, <3>1
  <2>2. CASE selectedBlockId # deleteBlockId BY <1>7, <1>9, <1>10, <2>2
  <2> QED BY <2>1, <2>2
<1>11. CASE /\ selectedBlockId = deleteBlockId
            /\ refocused' = deleteBlockId
            /\ UNCHANGED selectedBlockId
  BY <1>1, <1>9, <1>11
<1> QED BY <1>10, <1>11 DEF ConfirmDelete

\* What every step but a reload does to the blocks.
LEMMA BlocksStep ==
  ASSUME BlocksInv, Next
  PROVE  /\ BlocksInv'
         /\ LoadDocument \/ \E id \in Ids : RemoveBlock(blocks', id) = RemoveBlock(blocks, id)
<1> USE BlockAssumption
<1>1. CASE LoadDocument BY <1>1, LoadDocumentStep
<1>2. CASE AddBlock \/ \E id \in IdsOf(blocks) : DuplicateSelected(id) BY <1>2, AddedStep
<1>3. CASE \E id \in IdsOf(blocks) : UpdateBlock(id) \/ \E offset \in {-1, 1} : ReorderBlock(id, offset)
  BY <1>3, EditedStep, BlocksFacts
<1>4. CASE ConfirmDelete BY <1>4, ConfirmDeleteStep
<1>5. CASE CloseDialog \/ \E id \in IdsOf(blocks) : SelectBlock(id) \/ RequestDelete(id)
  <2>1. blocks' = blocks BY <1>5 DEF CloseDialog, SelectBlock, RequestDelete
  <2>2. Ids # {}
    BY <1>5, BlocksFacts DEF CloseDialog, BlocksInv, TypeOK
  <2>3. BlocksInv'
    BY <1>5, BlocksFacts
    DEF BlocksInv, TypeOK, SelectionExists, CloseDialog, SelectBlock, RequestDelete
  <2> QED BY <2>1, <2>2, <2>3
<1> QED BY <1>1, <1>2, <1>3, <1>4, <1>5 DEF Next

\* Every step keeps the invariant of the list.
LEMMA BlocksStepOK == BlocksInv /\ [Next]_vars => BlocksInv'
<1>1. BlocksInv /\ UNCHANGED vars => BlocksInv' BY DEF BlocksInv, TypeOK, SelectionExists, vars
<1> QED BY <1>1, BlocksStep

\* The inductive invariant of the list of blocks: among others, that no two
\* blocks ever have one identifier and that a document never has too many blocks.
THEOREM BlocksInvariance == Spec => []BlocksInv
BY BlocksInitOK, BlocksStepOK, PTL DEF Spec

\* Type correctness of the list of blocks.
THEOREM BlocksTypeCorrect == Spec => []TypeOK
<1>1. BlocksInv => TypeOK BY DEF BlocksInv
<1> QED BY <1>1, BlocksInvariance, PTL

\* No two blocks have one identifier, which the handlers rely on, in documents of
\* any length.
THEOREM UniqueIdsCorrect == Spec => []UniqueIds(blocks)
<1>1. BlocksInv => UniqueIds(blocks) BY DEF BlocksInv
<1> QED BY <1>1, BlocksInvariance, PTL

\* The selection and the dialog are about a block that is there, or the known
\* exception explains why not, in documents of any length.
THEOREM SelectionCorrect == Spec => []SelectionExists
<1>1. BlocksInv => SelectionExists BY DEF BlocksInv
<1> QED BY <1>1, BlocksInvariance, PTL

\* An edit leaves all blocks but one as they were, and in their order.
THEOREM OthersUntouchedCorrect == Spec => OthersUntouched
<1>1. BlocksInv /\ [Next]_vars =>
        [\/ LoadDocument
         \/ \E id \in Ids : RemoveBlock(blocks', id) = RemoveBlock(blocks, id)]_vars
  BY BlocksStep
<1> QED BY <1>1, BlocksInvariance, PTL DEF Spec, OthersUntouched

-----------------------------------------------------------------------------
(***************************************************************************)
(* BlockFields.  What the inputs have stored: the keys that a block must   *)
(* have, others only with something in them, nothing that cannot be typed. *)
(***************************************************************************)

\* Everything that an input holds.
Typed == {"", " ", "good", "bad"}

TextTypes == {"heading", "code", "callout", "image", "item"}

PropsOK(type, props) ==
  /\ Inputs[type] \ Deletable[type] \subseteq DOMAIN props
  /\ DOMAIN props \subseteq Inputs[type]
  /\ \A key \in DOMAIN props :
       props[key] \in Values(key) /\ (key \in Deletable[type] => props[key] # "")

ItemProps ==
  {props \in UNION {[keys -> Typed] : keys \in SUBSET Inputs.item} : PropsOK("item", props)}

TableOK(props) ==
  /\ {"headers", "rows"} \subseteq DOMAIN props
  /\ DOMAIN props \subseteq {"headers", "rows", "caption"}
  /\ props.headers \in Seq(Typed) /\ Len(props.headers) \in 1 .. MaxColumns
  /\ props.rows \in Seq(Seq(Typed)) /\ Len(props.rows) \in 1 .. MaxRows
  /\ \A r \in 1 .. Len(props.rows) : Len(props.rows[r]) = Len(props.headers)
  /\ "caption" \in DOMAIN props => props.caption \in Values("caption") \ {""}

RelatedOK(props) ==
  /\ DOMAIN props = {"items"}
  /\ props.items \in Seq(ItemProps) /\ Len(props.items) \in 1 .. MaxRelated

FieldsInv ==
  /\ DOMAIN block = {"type", "props"}
  /\ block.type \in {"heading", "code", "callout", "image", "table", "related_content"}
  /\ block.type \in TextTypes => PropsOK(block.type, block.props)
  /\ IsTable => TableOK(block.props)
  /\ IsRelated => RelatedOK(block.props)

\* What can be typed keeps the properties as they should be.
LEMMA StoreCorrect ==
  ASSUME NEW type \in TextTypes, NEW props, PropsOK(type, props),
         NEW input \in Inputs[type], NEW value \in Values(input)
  PROVE  PropsOK(type, Store(type, props, input, value))
<1> DEFINE new == Store(type, props, input, value)
<1>1. /\ IF input \in Deletable[type] /\ value = ""
           THEN DOMAIN new = DOMAIN props \ {input}
           ELSE DOMAIN new = DOMAIN props \cup {input} /\ new[input] = value
      /\ \A other \in DOMAIN props : other # input => new[other] = props[other]
  BY DEF Store, Put, Restrict
<1> HIDE DEF new
<1>2. PropsOK(type, new) BY <1>1 DEF PropsOK
<1> QED BY <1>2 DEF new

\* Texts that the validator refuses are visibly wrong.
LEMMA TextsVisible ==
  ASSUME NEW type \in TextTypes, NEW props, PropsOK(type, props), ~VisiblyWrong(type, props)
  PROVE  /\ type = "heading" => ValidTexts(props, {"text"}, {}, {"anchor"})
         /\ type = "code" => ValidTexts(props, {"language"}, {"code"}, {})
         /\ type = "callout" => ValidTexts(props, {"text"}, {}, {"title"})
         /\ type = "image" => ValidTexts(props, {"src"}, {"alt"}, {"caption"})
         /\ type = "item" => ValidTexts(props, {"title", "href"}, {}, {"description"})
<1>1. \A input \in Inputs[type] :
        /\ Shown(props, input) \in {"", "good"}
        /\ input \in MarkedRequired[type] => Shown(props, input) # ""
  BY DEF VisiblyWrong
<1>2. \A key \in DOMAIN props :
        /\ props[key] \in {"", "good"}
        /\ key \in MarkedRequired[type] \cup Deletable[type] => props[key] = "good"
  BY <1>1 DEF PropsOK, Shown
<1>3. CASE type = "heading"
  BY <1>2, <1>3 DEF PropsOK, Inputs, Deletable, MarkedRequired, ValidTexts, HasKeys
<1>4. CASE type = "code"
  BY <1>2, <1>4 DEF PropsOK, Inputs, Deletable, MarkedRequired, ValidTexts, HasKeys
<1>5. CASE type = "callout"
  BY <1>2, <1>5 DEF PropsOK, Inputs, Deletable, MarkedRequired, ValidTexts, HasKeys
<1>6. CASE type = "image"
  BY <1>2, <1>6 DEF PropsOK, Inputs, Deletable, MarkedRequired, ValidTexts, HasKeys
<1>7. CASE type = "item"
  BY <1>2, <1>7 DEF PropsOK, Inputs, Deletable, MarkedRequired, ValidTexts, HasKeys
<1> QED BY <1>3, <1>4, <1>5, <1>6, <1>7 DEF TextTypes

\* So is every other block that the validator refuses.
LEMMA FieldsVisible == FieldsInv => InvalidIsVisible
<1> SUFFICES ASSUME FieldsInv, ~VisiblyWrong(block.type, block.props),
                    ~(IsTable /\ \E c \in DOMAIN Headers : Headers[c] # "good"),
                    ~(IsRelated /\ \E k \in DOMAIN Related : VisiblyWrong("item", Related[k]))
             PROVE  IsContentBlock
  BY DEF InvalidIsVisible
<1>1. CASE block.type \in TextTypes
  <2>1. PropsOK(block.type, block.props) /\ block.type # "item" BY <1>1 DEF FieldsInv
  <2>2. /\ block.type = "heading" => ValidTexts(block.props, {"text"}, {}, {"anchor"})
        /\ block.type = "code" => ValidTexts(block.props, {"language"}, {"code"}, {})
        /\ block.type = "callout" => ValidTexts(block.props, {"text"}, {}, {"title"})
        /\ block.type = "image" => ValidTexts(block.props, {"src"}, {"alt"}, {"caption"})
    BY <1>1, <2>1, TextsVisible
  <2> QED BY <1>1, <2>1, <2>2 DEF TextTypes, IsContentBlock, ValidProps
<1>2. CASE IsTable
  <2>1. TableOK(block.props) BY <1>2 DEF FieldsInv
  <2>2. \A c \in DOMAIN block.props.headers : block.props.headers[c] = "good"
    BY <1>2 DEF Headers
  <2>3. "caption" \in DOMAIN block.props => block.props.caption = "good"
    <3>1. Shown(block.props, "caption") \in {"", "good"}
      <4>1. "caption" \in Inputs[block.type] BY <1>2 DEF IsTable, Inputs
      <4> QED BY <4>1 DEF VisiblyWrong
    <3> QED BY <2>1, <3>1 DEF TableOK, Shown
  <2>4. \A r \in DOMAIN block.props.rows : Len(block.props.rows[r]) = Len(block.props.headers)
    <3>1. DOMAIN block.props.rows = 1 .. Len(block.props.rows)
      <4>1. block.props.rows \in Seq(Seq(Typed)) BY <2>1 DEF TableOK
      <4> QED BY <4>1, LenProperties
    <3> QED BY <2>1, <3>1 DEF TableOK
  <2>5. ValidTable(block.props) BY <2>1, <2>2, <2>3, <2>4 DEF TableOK, ValidTable, HasKeys
  <2> QED BY <1>2, <2>5 DEF IsTable, IsContentBlock, ValidProps
<1>3. CASE IsRelated
  <2>1. RelatedOK(block.props) BY <1>3 DEF FieldsInv
  <2>2. ASSUME NEW k \in DOMAIN block.props.items
        PROVE  ValidTexts(block.props.items[k], {"title", "href"}, {}, {"description"})
    <3>1. block.props.items[k] \in ItemProps BY <2>1 DEF RelatedOK
    <3>2. PropsOK("item", block.props.items[k]) BY <3>1 DEF ItemProps
    <3>3. ~VisiblyWrong("item", block.props.items[k]) BY <1>3 DEF Related
    <3> QED BY <3>2, <3>3, TextsVisible DEF TextTypes
  <2> QED BY <1>3, <2>1, <2>2 DEF IsRelated, IsContentBlock, ValidProps, RelatedOK
<1> QED BY <1>1, <1>2, <1>3 DEF FieldsInv, TextTypes, IsTable, IsRelated

\* A block as it comes from the palette or from the API satisfies the invariant.
LEMMA FieldsInitOK == FieldsInit => FieldsInv
<1> SUFFICES ASSUME NEW type \in DOMAIN Inputs \ {"item"}, block = CreateDefaultBlock(type)
             PROVE  FieldsInv
  BY DEF FieldsInit
<1> USE FieldsAssumption
<1>1. type \in {"heading", "code", "callout", "image", "table", "related_content"}
  BY DEF Inputs
<1>2. CASE type = "heading"
  <2>1. /\ block.type = "heading" /\ block.props = [text |-> "good"]
        /\ DOMAIN block = {"type", "props"}
    BY <1>2 DEF CreateDefaultBlock
  <2>2. PropsOK("heading", block.props)
    <3>1. Inputs["heading"] = {"text", "anchor"} /\ Deletable["heading"] = {"anchor"}
      BY DEF Inputs, Deletable
    <3>2. DOMAIN block.props = {"text"} /\ block.props["text"] = "good"
      BY <2>1
    <3> QED BY <3>1, <3>2 DEF PropsOK, Values
  <2> QED BY <2>1, <2>2 DEF FieldsInv, IsTable, IsRelated
<1>3. CASE type = "code"
  <2>1. /\ block.type = "code" /\ block.props = [language |-> "good", code |-> ""]
        /\ DOMAIN block = {"type", "props"}
    BY <1>3 DEF CreateDefaultBlock
  <2>2. PropsOK("code", block.props)
    <3>1. Inputs["code"] = {"language", "code"} /\ Deletable["code"] = {}
      BY DEF Inputs, Deletable
    <3>2. ASSUME NEW props, props = [language |-> "good", code |-> ""]
          PROVE  DOMAIN props = {"language", "code"}
      BY <3>2
    <3>3. ASSUME NEW props, props = [language |-> "good", code |-> ""]
          PROVE  props["language"] = "good" /\ props["code"] = ""
      BY <3>3
    <3> QED BY <2>1, <3>1, <3>2, <3>3 DEF PropsOK, Values
  <2> QED BY <2>1, <2>2 DEF FieldsInv, IsTable, IsRelated
<1>4. CASE type = "callout"
  <2>1. /\ block.type = "callout" /\ block.props = [text |-> "good"]
        /\ DOMAIN block = {"type", "props"}
    BY <1>4 DEF CreateDefaultBlock
  <2>2. PropsOK("callout", block.props)
    <3>1. Inputs["callout"] = {"title", "text"} /\ Deletable["callout"] = {"title"}
      BY DEF Inputs, Deletable
    <3>2. DOMAIN block.props = {"text"} /\ block.props["text"] = "good"
      BY <2>1
    <3> QED BY <3>1, <3>2 DEF PropsOK, Values
  <2> QED BY <2>1, <2>2 DEF FieldsInv, IsTable, IsRelated
<1>5. CASE type = "image"
  <2>1. /\ block.type = "image" /\ block.props = [src |-> "good", alt |-> ""]
        /\ DOMAIN block = {"type", "props"}
    BY <1>5 DEF CreateDefaultBlock
  <2>2. PropsOK("image", block.props)
    <3>1. Inputs["image"] = {"src", "alt", "caption"} /\ Deletable["image"] = {"caption"}
      BY DEF Inputs, Deletable
    <3>2. ASSUME NEW props, props = [src |-> "good", alt |-> ""]
          PROVE  DOMAIN props = {"src", "alt"}
      BY <3>2
    <3>3. ASSUME NEW props, props = [src |-> "good", alt |-> ""]
          PROVE  props["src"] = "good" /\ props["alt"] = ""
      BY <3>3
    <3> QED BY <2>1, <3>1, <3>2, <3>3 DEF PropsOK, Values
  <2> QED BY <2>1, <2>2 DEF FieldsInv, IsTable, IsRelated
<1>6. CASE type = "table"
  <2> DEFINE props == [headers |-> <<"good">>, rows |-> << <<"">> >>]
  <2>1. block.type = "table" /\ block.props = props /\ DOMAIN block = {"type", "props"}
    BY <1>6 DEF CreateDefaultBlock
  <2>2. /\ props.headers = <<"good">> /\ props.rows = << <<"">> >>
        /\ DOMAIN props = {"headers", "rows"}
    OBVIOUS
  <2>3. /\ <<"good">> \in Seq(Typed) /\ Len(<<"good">>) = 1
        /\ <<"">> \in Seq(Typed) /\ Len(<<"">>) = 1
    BY DEF Typed
  <2>4. \A row \in Seq(Typed) :
          /\ <<row>> \in Seq(Seq(Typed)) /\ Len(<<row>>) = 1
          /\ \A r \in 1 .. 1 : <<row>>[r] = row
    OBVIOUS
  <2> HIDE DEF props
  <2>5. TableOK(props)
    <3>1. /\ props.headers \in Seq(Typed) /\ Len(props.headers) = 1
          /\ props.rows \in Seq(Seq(Typed)) /\ Len(props.rows) = 1
          /\ \A r \in 1 .. 1 : props.rows[r] = <<"">>
      <4>1. <<"">> \in Seq(Typed) BY <2>3
      <4>2. /\ props.rows \in Seq(Seq(Typed)) /\ Len(props.rows) = 1
            /\ \A r \in 1 .. 1 : props.rows[r] = <<"">>
        BY ONLY <2>2, <2>4, <4>1
      <4> QED BY <2>2, <2>3, <4>2
    <3>2. 1 \in 1 .. MaxColumns /\ 1 \in 1 .. MaxRows OBVIOUS
    <3> QED BY <2>2, <2>3, <3>1, <3>2 DEF TableOK
  <2> QED BY <2>1, <2>5 DEF FieldsInv, IsTable, IsRelated, TextTypes
<1>7. CASE type = "related_content"
  <2> DEFINE item == [title |-> "good", href |-> "good"]
             props == [items |-> <<item>>]
  <2>1. block.type = "related_content" /\ block.props = props /\ DOMAIN block = {"type", "props"}
    BY <1>7 DEF CreateDefaultBlock
  <2>2. item \in ItemProps
    <3>1. item = [k \in {"title", "href"} |-> "good"] OBVIOUS
    <3>2. item \in [{"title", "href"} -> Typed] BY <3>1 DEF Typed
    <3>3. {"title", "href"} \in SUBSET Inputs.item BY DEF Inputs
    <3>4. PropsOK("item", item) BY <3>1 DEF PropsOK, Inputs, Deletable, Values
    <3> QED BY <3>2, <3>3, <3>4 DEF ItemProps
  <2>3. props.items = <<item>> /\ DOMAIN props = {"items"} OBVIOUS
  <2> HIDE DEF props, item
  <2>4. <<item>> \in Seq(ItemProps) /\ Len(<<item>>) = 1 BY <2>2
  <2>5. RelatedOK(props) BY <2>3, <2>4 DEF RelatedOK
  <2> QED BY <2>1, <2>5 DEF FieldsInv, IsTable, IsRelated, TextTypes
<1> QED BY <1>1, <1>2, <1>3, <1>4, <1>5, <1>6, <1>7

\* Every edit replaces the properties of the block.
LEMMA PropsReplaced ==
  ASSUME FieldsInv, NEW props, block' = [block EXCEPT !.props = props],
         block.type \in TextTypes => PropsOK(block.type, props),
         IsTable => TableOK(props),
         IsRelated => RelatedOK(props)
  PROVE  FieldsInv'
<1>1. block'.type = block.type /\ block'.props = props /\ DOMAIN block' = DOMAIN block
  BY DEF FieldsInv
<1>2. (block.type \in TextTypes => PropsOK(block.type, block.props))'
  BY <1>1 DEF PropsOK
<1>3. (IsTable => TableOK(block.props))' BY <1>1 DEF IsTable, TableOK
<1>4. (IsRelated => RelatedOK(block.props))' BY <1>1 DEF IsRelated, RelatedOK, ItemProps, PropsOK
<1> QED BY <1>1, <1>2, <1>3, <1>4 DEF FieldsInv

\* Typing keeps it: a key that must not be deleted stays, one that may be is never empty.
LEMMA TypeStep ==
  ASSUME FieldsInv, Type
  PROVE  FieldsInv'
<1>0. PICK input \in Inputs[block.type] :
        \E value \in Values(input) :
          block' = [block EXCEPT !.props = Store(block.type, @, input, value)]
  BY DEF Type
<1>1. PICK value \in Values(input) :
        block' = [block EXCEPT !.props = Store(block.type, @, input, value)]
  BY <1>0
<1> DEFINE new == Store(block.type, block.props, input, value)
<1>2. block' = [block EXCEPT !.props = new] BY <1>1
<1>3. CASE block.type \in TextTypes
  <2>1. PropsOK(block.type, new) BY <1>3, StoreCorrect DEF FieldsInv
  <2>2. ~IsTable /\ ~IsRelated BY <1>3 DEF TextTypes, IsTable, IsRelated
  <2> HIDE DEF new
  <2> QED BY <1>2, <2>1, <2>2, PropsReplaced
<1>4. CASE IsTable
  <2>1. input = "caption" BY <1>4 DEF IsTable, Inputs
  <2>2. TableOK(block.props) BY <1>4 DEF FieldsInv
  <2>3. /\ IF value = "" THEN DOMAIN new = DOMAIN block.props \ {"caption"}
           ELSE DOMAIN new = DOMAIN block.props \cup {"caption"} /\ new["caption"] = value
        /\ \A key \in DOMAIN block.props : key # "caption" => new[key] = block.props[key]
    <3>1. Deletable[block.type] = {"caption"} BY <1>4 DEF IsTable, Deletable
    <3> QED BY <2>1, <3>1 DEF Store, Put, Restrict
  <2> HIDE DEF new
  <2>4. new.headers = block.props.headers /\ new.rows = block.props.rows
    BY <2>2, <2>3 DEF TableOK
  <2>5. "caption" \in DOMAIN new => new.caption = value /\ value # "" BY <2>3
  <2>6. TableOK(new) BY <2>1, <2>2, <2>3, <2>4, <2>5 DEF TableOK
  <2>7. block.type \notin TextTypes /\ ~IsRelated BY <1>4 DEF IsTable, IsRelated, TextTypes
  <2> QED BY <1>2, <2>6, <2>7, PropsReplaced
<1>5. ~IsRelated BY DEF IsRelated, Inputs
<1> QED BY <1>3, <1>4, <1>5 DEF FieldsInv, TextTypes, IsTable, IsRelated

\* A changed entry of a table is typed, and the table keeps its shape.
LEMMA TableReplaced ==
  ASSUME FieldsInv, IsTable, NEW props, block' = [block EXCEPT !.props = props], TableOK(props)
  PROVE  FieldsInv'
<1>1. block.type \notin TextTypes /\ ~IsRelated BY DEF IsTable, IsRelated, TextTypes
<1> QED BY <1>1, PropsReplaced

\* The headers are replaced, and every row has as many cells as there are.
LEMMA HeadersStep ==
  ASSUME FieldsInv, IsTable, NEW headers \in Seq(Typed), Len(headers) \in 1 .. MaxColumns,
         UpdateHeaders(headers)
  PROVE  FieldsInv'
<1> DEFINE old == block.props
           rows == Resized(old.rows, headers)
           new == Put(Put(old, "headers", headers), "rows", rows)
<1>1. block' = [block EXCEPT !.props = new] BY DEF UpdateHeaders, Rows
<1>2. TableOK(old) BY DEF FieldsInv
<1>3. /\ DOMAIN new = DOMAIN old \cup {"headers", "rows"}
      /\ new["headers"] = headers /\ new["rows"] = rows
      /\ \A key \in DOMAIN old : key \notin {"headers", "rows"} => new[key] = old[key]
  BY DEF Put
<1>4. /\ old.rows \in Seq(Seq(Typed)) /\ Len(old.rows) \in 1 .. MaxRows
      /\ DOMAIN old.rows = 1 .. Len(old.rows) /\ DOMAIN headers = 1 .. Len(headers)
  BY <1>2, LenProperties DEF TableOK
<1> HIDE DEF old
<1>5. ASSUME NEW r \in 1 .. Len(old.rows)
      PROVE  rows[r] \in Seq(Typed) /\ Len(rows[r]) = Len(headers)
  <2>1. old.rows[r] \in Seq(Typed) BY <1>4
  <2>2. DOMAIN old.rows[r] = 1 .. Len(old.rows[r]) BY <2>1
  <2> DEFINE cell(c) == IF c \in DOMAIN old.rows[r] THEN old.rows[r][c] ELSE ""
  <2>3. \A c \in 1 .. Len(headers) : cell(c) \in Typed
    <3>1. "" \in Typed BY DEF Typed
    <3> QED BY <2>1, <2>2, <3>1, ElementOfSeq
  <2>4. rows[r] = [c \in 1 .. Len(headers) |-> cell(c)] BY <1>4 DEF Resized
  <2> HIDE DEF cell, rows
  <2> QED BY <2>3, <2>4
<1>6. rows \in Seq(Seq(Typed)) /\ Len(rows) = Len(old.rows)
  <2>1. rows = [r \in 1 .. Len(old.rows) |-> rows[r]] BY <1>4 DEF Resized
  <2> HIDE DEF rows
  <2>2. rows \in [1 .. Len(old.rows) -> Seq(Typed)] BY <1>5, <2>1
  <2> QED BY <1>4, <2>2
<1> HIDE DEF rows, new
<1>7. TableOK(new) BY <1>2, <1>3, <1>4, <1>5, <1>6 DEF TableOK
<1> QED BY <1>1, <1>7, TableReplaced

\* The rows are replaced by rows as long as the headers.
LEMMA RowsStep ==
  ASSUME FieldsInv, IsTable, NEW rows \in Seq(Seq(Typed)), Len(rows) \in 1 .. MaxRows,
         \A r \in 1 .. Len(rows) : Len(rows[r]) = Len(Headers),
         SetProp("rows", rows)
  PROVE  FieldsInv'
<1> DEFINE old == block.props
           new == Put(old, "rows", rows)
<1>1. block' = [block EXCEPT !.props = new] BY DEF SetProp
<1>2. TableOK(old) BY DEF FieldsInv
<1>3. /\ DOMAIN new = DOMAIN old \cup {"rows"} /\ new["rows"] = rows
      /\ \A key \in DOMAIN old : key # "rows" => new[key] = old[key]
  BY DEF Put
<1>4. Headers = old.headers BY DEF Headers
<1> HIDE DEF old, new
<1>5. TableOK(new) BY <1>2, <1>3, <1>4 DEF TableOK
<1> QED BY <1>1, <1>5, TableReplaced

\* What the invariant says of a table, in the form in which the steps use it.
LEMMA TableFacts ==
  ASSUME FieldsInv, IsTable
  PROVE  /\ Headers \in Seq(Typed) /\ Len(Headers) \in 1 .. MaxColumns
         /\ DOMAIN Headers = 1 .. Len(Headers)
         /\ Rows \in Seq(Seq(Typed)) /\ Len(Rows) \in 1 .. MaxRows
         /\ DOMAIN Rows = 1 .. Len(Rows)
         /\ \A r \in 1 .. Len(Rows) :
              Rows[r] \in Seq(Typed) /\ Len(Rows[r]) = Len(Headers) /\ DOMAIN Rows[r] = 1 .. Len(Headers)
<1>1. TableOK(block.props) BY DEF FieldsInv
<1>2. /\ Headers \in Seq(Typed) /\ Len(Headers) \in 1 .. MaxColumns
      /\ Rows \in Seq(Seq(Typed)) /\ Len(Rows) \in 1 .. MaxRows
      /\ \A r \in 1 .. Len(Rows) : Len(Rows[r]) = Len(Headers)
  BY <1>1 DEF TableOK, Headers, Rows
<1>3. DOMAIN Headers = 1 .. Len(Headers) /\ DOMAIN Rows = 1 .. Len(Rows)
  BY <1>2, LenProperties
<1>4. \A r \in 1 .. Len(Rows) : Rows[r] \in Seq(Typed) BY <1>2, ElementOfSeq
<1>5. \A r \in 1 .. Len(Rows) : DOMAIN Rows[r] = 1 .. Len(Headers)
  BY <1>2, <1>4, LenProperties
<1> QED BY <1>2, <1>3, <1>4, <1>5

\* A row of empty cells is a sequence of text, of the width asked for.
LEMMA RowIsSeq ==
  ASSUME NEW n \in Nat, NEW T, NEW row \in [1 .. n -> T]
  PROVE  row \in Seq(T) /\ Len(row) = n
<1>1. row \in Seq(T) OBVIOUS
<1>2. Len(row) \in Nat /\ DOMAIN row = 1 .. Len(row) BY <1>1, LenProperties
<1>3. DOMAIN row = 1 .. n OBVIOUS
<1>4. Len(row) = n BY <1>2, <1>3
<1> QED BY <1>1, <1>4

\* The card that addRelated appends has both its keys, both empty.
LEMMA SameCard ==
  ASSUME NEW e PROVE [title |-> e, href |-> e] = [k \in {"title", "href"} |-> e]
OBVIOUS

\* The table editor keeps it: every row stays as wide as the headers.
LEMMA TableStep ==
  ASSUME FieldsInv,
         TypeHeader \/ TypeCell \/ AddColumn \/ RemoveColumn \/ AddRow \/ RemoveRow
  PROVE  FieldsInv'
<1> USE FieldsAssumption
<1>1. IsTable BY DEF TypeHeader, TypeCell, AddColumn, RemoveColumn, AddRow, RemoveRow
<1>2. \A input : Values(input) \subseteq Typed BY DEF Values, Typed
<1>3. CASE TypeHeader
  <2>1. PICK c \in DOMAIN Headers, value \in Values("header") :
          UpdateHeaders([Headers EXCEPT ![c] = value])
    BY <1>3 DEF TypeHeader
  <2> DEFINE new == [Headers EXCEPT ![c] = value]
  <2>2. new \in Seq(Typed) /\ Len(new) = Len(Headers)
    BY <1>1, <1>2, TableFacts, ExceptSeq
  <2> HIDE DEF new
  <2> QED BY <1>1, <2>1, <2>2, TableFacts, HeadersStep DEF new
<1>4. CASE AddColumn
  <2> DEFINE new == Append(Headers, "good")
  <2>1. new \in Seq(Typed) /\ Len(new) = Len(Headers) + 1
    <3>1. "good" \in Typed BY DEF Typed
    <3> QED BY <1>1, <3>1, TableFacts
  <2>2. Len(new) \in 1 .. MaxColumns BY <1>1, <1>4, <2>1, TableFacts DEF AddColumn
  <2>3. UpdateHeaders(new) BY <1>4 DEF AddColumn
  <2> HIDE DEF new
  <2> QED BY <1>1, <2>1, <2>2, <2>3, HeadersStep
<1>5. CASE RemoveColumn
  <2> DEFINE new == Front(Headers)
  <2>1. new \in Seq(Typed) /\ Len(new) = Len(Headers) - 1
    BY <1>1, TableFacts DEF Front
  <2>2. Len(new) \in 1 .. MaxColumns BY <1>1, <1>5, <2>1, TableFacts DEF RemoveColumn
  <2>3. UpdateHeaders(new) BY <1>5 DEF RemoveColumn
  <2> HIDE DEF new
  <2> QED BY <1>1, <2>1, <2>2, <2>3, HeadersStep
<1>6. CASE TypeCell
  <2>1. PICK r \in DOMAIN Rows :
          \E c \in DOMAIN Rows[r], value \in Values("cell") :
            SetProp("rows", [Rows EXCEPT ![r][c] = value])
    BY <1>6 DEF TypeCell
  <2>2. PICK c \in DOMAIN Rows[r], value \in Values("cell") :
          SetProp("rows", [Rows EXCEPT ![r][c] = value])
    BY <2>1
  <2> DEFINE row == [Rows[r] EXCEPT ![c] = value]
             new == [Rows EXCEPT ![r] = row]
  <2>3. row \in Seq(Typed) /\ Len(row) = Len(Headers)
    BY <1>1, <1>2, TableFacts, ExceptSeq
  <2>4. SetProp("rows", new) BY <2>2
  <2> HIDE DEF row
  <2>5. /\ new \in Seq(Seq(Typed)) /\ Len(new) = Len(Rows)
        /\ \A k \in 1 .. Len(Rows) : new[k] = IF k = r THEN row ELSE Rows[k]
    BY <1>1, <2>3, TableFacts, ExceptSeq
  <2> HIDE DEF new
  <2>6. \A k \in 1 .. Len(new) : Len(new[k]) = Len(Headers)
    BY <1>1, <2>3, <2>5, TableFacts
  <2> QED BY <1>1, <2>4, <2>5, <2>6, TableFacts, RowsStep
<1>7. CASE AddRow
  <2> DEFINE row == [c \in DOMAIN Headers |-> ""]
             new == Append(Rows, row)
  <2>1. row \in Seq(Typed) /\ Len(row) = Len(Headers)
    <3>1. "" \in Typed BY DEF Typed
    <3>2. Len(Headers) \in Nat /\ DOMAIN Headers = 1 .. Len(Headers) BY <1>1, TableFacts
    <3>3. row = [c \in 1 .. Len(Headers) |-> ""] BY <3>2
    <3>4. row \in [1 .. Len(Headers) -> Typed] BY <3>1, <3>3
    <3> HIDE DEF row
    <3> QED BY <3>2, <3>4, RowIsSeq
  <2>2. SetProp("rows", new) /\ Len(Rows) < MaxRows BY <1>7 DEF AddRow
  <2> HIDE DEF row
  <2>3. /\ new \in Seq(Seq(Typed)) /\ Len(new) = Len(Rows) + 1
        /\ \A k \in 1 .. Len(Rows) + 1 : new[k] = IF k = Len(Rows) + 1 THEN row ELSE Rows[k]
    BY <1>1, <2>1, TableFacts
  <2> HIDE DEF new
  <2>4. \A k \in 1 .. Len(new) : Len(new[k]) = Len(Headers)
    <3> SUFFICES ASSUME NEW k \in 1 .. Len(Rows) + 1 PROVE Len(new[k]) = Len(Headers)
      BY <2>3
    <3>1. CASE k = Len(Rows) + 1 BY <2>1, <2>3, <3>1
    <3>2. CASE k \in 1 .. Len(Rows)
      <4>1. new[k] = Rows[k] BY <1>1, <2>3, <3>2, TableFacts
      <4> QED BY <1>1, <3>2, <4>1, TableFacts
    <3> QED BY <1>1, <3>1, <3>2, TableFacts
  <2>5. Len(new) \in 1 .. MaxRows BY <1>1, <2>2, <2>3, TableFacts
  <2> QED BY <1>1, <2>2, <2>3, <2>4, <2>5, RowsStep
<1>8. CASE RemoveRow
  <2>1. PICK r \in DOMAIN Rows : SetProp("rows", RemoveAt(Rows, r)) BY <1>8 DEF RemoveRow
  <2> DEFINE new == RemoveAt(Rows, r)
  <2>2. /\ new \in Seq(Seq(Typed)) /\ Len(new) = Len(Rows) - 1
        /\ \A k \in 1 .. Len(Rows) - 1 : new[k] = IF k < r THEN Rows[k] ELSE Rows[k + 1]
    <3>1. Rows \in Seq(Seq(Typed)) /\ r \in 1 .. Len(Rows) BY <1>1, TableFacts
    <3> QED BY <3>1, RemoveAtElements, Zenon
  <2> HIDE DEF new
  <2>3. \A k \in 1 .. Len(new) : Len(new[k]) = Len(Headers)
    <3> SUFFICES ASSUME NEW k \in 1 .. Len(Rows) - 1 PROVE Len(new[k]) = Len(Headers)
      BY <2>2
    <3>1. k \in 1 .. Len(Rows) /\ k + 1 \in 1 .. Len(Rows) BY <1>1, TableFacts
    <3>2. new[k] = Rows[k] \/ new[k] = Rows[k + 1] BY <2>2
    <3>3. Len(Rows[k]) = Len(Headers) /\ Len(Rows[k + 1]) = Len(Headers)
      BY <1>1, <3>1, TableFacts, Zenon
    <3> QED BY <3>2, <3>3
  <2>4. Len(new) \in 1 .. MaxRows BY <1>1, <1>8, <2>2, TableFacts DEF RemoveRow
  <2> QED BY <1>1, <2>1, <2>2, <2>3, <2>4, RowsStep DEF new
<1> QED BY <1>3, <1>4, <1>5, <1>6, <1>7, <1>8

\* The items are replaced by items that have been typed.
LEMMA ItemsStep ==
  ASSUME FieldsInv, IsRelated, NEW items \in Seq(ItemProps), Len(items) \in 1 .. MaxRelated,
         SetProp("items", items)
  PROVE  FieldsInv'
<1> DEFINE old == block.props
           new == Put(old, "items", items)
<1>1. block' = [block EXCEPT !.props = new] BY DEF SetProp
<1>2. DOMAIN old = {"items"} BY DEF FieldsInv, RelatedOK
<1>3. DOMAIN new = DOMAIN old \cup {"items"} /\ new["items"] = items BY DEF Put
<1> HIDE DEF old, new
<1>4. RelatedOK(new) BY <1>2, <1>3 DEF RelatedOK
<1>5. block.type \notin TextTypes /\ ~IsTable BY DEF IsTable, IsRelated, TextTypes
<1> QED BY <1>1, <1>4, <1>5, PropsReplaced

\* Typing into a card of related content leaves a card.
LEMMA StoredItem ==
  ASSUME NEW item \in ItemProps, NEW input \in Inputs.item, NEW value \in Values(input)
  PROVE  Store("item", item, input, value) \in ItemProps
<1> DEFINE new == Store("item", item, input, value)
<1>1. PICK keys \in SUBSET Inputs.item : item \in [keys -> Typed] BY DEF ItemProps
<1>2. PropsOK("item", item) BY DEF ItemProps
<1>3. PropsOK("item", new)
  <2>1. Inputs.item = Inputs["item"] OBVIOUS
  <2> HIDE DEF new
  <2> QED BY <1>2, <2>1, StoreCorrect DEF TextTypes, new
<1>4. value \in Typed BY DEF Values, Typed
<1>5. \E set \in SUBSET Inputs.item : new \in [set -> Typed]
  <2>1. CASE input \in Deletable["item"] /\ value = ""
    <3>1. new = [k \in keys \ {input} |-> item[k]] BY <1>1, <2>1 DEF Store, Restrict
    <3> HIDE DEF new
    <3>2. new \in [keys \ {input} -> Typed] BY <1>1, <3>1
    <3> QED BY <3>2
  <2>2. CASE ~(input \in Deletable["item"] /\ value = "")
    <3>1. new = [k \in keys \cup {input} |-> IF k = input THEN value ELSE item[k]]
      BY <1>1, <2>2 DEF Store, Put
    <3> HIDE DEF new
    <3>2. new \in [keys \cup {input} -> Typed] BY <1>1, <1>4, <3>1
    <3>3. keys \cup {input} \in SUBSET Inputs.item BY <1>1
    <3> QED BY <3>2, <3>3
  <2> QED BY <2>1, <2>2
<1> HIDE DEF new
<1>6. new \in ItemProps BY <1>3, <1>5 DEF ItemProps
<1> QED BY <1>6 DEF new

\* The editor of related content keeps it: cards stay cards, within the limits.
LEMMA RelatedStep ==
  ASSUME FieldsInv, TypeItem \/ AddRelated \/ RemoveRelated
  PROVE  FieldsInv'
<1> USE FieldsAssumption
<1>1. IsRelated BY DEF TypeItem, AddRelated, RemoveRelated
<1>2. /\ Related \in Seq(ItemProps) /\ Len(Related) \in 1 .. MaxRelated
      /\ DOMAIN Related = 1 .. Len(Related)
  <2>1. Related \in Seq(ItemProps) /\ Len(Related) \in 1 .. MaxRelated
    BY <1>1 DEF FieldsInv, RelatedOK, Related
  <2> QED BY <2>1, LenProperties
<1>3. CASE TypeItem
  <2>1. PICK k \in DOMAIN Related, input \in Inputs.item :
          \E value \in Values(input) :
            SetProp("items", [Related EXCEPT ![k] = Store("item", @, input, value)])
    BY <1>3 DEF TypeItem
  <2>2. PICK value \in Values(input) :
          SetProp("items", [Related EXCEPT ![k] = Store("item", @, input, value)])
    BY <2>1
  <2> DEFINE item == Store("item", Related[k], input, value)
             new == [Related EXCEPT ![k] = item]
  <2>3. SetProp("items", new) BY <2>2
  <2>4. item \in ItemProps
    <3>1. Related[k] \in ItemProps BY <1>2, ElementOfSeq
    <3> QED BY <3>1, StoredItem
  <2> HIDE DEF item
  <2>5. new \in Seq(ItemProps) /\ Len(new) = Len(Related) BY <1>2, <2>4, ExceptSeq
  <2> HIDE DEF new
  <2> QED BY <1>1, <1>2, <2>3, <2>5, ItemsStep
<1>4. CASE AddRelated
  <2> DEFINE item == [title |-> "", href |-> ""]
             new == Append(Related, item)
  <2>1. SetProp("items", new) /\ Len(Related) < MaxRelated BY <1>4 DEF AddRelated
  <2>2. item \in ItemProps
    <3>1. item = [k \in {"title", "href"} |-> ""] BY SameCard
    <3>2. item \in [{"title", "href"} -> Typed] BY <3>1 DEF Typed
    <3>3. {"title", "href"} \in SUBSET Inputs.item BY DEF Inputs
    <3>4. PropsOK("item", item) BY <3>1 DEF PropsOK, Inputs, Deletable, Values
    <3> QED BY <3>2, <3>3, <3>4 DEF ItemProps
  <2> HIDE DEF item
  <2>3. new \in Seq(ItemProps) /\ Len(new) = Len(Related) + 1 BY <1>2, <2>2
  <2> HIDE DEF new
  <2>4. Len(new) \in 1 .. MaxRelated BY <1>2, <2>1, <2>3
  <2> QED BY <1>1, <2>1, <2>3, <2>4, ItemsStep
<1>5. CASE RemoveRelated
  <2>1. PICK k \in DOMAIN Related : SetProp("items", RemoveAt(Related, k))
    BY <1>5 DEF RemoveRelated
  <2> DEFINE new == RemoveAt(Related, k)
  <2>2. new \in Seq(ItemProps) /\ Len(new) = Len(Related) - 1
    BY <1>2, RemoveAtElements
  <2> HIDE DEF new
  <2>3. Len(new) \in 1 .. MaxRelated BY <1>2, <1>5, <2>2 DEF RemoveRelated
  <2> QED BY <1>1, <2>1, <2>2, <2>3, ItemsStep DEF new
<1> QED BY <1>3, <1>4, <1>5

\* Every step keeps the invariant of the fields.
LEMMA FieldsStepOK == FieldsInv /\ [FieldsNext]_block => FieldsInv'
<1>1. FieldsInv /\ UNCHANGED block => FieldsInv'
  BY DEF FieldsInv, PropsOK, TableOK, RelatedOK, ItemProps, IsTable, IsRelated
<1> QED BY <1>1, TypeStep, TableStep, RelatedStep DEF FieldsNext

\* The inductive invariant of the fields: a table keeps its shape, a list its
\* limits, a required key is never lost and an optional one never empty.
THEOREM FieldsInvariance == FieldsSpec => []FieldsInv
BY FieldsInitOK, FieldsStepOK, PTL DEF FieldsSpec

\* What the validator refuses is always visible in an input, for tables and lists
\* of any size.
THEOREM VisibleCorrect == FieldsSpec => []InvalidIsVisible
BY FieldsInvariance, FieldsVisible, PTL
=============================================================================
