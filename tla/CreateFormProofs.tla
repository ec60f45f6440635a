-------------------------- MODULE CreateFormProofs --------------------------
(***************************************************************************)
(* Proofs about CreateForm for any number of tabs, visits, keys and slugs. *)
(* What makes the properties inductive is that a content key and a visit   *)
(* of the form belong together wherever they occur: in an item, in a       *)
(* request under way, also one whose tab has gone, and in an open form.    *)
(***************************************************************************)
EXTENDS CreateForm, TLAPS

\* The key is in use for that visit.
Uses(key, visit) ==
  \/ \E item \in items : item.contentKey = key /\ item.visit = visit
  \/ \E r \in requests : r.contentKey = key /\ r.visit = visit
  \/ \E t \in Tabs : form[t] # None /\ form[t].contentKey = key /\ form[t].visit = visit

\* One key per visit and one visit per key.  A visit that has drawn no key has
\* left no trace, nor has one that is still to come.
KeysOK ==
  /\ \A k, l \in Keys, v, w \in 1 .. MaxVisits : Uses(k, v) /\ Uses(l, w) => (k = l <=> v = w)
  /\ \A k \in Keys, v \in 1 .. MaxVisits : Uses(k, v) => v <= visits
  /\ \A t \in Tabs, k \in Keys, v \in 1 .. MaxVisits :
       form[t] # None /\ form[t].contentKey = None /\ form[t].visit = v => ~Uses(k, v)

\* Every tab shows a visit of its own.
FormsOK ==
  /\ \A t \in Tabs : form[t] # None => form[t].visit <= visits
  /\ \A t, u \in Tabs : form[t] # None /\ form[u] # None /\ form[t].visit = form[u].visit => t = u

\* A request that a tab waits for is about the form that it shows.
RequestsOK ==
  \A r \in requests : r.from # None =>
    /\ form[r.from] # None
    /\ form[r.from].contentKey = r.contentKey
    /\ form[r.from].visit = r.visit

\* The form's own item exists.
Made(t) ==
  \E item \in items : item.contentKey = form[t].contentKey /\ item.visit = form[t].visit

RepliesOK ==
  \A t \in Tabs : reply[t] # "none" => form[t] # None /\ (reply[t] = "created" => Made(t))

\* The API's part of it: a content key names one item.
ItemsOK == \A i, j \in items : i.contentKey = j.contentKey => i = j

IInv ==
  /\ TypeOK
  /\ KeysOK
  /\ FormsOK
  /\ RequestsOK
  /\ RepliesOK
  /\ ItemsOK
  /\ SuccessIsTrue

-----------------------------------------------------------------------------
\* An open form is a record, and None is none.
LEMMA OpenForm ==
  ASSUME TypeOK, NEW t \in Tabs, form[t] # None
  PROVE  form[t] \in Form
BY DEF TypeOK

\* In the first state there is nothing to compare.
LEMMA Initially == Init => IInv
<1> SUFFICES ASSUME Init PROVE IInv OBVIOUS
<1> USE FormAssumption DEF Init
<1>1. TypeOK BY DEF TypeOK, Replies
<1>2. \A k, v : ~Uses(k, v) BY DEF Uses
<1>3. KeysOK BY <1>2 DEF KeysOK
<1> QED
  BY <1>1, <1>3 DEF IInv, FormsOK, RequestsOK, RepliesOK, ItemsOK, SuccessIsTrue

\* A new visit has drawn no key yet.
LEMMA OpenStep ==
  ASSUME IInv, NEW t \in Tabs, Open(t)
  PROVE  IInv'
<1> USE FormAssumption DEF IInv
<1>1. PICK slug \in InvalidSlugs :
        form' = [form EXCEPT ![t] =
          [visit |-> visits + 1, contentKey |-> None, slug |-> slug, busy |-> FALSE,
           blockedStatus |-> "none", leaving |-> FALSE]]
  BY DEF Open
<1>2. /\ form[t] = None
      /\ visits \in 0 .. MaxVisits - 1 /\ visits' = visits + 1
      /\ UNCHANGED <<items, session, allowed, requests, reply>>
  BY DEF Open, TypeOK, apiVars
<1>3. /\ form'[t] = [visit |-> visits + 1, contentKey |-> None, slug |-> slug, busy |-> FALSE,
                     blockedStatus |-> "none", leaving |-> FALSE]
      /\ form'[t] \in Form
      /\ \A u \in Tabs \ {t} : form'[u] = form[u]
  BY <1>1, <1>2 DEF TypeOK, Form
<1>4. TypeOK' BY <1>1, <1>2, <1>3 DEF TypeOK
<1>5. \A k \in Keys : \A v : Uses(k, v)' => Uses(k, v) BY <1>2, <1>3 DEF Uses
<1>6. \A u \in Tabs : form'[u] # None =>
        \/ u = t /\ form'[u].visit = visits + 1
        \/ u # t /\ form'[u] = form[u] /\ form[u].visit <= visits
  BY <1>3 DEF FormsOK
<1>7. KeysOK'
  <2>1. (\A k, l \in Keys, v, w \in 1 .. MaxVisits : Uses(k, v) /\ Uses(l, w) => (k = l <=> v = w))'
    BY <1>5 DEF KeysOK
  <2>2. (\A k \in Keys, v \in 1 .. MaxVisits : Uses(k, v) => v <= visits)'
    BY <1>2, <1>5 DEF KeysOK
  <2>3. ASSUME NEW u \in Tabs, NEW k \in Keys, NEW v \in 1 .. MaxVisits,
               form'[u] # None, form'[u].contentKey = None, form'[u].visit = v
        PROVE  ~Uses(k, v)'
    <3>1. CASE u = t
      <4>1. ~Uses(k, v) BY <1>2, <1>3, <2>3, <3>1 DEF KeysOK
      <4> QED BY <4>1, <1>5
    <3>2. CASE u # t
      <4>1. ~Uses(k, v) BY <3>2, <2>3, <1>3 DEF KeysOK
      <4> QED BY <4>1, <1>5
    <3> QED BY <3>1, <3>2
  <2> QED BY <2>1, <2>2, <2>3 DEF KeysOK
<1>8. FormsOK' BY <1>2, <1>3, <1>6, OpenForm DEF FormsOK, Form
<1>9. RequestsOK' /\ RepliesOK' /\ ItemsOK' /\ SuccessIsTrue'
  BY <1>2, <1>3 DEF RequestsOK, RepliesOK, ItemsOK, SuccessIsTrue, Made, TypeOK, Request
<1> QED BY <1>4, <1>7, <1>8, <1>9

\* What is left behind keeps its key and its visit, and waits for nobody.
LEMMA LeaveStep ==
  ASSUME IInv, NEW t \in Tabs, Leave(t)
  PROVE  IInv'
<1> USE FormAssumption DEF IInv, Leave, apiVars
<1>1. form'[t] = None /\ reply'[t] = "none"
      /\ \A u \in Tabs \ {t} : form'[u] = form[u] /\ reply'[u] = reply[u]
  BY DEF TypeOK
<1>2. \A r \in requests' : \E q \in requests :
        /\ r.contentKey = q.contentKey /\ r.visit = q.visit /\ r.from # t
        /\ r.from # None => r = q
  BY DEF TypeOK, Request
<1>3. TypeOK'
  <2>1. requests' \subseteq Request BY DEF TypeOK, Request
  <2> QED BY <2>1 DEF TypeOK, Replies
<1>4. \A k, v : Uses(k, v)' => Uses(k, v) BY <1>1, <1>2 DEF Uses
<1>5. KeysOK' BY <1>1, <1>4 DEF KeysOK
<1>6. FormsOK' /\ ItemsOK' BY <1>1 DEF FormsOK, ItemsOK
<1>7. RequestsOK' BY <1>1, <1>2 DEF RequestsOK, TypeOK, Request
<1>8. RepliesOK' /\ SuccessIsTrue' BY <1>1 DEF RepliesOK, SuccessIsTrue, Made
<1> QED BY <1>3, <1>5, <1>6, <1>7, <1>8

\* The slug is none of the keys.
LEMMA EditStep ==
  ASSUME IInv, NEW t \in Tabs, EditSlug(t)
  PROVE  IInv'
<1> USE FormAssumption DEF IInv
<1>1. PICK slug \in Slugs : form' = [form EXCEPT ![t].slug = slug] BY DEF EditSlug
<1>2. form[t] # None /\ UNCHANGED <<items, session, allowed, visits, requests, reply>>
  BY DEF EditSlug, apiVars
<1>3. /\ form'[t] \in Form
      /\ \A u \in Tabs : form'[u] # None <=> form[u] # None
      /\ \A u \in Tabs : form[u] # None => form'[u].contentKey = form[u].contentKey
      /\ \A u \in Tabs : form[u] # None => form'[u].visit = form[u].visit
      /\ \A u \in Tabs : form[u] # None => form'[u].leaving = form[u].leaving
  BY <1>1, <1>2, OpenForm, NoneIsNoForm DEF TypeOK, Form
<1>4. TypeOK' BY <1>1, <1>2, <1>3 DEF TypeOK
<1>5. \A k, v : Uses(k, v)' => Uses(k, v) BY <1>2, <1>3 DEF Uses
<1>6. KeysOK' BY <1>2, <1>3, <1>5 DEF KeysOK
<1>7. FormsOK' /\ ItemsOK' BY <1>2, <1>3 DEF FormsOK, ItemsOK
<1>8. RequestsOK' BY <1>2, <1>3 DEF RequestsOK, TypeOK, Request
<1>9. RepliesOK' /\ SuccessIsTrue' BY <1>2, <1>3 DEF RepliesOK, SuccessIsTrue, Made
<1> QED BY <1>4, <1>6, <1>7, <1>8, <1>9

\* An attempt of a visit that has a key repeats it; a key that is drawn is new.
LEMMA SubmitStep ==
  ASSUME IInv, NEW t \in Tabs, Submit(t)
  PROVE  IInv'
<1> USE FormAssumption DEF IInv
<1>1. PICK key \in KeyFor(form[t]) :
        /\ form' = [form EXCEPT ![t].contentKey = key, ![t].busy = TRUE]
        /\ requests' = requests \cup
             {[from |-> t, contentKey |-> key, slug |-> form[t].slug, visit |-> form[t].visit]}
  BY DEF Submit
<1>2. form[t] \in Form /\ UNCHANGED <<items, session, allowed, visits, reply>>
  BY OpenForm DEF Submit, apiVars
<1> DEFINE visit == form[t].visit
<1>3. visit \in 1 .. MaxVisits /\ visit <= visits BY <1>2, NoneIsNoForm DEF Form, FormsOK
<1>4. /\ key \in Keys
      /\ \/ form[t].contentKey = key
         \/ form[t].contentKey = None /\ \A v : ~Uses(key, v)
  <2>1. CASE form[t].contentKey # None BY <2>1, <1>2 DEF KeyFor, Form
  <2>2. CASE form[t].contentKey = None
    <3>1. /\ key \in Keys
          /\ \A item \in items : item.contentKey # key
          /\ \A r \in requests : r.contentKey # key
          /\ \A u \in Tabs : form[u] # None => form[u].contentKey # key
      BY <2>2 DEF KeyFor
    <3> QED BY <2>2, <3>1 DEF Uses
  <2> QED BY <2>1, <2>2
<1>5. /\ form'[t] = [form[t] EXCEPT !.contentKey = key, !.busy = TRUE]
      /\ form'[t] \in Form
      /\ form'[t].contentKey = key /\ form'[t].visit = visit
      /\ form'[t].leaving = form[t].leaving
      /\ \A u \in Tabs \ {t} : form'[u] = form[u]
  BY <1>1, <1>2, <1>4 DEF TypeOK, Form
<1>6. form[t] # None /\ form'[t] # None BY <1>2, <1>5, NoneIsNoForm
<1>7. TypeOK'
  <2>1. requests' \subseteq Request BY <1>1, <1>2, <1>4 DEF TypeOK, Request, Form
  <2>2. form' \in [Tabs -> Form \cup {None}] BY <1>1, <1>5 DEF TypeOK
  <2> QED BY <2>1, <2>2, <1>2 DEF TypeOK
<1>8. \A k, v : Uses(k, v)' => Uses(k, v) \/ (k = key /\ v = visit)
  <2>1. \A r \in requests' : r \in requests \/ (r.contentKey = key /\ r.visit = visit) BY <1>1
  <2>2. \A u \in Tabs : u = t \/ form'[u] = form[u] BY <1>5
  <2> QED BY <2>1, <2>2, <1>2, <1>5 DEF Uses
<1>9. \A k \in Keys, v \in 1 .. MaxVisits : Uses(k, v) => (k = key <=> v = visit)
  <2>1. CASE form[t].contentKey = key
    <3>1. Uses(key, visit) BY <2>1, <1>6 DEF Uses
    <3> QED BY <3>1, <1>3, <1>4 DEF KeysOK
  <2>2. CASE form[t].contentKey = None /\ \A v : ~Uses(key, v)
    <3>1. \A k \in Keys : ~Uses(k, visit) BY <2>2, <1>3, <1>6 DEF KeysOK
    <3> QED BY <3>1, <2>2
  <2> QED BY <2>1, <2>2, <1>4
<1>10. KeysOK'
  <2>1. (\A k, l \in Keys, v, w \in 1 .. MaxVisits : Uses(k, v) /\ Uses(l, w) => (k = l <=> v = w))'
    BY <1>2, <1>8, <1>9 DEF KeysOK
  <2>2. (\A k \in Keys, v \in 1 .. MaxVisits : Uses(k, v) => v <= visits)'
    BY <1>2, <1>3, <1>8 DEF KeysOK
  <2>3. ASSUME NEW u \in Tabs, NEW k \in Keys, NEW v \in 1 .. MaxVisits,
               form'[u] # None, form'[u].contentKey = None, form'[u].visit = v
        PROVE  ~Uses(k, v)'
    <3>1. u # t BY <1>4, <1>5, <2>3
    <3>2. ~Uses(k, v) /\ form[u] # None /\ form[u].visit = v BY <3>1, <2>3, <1>5 DEF KeysOK
    <3>3. v # visit BY <3>1, <3>2, <1>6 DEF FormsOK
    <3> QED BY <3>2, <3>3, <1>8
  <2> QED BY <2>1, <2>2, <2>3 DEF KeysOK
<1>11. FormsOK' /\ ItemsOK'
  <2>1. \A u \in Tabs : form'[u] # None => form[u] # None /\ form'[u].visit = form[u].visit
    BY <1>5, <1>6
  <2> QED BY <2>1, <1>2 DEF FormsOK, ItemsOK
<1>12. RequestsOK'
  <2>1. ASSUME NEW r \in requests, r.from # None
        PROVE  form'[r.from] # None /\ form'[r.from].contentKey = r.contentKey /\ form'[r.from].visit = r.visit
    <3>1. r.from \in Tabs /\ r.contentKey \in Keys BY <2>1 DEF TypeOK, Request
    <3>2. r.from = t => r.contentKey = key
      BY <1>4, <2>1, <3>1 DEF RequestsOK
    <3> QED BY <2>1, <3>1, <3>2, <1>5, <1>6 DEF RequestsOK
  <2>2. ASSUME NEW r \in requests', r \notin requests
        PROVE  r.from = t /\ r.contentKey = key /\ r.visit = visit
    BY <2>2, <1>1
  <2> QED BY <2>1, <2>2, <1>5, <1>6 DEF RequestsOK
<1>13. \A u \in Tabs : form[u] # None /\ Made(u) => Made(u)'
  <2>1. ASSUME NEW u \in Tabs, form[u] # None, Made(u) PROVE Made(u)'
    <3>1. CASE u = t
      <4>1. PICK item \in items : item.contentKey = form[t].contentKey /\ item.visit = visit
        BY <2>1, <3>1 DEF Made
      <4>2. item.contentKey \in Keys BY DEF TypeOK, Item
      <4> QED BY <3>1, <4>1, <4>2, <1>2, <1>4, <1>5 DEF Made
    <3>2. CASE u # t BY <2>1, <3>2, <1>2, <1>5 DEF Made
    <3> QED BY <3>1, <3>2
  <2> QED BY <2>1
<1>14. RepliesOK' BY <1>2, <1>5, <1>6, <1>13 DEF RepliesOK
<1>15. SuccessIsTrue'
  <2>1. \A u \in Tabs : form[u] # None /\ form[u].leaving => Made(u) BY DEF SuccessIsTrue, Made
  <2>2. \A u \in Tabs : form'[u] # None /\ form'[u].leaving => Made(u)'
    BY <2>1, <1>5, <1>6, <1>13
  <2> QED BY <2>2 DEF SuccessIsTrue, Made
<1> QED BY <1>7, <1>10, <1>11, <1>12, <1>14, <1>15

\* A form learns of its success only from an answer that tells the truth.
LEMMA AnswerArrives ==
  ASSUME IInv, NEW t \in Tabs, AttemptSettles(t)
  PROVE  IInv'
<1> USE FormAssumption DEF IInv
<1>1. PICK answer \in {reply[t], "failed"} :
        /\ form' = [form EXCEPT ![t] = Answered(@, answer)]
        /\ reply[t] # "none"
        /\ reply' = [reply EXCEPT ![t] = "none"]
        /\ UNCHANGED <<items, session, allowed, visits, requests>>
  BY DEF AttemptSettles, ReceiveAnswer, LoseAnswer, apiVars
<1>2. form[t] # None /\ form[t] \in Form /\ answer \in Replies
  BY <1>1, OpenForm DEF RepliesOK, TypeOK, Replies
<1>3. /\ form'[t] \in Form
      /\ form'[t] # None
      /\ form'[t].contentKey = form[t].contentKey /\ form'[t].visit = form[t].visit
      /\ form'[t].leaving => form[t].leaving \/ answer = "created"
      /\ \A u \in Tabs \ {t} : form'[u] = form[u]
  <2>1. form'[t] = Answered(form[t], answer) BY <1>1 DEF TypeOK
  <2>2. /\ form'[t] \in Form
        /\ form'[t].contentKey = form[t].contentKey /\ form'[t].visit = form[t].visit
        /\ form'[t].leaving => form[t].leaving \/ answer = "created"
    BY <2>1, <1>2 DEF Answered, Form, IsCreated
  <2> QED BY <2>2, <1>1, NoneIsNoForm DEF TypeOK
<1>4. TypeOK'
  <2>1. form' \in [Tabs -> Form \cup {None}] BY <1>1, <1>3 DEF TypeOK
  <2>2. reply' \in [Tabs -> Replies] BY <1>1 DEF TypeOK, Replies
  <2> QED BY <2>1, <2>2, <1>1 DEF TypeOK
<1>5. \A k, v : Uses(k, v)' => Uses(k, v) BY <1>1, <1>2, <1>3 DEF Uses
<1>6. KeysOK' BY <1>1, <1>2, <1>3, <1>5 DEF KeysOK
<1>7. FormsOK' /\ ItemsOK' BY <1>1, <1>2, <1>3 DEF FormsOK, ItemsOK
<1>8. RequestsOK' BY <1>1, <1>2, <1>3 DEF RequestsOK, TypeOK, Request
<1>9. \A u \in Tabs : Made(u) => Made(u)' BY <1>1, <1>3 DEF Made
<1>10. RepliesOK' BY <1>1, <1>3, <1>9 DEF RepliesOK, TypeOK
<1>11. SuccessIsTrue'
  <2>1. answer = "created" => Made(t) BY <1>1 DEF RepliesOK
  <2>2. \A u \in Tabs : form'[u] # None /\ form'[u].leaving => Made(u)
    BY <2>1, <1>2, <1>3 DEF SuccessIsTrue, Made
  <2> QED BY <2>2, <1>9 DEF SuccessIsTrue, Made
<1> QED BY <1>4, <1>6, <1>7, <1>8, <1>10, <1>11

\* An answer to a request is about the form that waits for it, and an item that
\* the API takes for the request's own is: its key belongs to one visit.
LEMMA HandleStep ==
  ASSUME IInv, NEW r \in requests, HandleRequest(r)
  PROVE  IInv'
<1> USE FormAssumption DEF IInv
<1>1. PICK answer \in Replies \ {"none"} :
        /\ Answer(r, answer)
        /\ \/ Create(r)
           \/ /\ items' = items
              /\ answer = "created" => \E item \in items : item.contentKey = r.contentKey
  BY DEF HandleRequest, Create, Repeat, Refuse, Replies
<1>2. /\ requests' = requests \ {r}
      /\ UNCHANGED <<session, allowed, visits, form>>
      /\ reply' = IF r.from = None THEN reply ELSE [reply EXCEPT ![r.from] = answer]
  BY <1>1 DEF Answer
<1>3. r \in Request /\ r.contentKey \in Keys /\ r.visit \in 1 .. MaxVisits
  BY DEF TypeOK, Request
<1>4. /\ items \subseteq items'
      /\ \A item \in items' : item \in items \/
           /\ item = [contentKey |-> r.contentKey, slug |-> r.slug, visit |-> r.visit]
           /\ ~Taken(r)
  BY <1>1 DEF Create
<1>5. TypeOK'
  <2>1. items' \subseteq Item BY <1>3, <1>4 DEF TypeOK, Item, Request
  <2>2. reply' \in [Tabs -> Replies] BY <1>2, <1>3 DEF TypeOK
  <2> QED BY <2>1, <2>2, <1>2 DEF TypeOK
<1>6. \A k, v : Uses(k, v)' => Uses(k, v) BY <1>2, <1>4 DEF Uses
<1>7. KeysOK' BY <1>2, <1>6 DEF KeysOK
<1>8. FormsOK' /\ RequestsOK' BY <1>2 DEF FormsOK, RequestsOK
<1>9. ItemsOK' BY <1>4 DEF ItemsOK, Taken
<1>10. \A u \in Tabs : Made(u) => Made(u)' BY <1>2, <1>4 DEF Made
<1>11. answer = "created" =>
         \E item \in items' : item.contentKey = r.contentKey /\ item.visit = r.visit
  <2>1. CASE Create(r)
    <3> DEFINE item == [contentKey |-> r.contentKey, slug |-> r.slug, visit |-> r.visit]
    <3>1. item \in items' BY <2>1 DEF Create
    <3>2. item.contentKey = r.contentKey /\ item.visit = r.visit OBVIOUS
    <3> QED BY <3>1, <3>2
  <2>2. ASSUME NEW item \in items, item.contentKey = r.contentKey PROVE item.visit = r.visit
    <3>1. item.visit \in 1 .. MaxVisits BY DEF TypeOK, Item
    <3>2. Uses(r.contentKey, item.visit) /\ Uses(r.contentKey, r.visit) BY <2>2 DEF Uses
    <3> QED BY <3>1, <3>2, <1>3 DEF KeysOK
  <2> QED BY <2>1, <2>2, <1>1, <1>4
<1>12. RepliesOK'
  <2>1. ASSUME NEW u \in Tabs, reply'[u] # "none"
        PROVE  form[u] # None /\ (reply'[u] = "created" => Made(u)')
    <3>1. CASE r.from = u
      <4>1. /\ form[u] # None /\ form[u].contentKey = r.contentKey /\ form[u].visit = r.visit
        BY <3>1 DEF RequestsOK
      <4>2. reply'[u] = answer BY <3>1, <1>2 DEF TypeOK
      <4> QED BY <4>1, <4>2, <1>2, <1>11 DEF Made
    <3>2. CASE r.from # u
      <4>1. reply'[u] = reply[u] BY <3>2, <1>2 DEF TypeOK
      <4> QED BY <4>1, <2>1, <1>10 DEF RepliesOK
    <3> QED BY <3>1, <3>2
  <2> QED BY <2>1, <1>2 DEF RepliesOK
<1>13. SuccessIsTrue' BY <1>2, <1>10 DEF SuccessIsTrue, Made
<1> QED BY <1>5, <1>7, <1>8, <1>9, <1>12, <1>13

\* The session is the API's affair, and so is what may stutter.
LEMMA RestStep ==
  ASSUME IInv, SessionChanges \/ UNCHANGED vars
  PROVE  IInv'
<1>1. UNCHANGED <<items, allowed, visits, form, requests, reply>> /\ session' \in BOOLEAN
  BY DEF SessionChanges, vars, apiVars, IInv, TypeOK
<1>2. \A k, v : Uses(k, v)' <=> Uses(k, v) BY <1>1 DEF Uses
<1>3. KeysOK' BY <1>1, <1>2 DEF IInv, KeysOK
<1> QED
  BY <1>1, <1>3
     DEF IInv, TypeOK, FormsOK, RequestsOK, RepliesOK, Made, ItemsOK, SuccessIsTrue

\* Every step keeps the invariant.
LEMMA Inductive == IInv /\ [Next]_vars => IInv'
BY OpenStep, LeaveStep, EditStep, SubmitStep, AnswerArrives, HandleStep, RestStep DEF Next

-----------------------------------------------------------------------------
\* The invariant holds in every reachable state.
THEOREM Invariance == Spec => []IInv
BY Initially, Inductive, PTL DEF Spec

\* The variables keep their types.
THEOREM TypeCorrect == Spec => []TypeOK
<1>1. IInv => TypeOK BY DEF IInv
<1> QED BY <1>1, Invariance, PTL

\* Two items of one visit have one key, and a key names one item.
THEOREM OneItemCorrect == Spec => []OneItemPerVisit
<1>1. IInv => OneItemPerVisit
  <2> SUFFICES ASSUME IInv, NEW i \in items, NEW j \in items, i.visit = j.visit PROVE i = j
    BY DEF OneItemPerVisit
  <2>1. /\ i.contentKey \in Keys /\ j.contentKey \in Keys
        /\ i.visit \in 1 .. MaxVisits
    BY DEF IInv, TypeOK, Item
  <2>2. Uses(i.contentKey, i.visit) /\ Uses(j.contentKey, i.visit) BY DEF Uses
  <2>3. i.contentKey = j.contentKey BY <2>1, <2>2 DEF IInv, KeysOK
  <2> QED BY <2>3 DEF IInv, ItemsOK
<1> QED BY <1>1, Invariance, PTL

\* A form that leaves because of its success has made its item.
THEOREM SuccessCorrect == Spec => []SuccessIsTrue
<1>1. IInv => SuccessIsTrue BY DEF IInv
<1> QED BY <1>1, Invariance, PTL
=============================================================================
