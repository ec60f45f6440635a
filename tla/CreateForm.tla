----------------------------- MODULE CreateForm -----------------------------
(***************************************************************************)
(* The form "New content" (components/admin-content-create-form.tsx) open  *)
(* in several tabs.  A visit of the form draws one content key and keeps   *)
(* it for every attempt, so that an attempt whose answer was lost can be   *)
(* repeated.  The API lets a content key, and a slug, be used once; it may *)
(* answer a repeated request with what it created before or with 409.      *)
(***************************************************************************)
EXTENDS Integers

CONSTANTS
  Tabs,
  Keys,          \* the content keys that may be drawn
  Slugs,
  InvalidSlugs,  \* the slugs that the form refuses, the empty one among them
  None,
  MaxVisits      \* bounds how often the form is opened

ASSUME FormAssumption ==
  /\ InvalidSlugs \subseteq Slugs
  /\ InvalidSlugs # {}
  /\ MaxVisits \in Nat
  /\ None \notin Tabs \cup Keys

VARIABLES
  items,      \* what the API has created
  session,    \* whether the browser's session is valid
  allowed,    \* whether the account may create content
  visits,     \* how often the form was opened
  form,       \* per tab: the form it shows, None if it shows none
  requests,   \* the attempts on their way to the API
  reply       \* per tab: the answer on its way back, "none" if there is none

apiVars == <<items, session, allowed>>
vars == <<apiVars, visits, form, requests, reply>>

\* A form that is leaving was told of its success and waits for the next page.
Form == [visit: 1 .. MaxVisits, contentKey: Keys \cup {None}, slug: Slugs, busy: BOOLEAN,
         blockedStatus: {"none", "401", "403"}, leaving: BOOLEAN]

\* The visit an item or a request comes from is history.
Item == [contentKey: Keys, slug: Slugs, visit: 1 .. MaxVisits]
Request == [from: Tabs \cup {None}, contentKey: Keys, slug: Slugs, visit: 1 .. MaxVisits]
Replies == {"none", "created", "401", "403", "409", "failed"}

ASSUME NoneIsNoForm == None \notin Form

TypeOK ==
  /\ items \subseteq Item
  /\ session \in BOOLEAN
  /\ allowed \in BOOLEAN
  /\ visits \in 0 .. MaxVisits
  /\ form \in [Tabs -> Form \cup {None}]
  /\ requests \subseteq Request
  /\ reply \in [Tabs -> Replies]

Init ==
  /\ items = {}
  /\ session = TRUE
  /\ allowed \in BOOLEAN
  /\ visits = 0
  /\ form = [t \in Tabs |-> None]
  /\ requests = {}
  /\ reply = [t \in Tabs |-> "none"]

-----------------------------------------------------------------------------
(***************************************************************************)
(* The form.                                                               *)
(***************************************************************************)

Open(t) ==
  /\ form[t] = None
  /\ visits < MaxVisits
  /\ visits' = visits + 1
  /\ \E slug \in InvalidSlugs :
       form' = [form EXCEPT ![t] =
         [visit |-> visits + 1, contentKey |-> None, slug |-> slug, busy |-> FALSE,
          blockedStatus |-> "none", leaving |-> FALSE]]
  /\ UNCHANGED <<apiVars, requests, reply>>

\* Any link, Back, or the navigation after a success.
Leave(t) ==
  /\ form[t] # None
  /\ form' = [form EXCEPT ![t] = None]
  /\ requests' = {IF r.from = t THEN [r EXCEPT !.from = None] ELSE r : r \in requests}
  /\ reply' = [reply EXCEPT ![t] = "none"]
  /\ UNCHANGED <<apiVars, visits>>

\* The inputs are never disabled.
EditSlug(t) ==
  /\ form[t] # None
  /\ \E slug \in Slugs : form' = [form EXCEPT ![t].slug = slug]
  /\ UNCHANGED <<apiVars, visits, requests, reply>>

\* Mutation: every attempt draws a key.
KeyForEveryAttempt(current) == Keys \ {item.contentKey : item \in items}

\* The content key of an attempt: drawn once per visit, unlike any other.
KeyFor(current) ==
  IF current.contentKey # None THEN {current.contentKey}
  ELSE Keys \ ({item.contentKey : item \in items}
               \cup {r.contentKey : r \in requests}
               \cup {form[u].contentKey : u \in {v \in Tabs : form[v] # None}})

CanSubmit(current) == ~current.busy /\ current.blockedStatus = "none"

\* A slug that is refused only shows a message.
Submit(t) ==
  /\ form[t] # None
  /\ CanSubmit(form[t])
  /\ form[t].slug \notin InvalidSlugs
  /\ \E key \in KeyFor(form[t]) :
       /\ form' = [form EXCEPT ![t].contentKey = key, ![t].busy = TRUE]
       /\ requests' = requests \cup
            {[from |-> t, contentKey |-> key, slug |-> form[t].slug, visit |-> form[t].visit]}
  /\ UNCHANGED <<apiVars, visits, reply>>

\* Mutation: a conflict is taken for the answer to an earlier attempt.
IsCreatedOrConflict(answer) == answer \in {"created", "409"}

IsCreated(answer) == answer = "created"

Answered(current, answer) ==
  [current EXCEPT !.busy = FALSE,
                  !.leaving = @ \/ IsCreated(answer),
                  !.blockedStatus = IF answer \in {"401", "403"} THEN answer ELSE @]

ReceiveAnswer(t) ==
  /\ reply[t] # "none"
  /\ form' = [form EXCEPT ![t] = Answered(@, reply[t])]
  /\ reply' = [reply EXCEPT ![t] = "none"]
  /\ UNCHANGED <<apiVars, visits, requests>>

\* The answer is lost.
LoseAnswer(t) ==
  /\ reply[t] # "none"
  /\ form' = [form EXCEPT ![t] = Answered(@, "failed")]
  /\ reply' = [reply EXCEPT ![t] = "none"]
  /\ UNCHANGED <<apiVars, visits, requests>>

-----------------------------------------------------------------------------
(***************************************************************************)
(* The API and the session.                                                *)
(***************************************************************************)

Answer(r, answer) ==
  /\ requests' = requests \ {r}
  /\ reply' = IF r.from = None THEN reply ELSE [reply EXCEPT ![r.from] = answer]
  /\ UNCHANGED <<session, allowed, visits, form>>

Taken(r) == \E item \in items : item.contentKey = r.contentKey \/ item.slug = r.slug

Create(r) ==
  /\ session
  /\ allowed
  /\ ~Taken(r)
  /\ items' = items \cup {[contentKey |-> r.contentKey, slug |-> r.slug, visit |-> r.visit]}
  /\ Answer(r, "created")

Repeat(r) ==
  /\ session
  /\ allowed
  /\ \E item \in items : item.contentKey = r.contentKey /\ item.slug = r.slug
  /\ Answer(r, "created")
  /\ UNCHANGED items

Refuse(r) ==
  /\ \E answer \in {"401", "403", "409", "failed"} :
       /\ answer = "401" => ~session
       /\ answer = "403" => ~allowed
       /\ answer = "409" => Taken(r)
       /\ Answer(r, answer)
  /\ UNCHANGED items

\* The session expires, or is renewed in another tab.
SessionChanges ==
  /\ session' = ~session
  /\ UNCHANGED <<items, allowed, visits, form, requests, reply>>

HandleRequest(r) == Create(r) \/ Repeat(r) \/ Refuse(r)
HandleRequestOf(t) == \E r \in requests : r.from = t /\ HandleRequest(r)
AttemptSettles(t) == ReceiveAnswer(t) \/ LoseAnswer(t)

Next ==
  \/ \E t \in Tabs : Open(t) \/ Leave(t) \/ EditSlug(t) \/ Submit(t) \/ AttemptSettles(t)
  \/ \E r \in requests : HandleRequest(r)
  \/ SessionChanges

Spec == Init /\ [][Next]_vars

\* The browser settles every fetch; no user has to do anything.
FairSpec ==
  Spec /\ \A t \in Tabs : WF_vars(HandleRequestOf(t)) /\ WF_vars(AttemptSettles(t))

-----------------------------------------------------------------------------
(***************************************************************************)
(* Properties.                                                             *)
(***************************************************************************)

\* A visit creates one item at most, however often an author repeats an
\* attempt whose answer was lost, edits the slug in between, submits again
\* before the next page appears, or leaves with an attempt under way.
OneItemPerVisit == \A i, j \in items : i.visit = j.visit => i = j

\* A form that was told of its success made an item, and its own.
SuccessIsTrue ==
  \A t \in Tabs : form[t] # None /\ form[t].leaving =>
    \E item \in items : item.contentKey = form[t].contentKey /\ item.visit = form[t].visit

\* "The create control is disabled until this session is renewed."
BlockedBySession(t) == form[t] # None /\ form[t].blockedStatus = "401"
EnabledWhenRenewed ==
  \A t \in Tabs : (BlockedBySession(t) /\ session) ~> (~BlockedBySession(t) \/ ~session)
=============================================================================
