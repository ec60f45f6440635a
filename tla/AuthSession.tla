----------------------------- MODULE AuthSession -----------------------------
(***************************************************************************)
(* Accounts and the session: the forms "Sign in" and "Create account"      *)
(* (features/auth/components/auth-form.tsx), where creating an account is  *)
(* two calls, and the account page (account-panel.tsx).                    *)
(*                                                                         *)
(* The session is a cookie, which the visitor's other tabs change as well. *)
(* Links work while a call is under way: the call of a page that was left  *)
(* still reaches the API, and what follows its answer still runs, only     *)
(* that the states it sets are gone.  A call may fail before the API sees  *)
(* it or after; one that has failed has no effect later.                   *)
(***************************************************************************)
EXTENDS Naturals

CONSTANTS
  Emails,
  NoOne,  \* no account is signed in
  Slots   \* bounds the calls under way, those of pages that were left included

ASSUME AuthAssumption == NoOne \notin Emails

VARIABLES
  accounts,   \* the API: the addresses that have an account
  session,    \* the cookie
  place,      \* where the visitor is
  leaving,    \* the page that router.replace is loading
  calls,      \* the calls under way; made is history: this submission created the account
  formError,  \* what the form says
  panel       \* the account page: where account/me is, and what is shown

authVars == <<accounts, session, place, leaving, calls, formError, panel>>

Forms == {"login", "register"}
Places == Forms \cup {"account", "elsewhere"}
Stay == "stay"

FreeSlot == [kind |-> "none", registering |-> FALSE, email |-> NoOne, made |-> FALSE,
             answer |-> "none", mounted |-> FALSE]

\* overtaken is history: since the API answered account/me, another tab or the
\* call of a page that was left has changed the session or the way.
FreshPanel == [me |-> "asked", answer |-> NoOne, account |-> NoOne, error |-> FALSE,
               overtaken |-> FALSE]

AuthInit ==
  /\ accounts \in SUBSET Emails
  /\ session \in accounts \cup {NoOne}
  /\ place \in Places
  /\ leaving = Stay
  /\ calls = [s \in Slots |-> FreeSlot]
  /\ formError = ""
  /\ panel = FreshPanel

Busy == \E s \in Slots : calls[s].mounted

\* A page is mounted: its component starts over.  The calls of the one before go
\* on without it.
Mount(there) ==
  /\ place' = there
  /\ leaving' = Stay
  /\ calls' = [s \in Slots |-> [calls[s] EXCEPT !.mounted = FALSE]]
  /\ formError' = ""
  /\ panel' = FreshPanel

\* A page that is replaced by itself keeps its component.
Arrive ==
  /\ leaving # Stay
  /\ \/ leaving # place /\ Mount(leaving)
     \/ leaving = place /\ leaving' = Stay /\ UNCHANGED <<place, calls, formError, panel>>
  /\ UNCHANGED <<accounts, session>>

FollowLink ==
  /\ \E there \in Places \ {place} : Mount(there)
  /\ UNCHANGED <<accounts, session>>

OtherTab ==
  /\ \E email \in Emails : accounts' \in {accounts, accounts \cup {email}}
  /\ session' \in accounts' \cup {NoOne}
  /\ panel' = [panel EXCEPT !.overtaken = TRUE]
  /\ UNCHANGED <<place, leaving, calls, formError>>

Send(s, call) == calls[s] = FreeSlot /\ calls' = [calls EXCEPT ![s] = call]
Free(s) == calls' = [calls EXCEPT ![s] = FreeSlot]

\* What a call changes behind the back of the page that is shown.
Overtaking(s) == panel' = [panel EXCEPT !.overtaken = @ \/ ~calls[s].mounted]

-----------------------------------------------------------------------------
(***************************************************************************)
(* The API.                                                                *)
(***************************************************************************)

ApiAnswers(s, answer) == calls' = [calls EXCEPT ![s].answer = answer]

ApiCreates(s) ==
  /\ calls[s].kind = "create" /\ calls[s].answer = "none"
  /\ \/ /\ calls[s].email \in accounts
        /\ ApiAnswers(s, "exists")
        /\ UNCHANGED accounts
     \/ /\ calls[s].email \notin accounts
        /\ accounts' = accounts \cup {calls[s].email}
        /\ calls' = [calls EXCEPT ![s].answer = "ok", ![s].made = TRUE]
  /\ UNCHANGED <<session, place, leaving, formError, panel>>

\* An account that the submission has just created has its password.
ApiSignsIn(s) ==
  /\ calls[s].kind = "login" /\ calls[s].answer = "none"
  /\ \/ /\ calls[s].email \in accounts
        /\ session' = calls[s].email
        /\ ApiAnswers(s, "ok")
        /\ Overtaking(s)
     \/ /\ ~calls[s].made
        /\ ApiAnswers(s, "refused")
        /\ UNCHANGED <<session, panel>>
  /\ UNCHANGED <<accounts, place, leaving, formError>>

ApiSignsOut(s) ==
  /\ calls[s].kind = "logout" /\ calls[s].answer = "none"
  /\ session' = NoOne
  /\ ApiAnswers(s, "ok")
  /\ Overtaking(s)
  /\ UNCHANGED <<accounts, place, leaving, formError>>

\* account/me
ApiReadsAccount ==
  /\ place = "account" /\ panel.me = "asked"
  /\ panel' = [panel EXCEPT !.me = "answered", !.answer = session, !.overtaken = FALSE]
  /\ UNCHANGED <<accounts, session, place, leaving, calls, formError>>

-----------------------------------------------------------------------------
(***************************************************************************)
(* AuthForm.                                                               *)
(***************************************************************************)

Submit ==
  /\ place \in Forms /\ ~Busy
  /\ \E s \in Slots, email \in Emails :
       Send(s, [FreeSlot EXCEPT !.kind = IF place = "register" THEN "create" ELSE "login",
                                !.registering = (place = "register"),
                                !.email = email, !.mounted = TRUE])
  /\ formError' = ""
  /\ UNCHANGED <<accounts, session, place, leaving, panel>>

\* The second call of "Create account".
GoOn(s) == calls' = [calls EXCEPT ![s].kind = "login", ![s].answer = "none"]

Created(s) ==
  /\ calls[s].kind = "create" /\ calls[s].answer = "ok"
  /\ GoOn(s)
  /\ UNCHANGED <<accounts, session, place, leaving, formError, panel>>

SignedIn(s) ==
  /\ calls[s].kind = "login" /\ calls[s].answer = "ok"
  /\ Free(s)
  /\ leaving' = "account"
  /\ Overtaking(s)
  /\ UNCHANGED <<accounts, session, place, formError>>

\* Mutation: an address that has an account goes on to the sign-in.
DeclinedGoesOn(s) == IF calls[s].answer = "exists" THEN GoOn(s) ELSE Free(s)

Declined(s) == Free(s)

\* Status 409 or 401.
FormRefused(s) ==
  /\ calls[s].answer \in {"exists", "refused"}
  /\ Declined(s)
  /\ formError' = IF calls[s].mounted THEN calls[s].answer ELSE formError
  /\ UNCHANGED <<accounts, session, place, leaving, panel>>

FormFails(s) ==
  /\ calls[s].kind \in {"create", "login"}
  /\ Free(s)
  /\ formError' = IF calls[s].mounted THEN "failed" ELSE formError
  /\ UNCHANGED <<accounts, session, place, leaving, panel>>

-----------------------------------------------------------------------------
(***************************************************************************)
(* AccountPanel.                                                           *)
(***************************************************************************)

\* A visitor who is not signed in is sent to the form.
ShowAccount ==
  /\ place = "account" /\ panel.me = "answered"
  /\ panel' = [panel EXCEPT !.me = "done", !.account = panel.answer]
  /\ leaving' = IF panel.answer = NoOne THEN "login" ELSE leaving
  /\ UNCHANGED <<accounts, session, place, calls, formError>>

AccountMeFails ==
  /\ place = "account" /\ panel.me # "done"
  /\ panel' = [panel EXCEPT !.me = "done", !.error = TRUE]
  /\ UNCHANGED <<accounts, session, place, leaving, calls, formError>>

Logout ==
  /\ panel.account # NoOne /\ ~Busy
  /\ \E s \in Slots : Send(s, [FreeSlot EXCEPT !.kind = "logout", !.mounted = TRUE])
  /\ panel' = [panel EXCEPT !.error = FALSE]
  /\ UNCHANGED <<accounts, session, place, leaving, formError>>

SignedOut(s) ==
  /\ calls[s].kind = "logout" /\ calls[s].answer = "ok"
  /\ Free(s)
  /\ leaving' = "login"
  /\ Overtaking(s)
  /\ UNCHANGED <<accounts, session, place, formError>>

\* Mutation: a failure says nothing.
LogoutFailedSilent == panel

LogoutFailed == [panel EXCEPT !.error = TRUE]

LogoutFails(s) ==
  /\ calls[s].kind = "logout"
  /\ Free(s)
  /\ panel' = IF calls[s].mounted THEN LogoutFailed ELSE panel
  /\ UNCHANGED <<accounts, session, place, leaving, formError>>

ApiStep(s) == ApiCreates(s) \/ ApiSignsIn(s) \/ ApiSignsOut(s)
FormStep(s) == Created(s) \/ SignedIn(s) \/ FormRefused(s) \/ FormFails(s)
PanelStep(s) == SignedOut(s) \/ LogoutFails(s)

AuthNext ==
  \/ Arrive \/ FollowLink \/ OtherTab
  \/ Submit \/ Logout
  \/ ApiReadsAccount \/ ShowAccount \/ AccountMeFails
  \/ \E s \in Slots : ApiStep(s) \/ FormStep(s) \/ PanelStep(s)

AuthSpec == AuthInit /\ [][AuthNext]_authVars

-----------------------------------------------------------------------------
(***************************************************************************)
(* Properties.                                                             *)
(***************************************************************************)

\* "Create account" signs in nobody but the account that the same submission has
\* created, wherever the visitor has gone meanwhile.  In particular, when the
\* account exists because the sign-in after an earlier attempt failed, trying
\* again only says so: the way in is the other form.
RegisterOpensItsOwn ==
  [][session' # session =>
       \A s \in Slots : calls[s].registering /\ calls'[s] # calls[s] => calls[s].made]_authVars

\* Whose account the page shows is signed in, or the visitor can see that this
\* may be over: the page is being left for the form, a sign-out is going on or
\* has failed.  What goes unnoticed is only what other tabs do and the calls of
\* pages that the visitor has left under way: the page asks account/me once.
ShownIsSignedIn ==
  panel.account \notin {NoOne, session} =>
    leaving = "login" \/ Busy \/ panel.error \/ panel.overtaken
=============================================================================
