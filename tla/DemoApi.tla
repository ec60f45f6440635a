------------------------------- MODULE DemoApi -------------------------------
(***************************************************************************)
(* The HTTP process of the Kubernetes labs                                 *)
(* (examples/atlas-demo-api/cmd/server/main.go): its readiness, which two  *)
(* requests may toggle at once, and its way out on SIGTERM.                *)
(***************************************************************************)
EXTENDS Integers, FiniteSets

CONSTANTS
  Clients,     \* each sends one POST /toggle-ready at a time
  MaxToggles   \* bounds how many are sent

ASSUME DemoAssumption == MaxToggles \in Nat

VARIABLES
  ready,     \* state.ready
  server,    \* "serving", "leaving" (the two seconds), "draining", "exited"
  toggle,    \* per client: where its request is, and the value it has loaded
  stored,    \* history: how many toggles have stored
  alone,     \* history: no two of them overlapped
  late       \* history: one of them stored after readiness was given up

demoVars == <<ready, server, toggle, stored, alone, late>>

NoToggle == [step |-> "none", loaded |-> FALSE]
InHandler == {c \in Clients : toggle[c].step # "none"}

DemoInit ==
  /\ ready = TRUE
  /\ server = "serving"
  /\ toggle = [c \in Clients |-> NoToggle]
  /\ stored = 0
  /\ alone = TRUE
  /\ late = FALSE

\* The listener is open, also during the two seconds.
Listening == server \in {"serving", "leaving"}

\* state.ready.Load()
ToggleLoads(c) ==
  /\ Listening
  /\ toggle[c].step = "none"
  /\ stored + Cardinality(InHandler) < MaxToggles
  /\ toggle' = [toggle EXCEPT ![c] = [step |-> "loaded", loaded |-> ready]]
  /\ alone' = (alone /\ InHandler = {})
  /\ UNCHANGED <<ready, server, stored, late>>

Toggled(loaded) == ~loaded

\* state.ready.Store(!...)
ToggleStores(c) ==
  /\ toggle[c].step = "loaded"
  /\ ready' = Toggled(toggle[c].loaded)
  /\ toggle' = [toggle EXCEPT ![c].step = "stored"]
  /\ stored' = stored + 1
  /\ late' = (late \/ server # "serving")
  /\ UNCHANGED <<server, alone>>

\* The answer, from a second load.
ToggleAnswers(c) ==
  /\ toggle[c].step = "stored"
  /\ toggle' = [toggle EXCEPT ![c] = NoToggle]
  /\ UNCHANGED <<ready, server, stored, alone, late>>

\* Mutation: readiness is not given up.
GiveUpNot == UNCHANGED ready

GiveUp == ready' = FALSE

Terminate ==
  /\ server = "serving"
  /\ server' = "leaving"
  /\ GiveUp
  /\ UNCHANGED <<toggle, stored, alone, late>>

\* Shutdown closes the listener and waits for the requests.
StartDrain ==
  /\ server = "leaving"
  /\ server' = "draining"
  /\ UNCHANGED <<ready, toggle, stored, alone, late>>

\* All are done, or after 15 seconds Close ends them.
Exit ==
  /\ server = "draining"
  /\ server' = "exited"
  /\ toggle' = [c \in Clients |-> NoToggle]
  /\ UNCHANGED <<ready, stored, alone, late>>

DemoNext ==
  \/ Terminate \/ StartDrain \/ Exit
  \/ \E c \in Clients : ToggleLoads(c) \/ ToggleStores(c) \/ ToggleAnswers(c)

DemoSpec == DemoInit /\ [][DemoNext]_demoVars

-----------------------------------------------------------------------------
(***************************************************************************)
(* Properties.                                                             *)
(***************************************************************************)

\* Toggles that do not overlap all count; and a process on its way out is unready
\* unless a toggle came in after the signal, which its handler does not refuse.
ReadinessIsExplained ==
  IF server = "serving"
    THEN alone => (ready <=> stored % 2 = 0)
    ELSE ready => late
=============================================================================
