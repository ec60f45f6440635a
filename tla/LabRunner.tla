------------------------------ MODULE LabRunner ------------------------------
(***************************************************************************)
(* The script that tests the Kubernetes labs                               *)
(* (scripts/ci/test_kubernetes_labs.sh) on a machine where others use kind *)
(* too: it takes the cluster that is there, or has make create one, and    *)
(* deletes at its end only the one it has created.  A command of kind that *)
(* fails looks like an answer without that cluster.                        *)
(***************************************************************************)
VARIABLES
  cluster,           \* "none", or who has created it: "runner" or "other"
  at,                \* the next command of the script
  cleanup,           \* the variable CLEANUP
  createdByRunner,
  blind,             \* history: there is a cluster that the check did not see
  failed             \* history: a command of make, or of the cleanup, failed

labVars == <<cluster, at, cleanup, createdByRunner, blind, failed>>

LabInit ==
  /\ cluster \in {"none", "other"}
  /\ at = "check"
  /\ cleanup \in BOOLEAN
  /\ createdByRunner = FALSE
  /\ blind = FALSE
  /\ failed = FALSE

\* Somebody else, at any time.
OtherCreates ==
  /\ cluster = "none"
  /\ cluster' = "other"
  /\ blind' = (blind \/ at # "check")
  /\ UNCHANGED <<at, cleanup, createdByRunner, failed>>

OtherDeletes ==
  /\ cluster # "none"
  /\ cluster' = "none"
  /\ UNCHANGED <<at, cleanup, createdByRunner, blind, failed>>

\* Mutation: the runner takes over what it finds.
OwnsFound == TRUE

OwnsExisting == FALSE

\* cluster_exists
CheckCluster ==
  /\ at = "check"
  /\ \/ /\ cluster # "none"
        /\ at' = "verify"
        /\ createdByRunner' = OwnsExisting
        /\ UNCHANGED blind
     \/ /\ at' = "make"
        /\ blind' = (cluster # "none")
        /\ UNCHANGED createdByRunner
  /\ UNCHANGED <<cluster, cleanup, failed>>

\* make cluster-up: "get clusters || create cluster".
MakeCluster ==
  /\ at = "make"
  /\ \/ cluster # "none" /\ at' = "wait" /\ UNCHANGED <<cluster, failed>>
     \/ cluster = "none" /\ at' = "wait" /\ cluster' = "runner" /\ UNCHANGED failed
     \/ /\ at' = "exit"
        /\ failed' = TRUE
        /\ cluster' \in {cluster} \cup (IF cluster = "none" THEN {"runner"} ELSE {})
  /\ UNCHANGED <<cleanup, createdByRunner, blind>>

\* Mutation: what make has created is not noted.
OwnsAfterMakeForgotten == UNCHANGED createdByRunner

OwnsAfterMake == createdByRunner' = (at = "wait" \/ createdByRunner)

\* The rest of cluster-up, then assert_lab_context.sh and the labs.
Succeed ==
  /\ at \in {"wait", "verify", "test"}
  /\ at' = [wait |-> "verify", verify |-> "test", test |-> "exit"][at]
  /\ OwnsAfterMake
  /\ UNCHANGED <<cluster, cleanup, blind, failed>>

\* set -e; before the check, the manifests and the demo server are tested.
Fail ==
  /\ at \in {"check", "wait", "verify", "test"}
  /\ at' = "exit"
  /\ failed' = (failed \/ at = "wait")
  /\ UNCHANGED <<cluster, cleanup, createdByRunner, blind>>

\* trap cleanup EXIT
Cleanup ==
  /\ at = "exit"
  /\ at' = "done"
  /\ IF cleanup /\ createdByRunner /\ cluster # "none"
       THEN \/ cluster' = "none" /\ UNCHANGED failed
            \/ failed' = TRUE /\ UNCHANGED cluster
       ELSE UNCHANGED <<cluster, failed>>
  /\ UNCHANGED <<cleanup, createdByRunner, blind>>

LabNext ==
  \/ OtherCreates \/ OtherDeletes
  \/ CheckCluster \/ MakeCluster \/ Succeed \/ Fail \/ Cleanup

LabSpec == LabInit /\ [][LabNext]_labVars

-----------------------------------------------------------------------------
(***************************************************************************)
(* Properties.                                                             *)
(***************************************************************************)

\* "The test runner will not own cleanup" of a cluster it has not created: it
\* deletes one only when it did not see it at first - it appeared after the check,
\* or kind gave no answer - and so believes that make has created it.
ForeignClusterKept == [][Cleanup /\ cluster = "other" /\ cluster' = "none" => blind]_labVars

\* With CLEANUP=1 the runner's own cluster outlives it only when make failed half
\* way, before created_by_runner is set, or the cleanup failed itself.
LeftoverHasReason == at = "done" /\ cleanup /\ cluster = "runner" => failed
=============================================================================
