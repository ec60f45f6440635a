------------------------ MODULE MCPublishingWorkflow ------------------------
(* A small instance of PublishingWorkflow for TLC: documents do not matter. *)
EXTENDS PublishingWorkflow
=============================================================================
