------------------------- MODULE MCLearningProgress -------------------------
(* A small instance of LearningProgress for TLC. *)
EXTENDS LearningProgress
=============================================================================
