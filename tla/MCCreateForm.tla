---------------------------- MODULE MCCreateForm ----------------------------
(* Small instances of CreateForm for TLC. *)
EXTENDS CreateForm, TLC

Symmetry == Permutations(Tabs) \cup Permutations(Keys)
=============================================================================
