--------------------------- MODULE MCContentEditor ---------------------------
(* Small instances of ContentEditor for TLC. *)
EXTENDS ContentEditor, TLC

Symmetry == Permutations(Editors) \cup Permutations(Edits)
=============================================================================
