--------------------------- MODULE MCSearchFilter ---------------------------
(* A small instance of SearchRoute alone. *)
EXTENDS SearchRoute
=============================================================================
