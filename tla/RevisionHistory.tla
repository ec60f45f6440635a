--------------------------- MODULE RevisionHistory ---------------------------
(***************************************************************************)
(* What authors who share a draft are promised, whoever saves when: the    *)
(* history of the draft grows one revision at a time, and every revision   *)
(* incorporates all edits of the one before it and some of its own.  No    *)
(* save ever drops what a colleague has saved, and none is empty.          *)
(***************************************************************************)
EXTENDS Integers, Sequences

CONSTANTS Edits, InvalidEdits

VARIABLE history

Init == history = <<{}>>

Extend(document) ==
  /\ history[Len(history)] \subseteq document
  /\ history[Len(history)] # document
  /\ document \cap InvalidEdits = {}
  /\ history' = Append(history, document)

Next == \E document \in SUBSET Edits : Extend(document)

Spec == Init /\ [][Next]_history
=============================================================================
