------------------------------- MODULE MCBlocks -------------------------------
(* Small instances, one at a time, of what an author edits: the blocks of a *)
(* document, the fields of a block, and the structures of rich text.        *)
EXTENDS BlockEditing, BlockFields, RichTextFields

VARIABLE part  \* what a behaviour is about; the others stay as they are

Symmetry == Permutations(Ids) \cup Permutations(Contents) \cup Permutations(Words)

ListRest == blocks = <<>> /\ selectedBlockId = None /\ deleteBlockId = None /\ refocused = None
FieldsRest == block = CreateDefaultBlock("heading")
TextRest == nodes = <<>>

BlocksInit ==
  \/ part = "list" /\ Init /\ FieldsRest /\ TextRest
  \/ part = "fields" /\ ListRest /\ FieldsInit /\ TextRest
  \/ part = "rich text" /\ ListRest /\ FieldsRest /\ RichTextInit

BlocksNext ==
  \/ part = "list" /\ Next /\ UNCHANGED <<part, block, nodes>>
  \/ part = "fields" /\ FieldsNext /\ UNCHANGED <<part, vars, nodes>>
  \/ part = "rich text" /\ RichTextNext /\ UNCHANGED <<part, vars, block>>

BlocksSpec == BlocksInit /\ [][BlocksNext]_<<part, vars, block, nodes>>
=============================================================================
