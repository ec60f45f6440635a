---------------------------- MODULE BlockEditing ----------------------------
(***************************************************************************)
(* The blocks of a document in the draft editor: the list operations of    *)
(* content-editor-model.ts and the handlers of admin-content-editor.tsx    *)
(* that use them, keep one block selected and ask before they remove one.  *)
(* When they are allowed is the subject of ContentEditor.                  *)
(***************************************************************************)
EXTENDS Integers, SequencesExt

CONSTANTS
  Ids,        \* the block identifiers
  Contents,   \* a block's type and properties
  None,       \* null
  MaxBlocks   \* CONTENT_DOCUMENT_LIMITS_V1.maxBlocks

ASSUME BlockAssumption == None \notin Ids /\ MaxBlocks \in Nat

VARIABLES
  blocks,         \* the list
  selectedBlockId,
  deleteBlockId,  \* the block the open dialog asks about
  refocused       \* history: the removed block whose "Remove" button had the focus
                  \* once more before it disappeared, None if there was none

vars == <<blocks, selectedBlockId, deleteBlockId, refocused>>

Block == [id: Ids, content: Contents]
IdsOf(list) == {list[k].id : k \in DOMAIN list}
UniqueIds(list) == \A j, k \in DOMAIN list : list[j].id = list[k].id => j = k

\* findIndex: 0 when there is none (-1 in the code).
IndexOf(list, id) ==
  IF id \in IdsOf(list) THEN CHOOSE k \in DOMAIN list : list[k].id = id ELSE 0

\* What isContentDocumentV1 lets through when a revision is read.
ValidDocuments ==
  {list \in UNION {[1 .. n -> Block] : n \in 0 .. MaxBlocks} : UniqueIds(list)}

TypeOK ==
  /\ blocks \in Seq(Block)
  /\ selectedBlockId \in Ids \cup {None}
  /\ deleteBlockId \in Ids \cup {None}
  /\ refocused \in Ids \cup {None}

-----------------------------------------------------------------------------
(***************************************************************************)
(* The list operations.                                                    *)
(***************************************************************************)

InsertBlock(list, block) == Append(list, block)

\* filter: no two blocks have one id, so that there is one at most to take out.
RemoveBlock(list, id) == IF id \in IdsOf(list) THEN RemoveAt(list, IndexOf(list, id)) ELSE list

ReplaceBlock(list, id, replacement) ==
  [k \in DOMAIN list |-> IF list[k].id = id THEN replacement ELSE list[k]]

\* Mutation: the target index is not corrected for the block taken out.
MoveBlockShifted(list, id, offset) ==
  LET from == IndexOf(list, id)
      to == from + offset
  IN  IF from = 0 \/ to \notin DOMAIN list THEN list
      ELSE RemoveAt(InsertAt(list, to, list[from]), from)

\* splice(from, 1) and splice(to, 0, block).
MoveBlock(list, id, offset) ==
  LET from == IndexOf(list, id)
      to == from + offset
  IN  IF from = 0 \/ to \notin DOMAIN list THEN list
      ELSE InsertAt(RemoveAt(list, from), to, list[from])

DuplicateBlock(list, id, newId) ==
  LET index == IndexOf(list, id)
  IN  IF index = 0 \/ newId \in IdsOf(list) THEN list
      ELSE InsertAt(list, index + 1, [list[index] EXCEPT !.id = newId])

-----------------------------------------------------------------------------
(***************************************************************************)
(* The handlers.                                                           *)
(***************************************************************************)

FirstSelected(list) == IF list = <<>> THEN None ELSE list[1].id

\* The editor shows the first draft that it loaded.
Init ==
  /\ blocks \in ValidDocuments
  /\ selectedBlockId = FirstSelected(blocks)
  /\ deleteBlockId = None
  /\ refocused = None

\* A reload arrives; it cannot while the dialog is open.
LoadDocument ==
  /\ deleteBlockId = None
  /\ blocks' \in ValidDocuments
  /\ selectedBlockId' = FirstSelected(blocks')
  /\ refocused' = None
  /\ UNCHANGED deleteBlockId

\* createBlockId: a random id that no block has, nor had the one just removed.
FreshIds == Ids \ (IdsOf(blocks) \cup {refocused})

HasRoom == Len(blocks) < MaxBlocks

AddBlock ==
  /\ deleteBlockId = None
  /\ HasRoom
  /\ \E id \in FreshIds, content \in Contents :
       /\ blocks' = InsertBlock(blocks, [id |-> id, content |-> content])
       /\ selectedBlockId' = id
  /\ UNCHANGED <<deleteBlockId, refocused>>

DuplicateSelected(blockId) ==
  /\ deleteBlockId = None
  /\ HasRoom
  /\ \E id \in FreshIds :
       /\ blocks' = DuplicateBlock(blocks, blockId, id)
       /\ selectedBlockId' = id
  /\ UNCHANGED <<deleteBlockId, refocused>>

ReorderBlock(blockId, offset) ==
  /\ deleteBlockId = None
  /\ blocks' = MoveBlock(blocks, blockId, offset)
  /\ UNCHANGED <<selectedBlockId, deleteBlockId, refocused>>

Updated(blockId, content) ==
  ReplaceBlock(blocks, blockId, [id |-> blockId, content |-> content])

UpdateBlock(blockId) ==
  /\ deleteBlockId = None
  /\ \E content \in Contents : blocks' = Updated(blockId, content)
  /\ UNCHANGED <<selectedBlockId, deleteBlockId, refocused>>

\* The outline, its arrow keys, and the focus in a block.
SelectBlock(blockId) ==
  /\ deleteBlockId = None
  /\ selectedBlockId' = blockId
  /\ UNCHANGED <<blocks, deleteBlockId, refocused>>

RequestDelete(blockId) ==
  /\ deleteBlockId = None
  /\ deleteBlockId' = blockId
  /\ UNCHANGED <<blocks, selectedBlockId, refocused>>

\* Mutation: the neighbour is looked up in the shortened list.
FallbackAfterwards(blockId) ==
  LET rest == RemoveBlock(blocks, blockId)
      index == IndexOf(blocks, blockId) + 1
  IN  IF index \in DOMAIN rest THEN rest[index].id ELSE None

\* The block below the one removed, or else the one above it.
Fallback(blockId) ==
  LET index == IndexOf(blocks, blockId)
  IN  CASE index + 1 \in DOMAIN blocks -> blocks[index + 1].id
        [] index + 1 \notin DOMAIN blocks /\ index - 1 \in DOMAIN blocks -> blocks[index - 1].id
        [] OTHER -> None

\* Closing the dialog gives the focus back to what had it when the dialog was
\* opened.  That may be the button "Remove", which is on the page until the
\* handler is done; the block is then selected by its onFocus, after the
\* fallback.  A block with the focus in it was selected before.
ConfirmDelete ==
  /\ deleteBlockId # None
  /\ blocks' = RemoveBlock(blocks, deleteBlockId)
  /\ deleteBlockId' = None
  /\ \/ /\ selectedBlockId' =
            IF selectedBlockId = deleteBlockId THEN Fallback(deleteBlockId) ELSE selectedBlockId
        /\ UNCHANGED refocused
     \/ /\ selectedBlockId = deleteBlockId
        /\ refocused' = deleteBlockId
        /\ UNCHANGED selectedBlockId

CloseDialog ==
  /\ deleteBlockId # None
  /\ deleteBlockId' = None
  /\ UNCHANGED <<blocks, selectedBlockId, refocused>>

Next ==
  \/ LoadDocument \/ AddBlock \/ ConfirmDelete \/ CloseDialog
  \/ \E id \in IdsOf(blocks) :
       \/ DuplicateSelected(id) \/ UpdateBlock(id) \/ SelectBlock(id) \/ RequestDelete(id)
       \/ \E offset \in {-1, 1} : ReorderBlock(id, offset)

Spec == Init /\ [][Next]_vars

-----------------------------------------------------------------------------
(***************************************************************************)
(* Properties.                                                             *)
(***************************************************************************)

\* The selection and the open dialog are about a block that is there, and a
\* document with blocks always has one selected.  The exception is a removal
\* after which the focus was where the block had been: its id stays selected.
SelectionExists ==
  /\ IF selectedBlockId = None THEN blocks = <<>>
     ELSE selectedBlockId \in IdsOf(blocks) \cup {refocused}
  /\ deleteBlockId # None => deleteBlockId \in IdsOf(blocks)

\* An edit concerns one block: all the others keep their content and their order.
OthersUntouched ==
  [][\/ LoadDocument
     \/ \E id \in Ids : RemoveBlock(blocks', id) = RemoveBlock(blocks, id)]_vars
=============================================================================
