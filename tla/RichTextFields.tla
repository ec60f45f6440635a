--------------------------- MODULE RichTextFields ---------------------------
(***************************************************************************)
(* The fields of a block of rich text in the draft editor: RichTextFields, *)
(* InlineNodesFields and InlineNodeFields of content-editor-block-fields,  *)
(* with makeInlineNode of the editor model, against the limits that        *)
(* content-renderer/types.ts validates.  The operators that edit a tree    *)
(* return the set of its possible results, as the components nest.         *)
(***************************************************************************)
EXTENDS Integers, SequencesExt

CONSTANTS
  Words,        \* what an author may type
  Marks,        \* the formats with children: bold, italic, inline_code, link
  ListTypes,    \* bullet_list, ordered_list
  MaxDepth,     \* maxRichTextDepth, 16
  MaxNodes,     \* 500, of the inline nodes in one place and of a block's nodes
  MaxItems,     \* 100
  MaxText,      \* 10 000, the length of a text
  LeafBound     \* bound: the inline nodes of the instance

VARIABLE nodes  \* block.props.nodes

Space == "_"
Text(text) == [type |-> "text", text |-> text]
EmptyText == Text(<<>>)
InlineTypes == Marks \cup {"text"}

\* What fits the input of a text: nothing or a word.
Typed == {<<>>} \cup {<<w>> : w \in Words}

\* The texts in a list of nodes and below, in order.
RECURSIVE Texts(_)
Texts(list) ==
  IF list = <<>> THEN <<>>
  ELSE LET node == Head(list)
       IN  (CASE node.type = "text" -> <<node.text>>
              [] node.type \in ListTypes -> Texts(FlattenSeq(node.items))
              [] OTHER -> Texts(node.children)) \o Texts(Tail(list))

InlineText(node) == FlattenSeq(Texts(<<node>>))

\* The lists of inline nodes of a paragraph (one) or a list.
Items(node) == IF node.type = "paragraph" THEN <<node.children>> ELSE node.items

-----------------------------------------------------------------------------
(***************************************************************************)
(* The limits: isInlineNode, isInlineNodes and isRichTextNode.  The URL of *)
(* a link is left out: it must be typed before the block is valid.         *)
(***************************************************************************)

RECURSIVE InlineWithinLimits(_, _)
InlineWithinLimits(inline, depth) ==
  /\ Len(inline) \in 1 .. MaxNodes
  /\ depth <= MaxDepth
  /\ \A k \in DOMAIN inline :
       IF inline[k].type = "text" THEN Len(inline[k].text) <= MaxText
       ELSE InlineWithinLimits(inline[k].children, depth + 1)

WithinLimits(list) ==
  /\ Len(list) \in 1 .. MaxNodes
  /\ \A k \in DOMAIN list :
       /\ Len(Items(list[k])) \in 1 .. MaxItems
       /\ \A i \in DOMAIN Items(list[k]) : InlineWithinLimits(Items(list[k])[i], 0)

-----------------------------------------------------------------------------
(***************************************************************************)
(* Editing.                                                                *)
(***************************************************************************)

\* The Format select.  The children are kept, or flattened into one text.
MakeInlineNode(type, existing) ==
  IF type = "text" THEN Text(InlineText(existing))
  ELSE [type |-> type,
        children |-> IF existing.type = "text" THEN <<existing>> ELSE existing.children]

\* The results of one edit of an inline node itself.
InlineNodeAfter(edit, node) ==
  CASE edit = "format" -> {MakeInlineNode(type, node) : type \in InlineTypes}
    [] edit = "write" /\ node.type = "text" -> {Text(text) : text \in Typed}
    [] OTHER -> {}

\* Mutation: one node too many.
AddEnabledOffByOne(inline, depth) == Len(inline) <= MaxNodes /\ depth < MaxDepth

\* Where "Add text node" is enabled.  The Format select always is.
AddEnabled(inline, depth) == Len(inline) < MaxNodes /\ depth < MaxDepth

RECURSIVE InlineAfter(_, _, _)

\* The results of one edit in a list of inline nodes, at any depth below it.
InlineAfter(edit, inline, depth) ==
  UNION {{[inline EXCEPT ![k] = node] : node \in InlineNodeAfter(edit, inline[k])} :
           k \in DOMAIN inline}
    \cup UNION {{[inline EXCEPT ![k].children = below] :
                    below \in InlineAfter(edit, inline[k].children, depth + 1)} :
                  k \in {j \in DOMAIN inline : inline[j].type # "text"}}
    \cup {RemoveAt(inline, k) : k \in {j \in DOMAIN inline : edit = "remove" /\ Len(inline) # 1}}
    \cup {Append(inline, EmptyText) : x \in {y \in {edit} : y = "add" /\ AddEnabled(inline, depth)}}

\* The results of one edit in the inline nodes of a paragraph or a list.
NodeAfter(edit, node) ==
  IF node.type = "paragraph"
    THEN {[node EXCEPT !.children = inline] : inline \in InlineAfter(edit, node.children, 0)}
    ELSE UNION {{[node EXCEPT !.items[i] = inline] : inline \in InlineAfter(edit, node.items[i], 0)} :
                  i \in DOMAIN node.items}

\* Mutation: a list becomes a paragraph of its first item.
ChangeTypeFirstItem(node, type) ==
  CASE type = "paragraph" -> [type |-> type, children |-> Items(node)[1]]
    [] type # "paragraph" /\ node.type # "paragraph" -> [node EXCEPT !.type = type]
    [] OTHER -> [type |-> type, items |-> <<node.children>>]

\* changeRichTextNodeType: the items of a list are joined with a space.
ChangeType(node, type) ==
  CASE type = "paragraph" /\ node.type = "paragraph" -> node
    [] type = "paragraph" /\ node.type # "paragraph" ->
         [type |-> type,
          children |-> FlattenSeq([i \in DOMAIN node.items |->
                         (IF i = 1 THEN <<>> ELSE <<Text(<<Space>>)>>) \o node.items[i]])]
    [] type # "paragraph" /\ node.type # "paragraph" -> [node EXCEPT !.type = type]
    [] OTHER -> [type |-> type, items |-> <<node.children>>]

-----------------------------------------------------------------------------
(***************************************************************************)
(* The size of a block, for the bound and the properties.                  *)
(***************************************************************************)

RECURSIVE Deepest(_)
Deepest(inline) ==
  LET below == {1 + Deepest(inline[k].children) : k \in {j \in DOMAIN inline : inline[j].type # "text"}}
  IN  Max(below \cup {0})

Places(list) == UNION {ToSet(Items(list[k])) : k \in DOMAIN list}

\* The bounds of the instance: formats and joined texts can grow forever.  There
\* is room for one separator besides the texts.
Small(list) ==
  LET texts == Texts(list)
  IN  /\ Len(texts) <= LeafBound + 1
      /\ Len(SelectSeq(texts, LAMBDA text : text # <<Space>>)) <= LeafBound
      /\ \A k \in DOMAIN texts : Len(texts[k]) <= MaxText + 1
      /\ \A inline \in Places(list) : Deepest(inline) <= MaxDepth + 1

-----------------------------------------------------------------------------
(***************************************************************************)
(* The controls.  They are disabled while the editor is busy, which is the *)
(* subject of ContentEditor.                                               *)
(***************************************************************************)

\* The block as createDefaultBlock makes it.
RichTextInit == nodes = <<[type |-> "paragraph", children |-> <<EmptyText>>]>>

Become(list) == Small(list) /\ nodes' = list

\* updateNode
UpdateNode(k, node) == Become([nodes EXCEPT ![k] = node])

EditInline(edit) == \E k \in DOMAIN nodes : \E node \in NodeAfter(edit, nodes[k]) : UpdateNode(k, node)

Format == EditInline("format")
Write == EditInline("write")
AddInline == EditInline("add")
RemoveInline == EditInline("remove")

ChangeStructure ==
  \E k \in DOMAIN nodes, type \in ListTypes \cup {"paragraph"} :
    UpdateNode(k, ChangeType(nodes[k], type))

AddItem ==
  \E k \in DOMAIN nodes :
    /\ nodes[k].type # "paragraph"
    /\ Len(nodes[k].items) < MaxItems
    /\ UpdateNode(k, [nodes[k] EXCEPT !.items = Append(@, <<EmptyText>>)])

RemoveItem ==
  \E k \in DOMAIN nodes :
    /\ nodes[k].type # "paragraph"
    /\ Len(nodes[k].items) # 1
    /\ \E i \in DOMAIN nodes[k].items :
         UpdateNode(k, [nodes[k] EXCEPT !.items = RemoveAt(@, i)])

AddStructure ==
  /\ Len(nodes) < MaxNodes
  /\ Become(Append(nodes, [type |-> "paragraph", children |-> <<EmptyText>>]))

RemoveStructure ==
  /\ Len(nodes) # 1
  /\ \E k \in DOMAIN nodes : Become(RemoveAt(nodes, k))

RichTextNext ==
  \/ Format \/ Write \/ AddInline \/ RemoveInline
  \/ ChangeStructure \/ AddItem \/ RemoveItem \/ AddStructure \/ RemoveStructure

RichTextSpec == RichTextInit /\ [][RichTextNext]_nodes

-----------------------------------------------------------------------------
(***************************************************************************)
(* Properties.                                                             *)
(***************************************************************************)

\* Whatever is clicked in whatever order, a block leaves the limits only by the
\* two selects, and only like this: a format nests text below the deepest level
\* or joins texts to one that is too long, or a list becomes a paragraph with
\* too many inline nodes.  Everything else the disabled buttons prevent.
LimitsLeft ==
  [][WithinLimits(nodes) /\ ~WithinLimits(nodes)' =>
       \/ /\ Format
          /\ \/ \E inline \in Places(nodes') : Deepest(inline) > MaxDepth
             \/ \E text \in ToSet(Texts(nodes')) : Len(text) > MaxText
       \/ /\ ChangeStructure
          /\ \E inline \in Places(nodes') : Len(inline) > MaxNodes]_nodes

\* What the block says, whatever its format.
WordsOf(list) == SelectSeq(FlattenSeq(Texts(list)), LAMBDA w : w # Space)

\* Formats, structures and new fields never lose, repeat or reorder what was
\* written, however the formats and lists are nested: only writing and removing
\* change the words.
WordsKept ==
  [][WordsOf(nodes') # WordsOf(nodes) =>
       Write \/ RemoveInline \/ RemoveItem \/ RemoveStructure]_nodes
=============================================================================
