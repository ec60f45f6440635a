---------------------------- MODULE BlockFields ----------------------------
(***************************************************************************)
(* The fields of one block in the draft editor: what the inputs of         *)
(* content-editor-block-fields.tsx store, against what isContentBlock of   *)
(* content-renderer/types.ts accepts.  Rich text is in RichTextFields; a    *)
(* divider has no fields.                                                  *)
(*                                                                         *)
(* A value is what the validator tells apart: nothing, nothing but spaces, *)
(* a good value, and a bad one (an unsafe URL, an anchor that is no slug,  *)
(* code with too many bytes).  Inputs have the validator's maximal length. *)
(***************************************************************************)
EXTENDS Integers, SequencesExt

CONSTANTS
  MaxColumns,   \* maxTableColumns, 20
  MaxRows,      \* maxTableRows, 100
  MaxRelated    \* maxRelatedItems, 20

ASSUME FieldsAssumption == {MaxColumns, MaxRows, MaxRelated} \subseteq Nat \ {0}

VARIABLE block  \* its type and props

-----------------------------------------------------------------------------
(***************************************************************************)
(* The inputs.                                                             *)
(***************************************************************************)

\* The inputs that a block (or a related item) has at its top level.  Selects
\* only offer valid values and are left out.
Inputs ==
  [heading |-> {"text", "anchor"},
   code |-> {"language", "code"},
   callout |-> {"title", "text"},
   image |-> {"src", "alt", "caption"},
   table |-> {"caption"},
   related_content |-> {},
   item |-> {"title", "href", "description"}]

\* Those whose key is deleted when they are emptied.
Deletable ==
  [heading |-> {"anchor"},
   code |-> {},
   callout |-> {"title"},
   image |-> {"caption"},
   table |-> {"caption"},
   item |-> {"description"}]

\* Those with the attribute "required".
MarkedRequired ==
  [heading |-> {"text"},
   code |-> {"language"},
   callout |-> {"text"},
   image |-> {"src"},
   table |-> {},
   related_content |-> {},
   item |-> {"title", "href"}]

\* What can be typed.
Values(input) ==
  {"", " ", "good"} \cup (IF input \in {"anchor", "src", "href", "code"} THEN {"bad"} ELSE {})

\* { ...props, [key]: value }
Put(props, key, value) ==
  [k \in DOMAIN props \cup {key} |-> IF k = key THEN value ELSE props[k]]

\* Mutation: an emptied input stores the empty string.
StoreAlways(type, props, input, value) == Put(props, input, value)

Store(type, props, input, value) ==
  IF input \in Deletable[type] /\ value = ""
    THEN Restrict(props, DOMAIN props \ {input})
    ELSE Put(props, input, value)

-----------------------------------------------------------------------------
(***************************************************************************)
(* isContentBlock.                                                         *)
(***************************************************************************)

HasKeys(props, required, optional) ==
  required \subseteq DOMAIN props /\ DOMAIN props \subseteq required \cup optional

\* isBoundedText of every key, with its pattern or URL check; "free" texts may
\* be empty or blank.
ValidTexts(props, texts, free, optional) ==
  /\ HasKeys(props, texts \cup free, optional)
  /\ \A key \in (texts \cup optional) \cap DOMAIN props : props[key] = "good"
  /\ \A key \in free : props[key] # "bad"

\* isStringArray of the headers; rows as long as they are.
ValidTable(props) ==
  /\ HasKeys(props, {"headers", "rows"}, {"caption"})
  /\ Len(props.headers) \in 1 .. MaxColumns
  /\ \A c \in DOMAIN props.headers : props.headers[c] = "good"
  /\ Len(props.rows) \in 1 .. MaxRows
  /\ \A r \in DOMAIN props.rows : Len(props.rows[r]) = Len(props.headers)
  /\ "caption" \in DOMAIN props => props.caption = "good"

ValidProps(type, props) ==
  CASE type = "heading" -> ValidTexts(props, {"text"}, {}, {"anchor"})
    [] type = "code" -> ValidTexts(props, {"language"}, {"code"}, {})
    [] type = "callout" -> ValidTexts(props, {"text"}, {}, {"title"})
    [] type = "image" -> ValidTexts(props, {"src"}, {"alt"}, {"caption"})
    [] type = "table" -> ValidTable(props)
    [] type = "related_content" ->
         /\ Len(props.items) \in 1 .. MaxRelated
         /\ \A k \in DOMAIN props.items :
              ValidTexts(props.items[k], {"title", "href"}, {}, {"description"})

IsContentBlock == ValidProps(block.type, block.props)

-----------------------------------------------------------------------------
(***************************************************************************)
(* The blocks that are added, and the edits of inputs.                     *)
(***************************************************************************)

CreateDefaultBlock(type) ==
  [type |-> type,
   props |->
     CASE type = "heading" -> [text |-> "good"]
       [] type = "code" -> [language |-> "good", code |-> ""]
       [] type = "callout" -> [text |-> "good"]
       [] type = "image" -> [src |-> "good", alt |-> ""]
       [] type = "table" -> [headers |-> <<"good">>, rows |-> << <<"">> >>]
       [] type = "related_content" -> [items |-> << [title |-> "good", href |-> "good"] >>]]

FieldsInit == \E type \in DOMAIN Inputs \ {"item"} : block = CreateDefaultBlock(type)

\* onChange({ ...block, props: { ...block.props, key: value } })
SetProp(key, value) == block' = [block EXCEPT !.props = Put(@, key, value)]

Type ==
  \E input \in Inputs[block.type] : \E value \in Values(input) :
    block' = [block EXCEPT !.props = Store(block.type, @, input, value)]

-----------------------------------------------------------------------------
(***************************************************************************)
(* TableFields.                                                            *)
(***************************************************************************)

IsTable == block.type = "table"
Headers == block.props.headers
Rows == block.props.rows

\* Every row gets as many cells as there are headers.
Resized(rows, headers) ==
  [r \in DOMAIN rows |->
    [c \in DOMAIN headers |-> IF c \in DOMAIN rows[r] THEN rows[r][c] ELSE ""]]

UpdateHeaders(headers) ==
  block' = [block EXCEPT
    !.props = Put(Put(@, "headers", headers), "rows", Resized(Rows, headers))]

TypeHeader ==
  /\ IsTable
  /\ \E c \in DOMAIN Headers, value \in Values("header") :
       UpdateHeaders([Headers EXCEPT ![c] = value])

TypeCell ==
  /\ IsTable
  /\ \E r \in DOMAIN Rows : \E c \in DOMAIN Rows[r], value \in Values("cell") :
       SetProp("rows", [Rows EXCEPT ![r][c] = value])

AddColumn == IsTable /\ Len(Headers) < MaxColumns /\ UpdateHeaders(Append(Headers, "good"))

RemoveColumn == IsTable /\ Len(Headers) # 1 /\ UpdateHeaders(Front(Headers))

AddRow ==
  /\ IsTable
  /\ Len(Rows) < MaxRows
  /\ SetProp("rows", Append(Rows, [c \in DOMAIN Headers |-> ""]))

RemoveRow ==
  /\ IsTable
  /\ Len(Rows) # 1
  /\ \E r \in DOMAIN Rows : SetProp("rows", RemoveAt(Rows, r))

-----------------------------------------------------------------------------
(***************************************************************************)
(* RelatedContentFields.                                                   *)
(***************************************************************************)

IsRelated == block.type = "related_content"
Related == block.props.items

TypeItem ==
  /\ IsRelated
  /\ \E k \in DOMAIN Related, input \in Inputs.item : \E value \in Values(input) :
       SetProp("items", [Related EXCEPT ![k] = Store("item", @, input, value)])

AddRelated ==
  /\ IsRelated
  /\ Len(Related) < MaxRelated
  /\ SetProp("items", Append(Related, [title |-> "", href |-> ""]))

RemoveRelated ==
  /\ IsRelated
  /\ Len(Related) # 1
  /\ \E k \in DOMAIN Related : SetProp("items", RemoveAt(Related, k))

FieldsNext ==
  \/ Type
  \/ TypeHeader \/ TypeCell \/ AddColumn \/ RemoveColumn \/ AddRow \/ RemoveRow
  \/ TypeItem \/ AddRelated \/ RemoveRelated

FieldsSpec == FieldsInit /\ [][FieldsNext]_block

-----------------------------------------------------------------------------
(***************************************************************************)
(* Properties.                                                             *)
(***************************************************************************)

\* What an input shows: an absent key is an empty input.
Shown(props, input) == IF input \in DOMAIN props THEN props[input] ELSE ""

VisiblyWrong(type, props) ==
  \E input \in Inputs[type] :
    \/ Shown(props, input) \notin {"", "good"}
    \/ input \in MarkedRequired[type] /\ Shown(props, input) = ""

\* A block that the validator refuses, and with it every save, shows why: an
\* input with something wrong in it, or an empty one that is marked as required.
\* Only the headers of a table must not be empty and are not marked.
InvalidIsVisible ==
  ~IsContentBlock =>
    \/ VisiblyWrong(block.type, block.props)
    \/ IsTable /\ \E c \in DOMAIN Headers : Headers[c] # "good"
    \/ IsRelated /\ \E k \in DOMAIN Related : VisiblyWrong("item", Related[k])
=============================================================================
