---------------------------- MODULE ContentStore ----------------------------
(***************************************************************************)
(* The content API, for one content item, as the administration screens    *)
(* of features/admin-content use it.  The API is a program of its own: the *)
(* operations below are what its callers and their tests rely on.          *)
(*                                                                         *)
(* Revisions are immutable and numbered from 1; the server accepts a new   *)
(* one only on top of the latest (e2e/admin-content: "The base revision is *)
(* no longer current.").  A document is abstracted to the set of edits it  *)
(* incorporates: typing, adding, moving and removing a block each add one. *)
(***************************************************************************)
EXTENDS Integers, Sequences

CONSTANTS
  Edits,          \* what authors may do to the document
  InvalidEdits,   \* edits that leave the document outside its limits
  None            \* "undefined" or "null" in the code

ASSUME EditsAssumption == InvalidEdits \subseteq Edits

VARIABLES
  revisions,      \* the documents of revisions 1, 2, ...
  status          \* the lifecycle status of the item

store == <<revisions, status>>

Documents == SUBSET Edits
Statuses == {"DRAFT", "IN_REVIEW", "PUBLISHED", "ARCHIVED"}

Valid(document) == document \cap InvalidEdits = {}

Latest == Len(revisions)
IsDraft == status = "DRAFT"

StoreTypeOK ==
  /\ revisions \in Seq(Documents)
  /\ revisions # <<>>
  /\ status \in Statuses

\* POST admin/content: the item is created with its first revision.
StoreInit ==
  /\ revisions = <<{}>>
  /\ status = "DRAFT"

-----------------------------------------------------------------------------

\* POST .../revisions accepted.
CommitRevision(base, document) ==
  /\ base = Latest
  /\ revisions' = Append(revisions, document)
  /\ UNCHANGED status

\* POST .../revisions may be answered with 409.  Whether the API insists on a
\* draft is not decided here: it may accept or reject a current base then.
Conflicts(base) == base # Latest \/ ~IsDraft

\* POST .../publish and POST .../archive accepted, and a review of the item
\* that starts or ends.
PublishItem == status # "ARCHIVED" /\ status' = "PUBLISHED" /\ UNCHANGED revisions

ArchiveItem == status # "ARCHIVED" /\ status' = "ARCHIVED" /\ UNCHANGED revisions

ReviewItem ==
  /\ \/ status = "DRAFT" /\ status' = "IN_REVIEW"
     \/ status = "IN_REVIEW" /\ status' = "DRAFT"
  /\ UNCHANGED revisions
=============================================================================
