----------------------------- MODULE RevisionList -----------------------------
(***************************************************************************)
(* The page with all revisions of a content item, a part at a time         *)
(* (components/admin-content-revisions.tsx).  A page of another item is    *)
(* another instance of the component, so the item is fixed and the key of  *)
(* a result differs by refreshKey only.                                    *)
(*                                                                         *)
(* Revisions are numbered by the API and never change; the newest come     *)
(* first, and a cursor stands for everything older than its page.          *)
(***************************************************************************)
EXTENDS Integers, SequencesExt

CONSTANTS
  RevisionPage,  \* how many revisions the API returns at once
  MaxRevisions   \* bounds how many are saved

ASSUME RevisionListAssumption ==
  RevisionPage \in Nat \ {0} /\ MaxRevisions \in Nat \ {0}

VARIABLES
  saved,       \* the API: how many revisions there are
  load,        \* the two reads of the effect: which have been answered, the page read
  listed,      \* result: the item, its revisions, nextCursor and error
  loadingMore,
  asked        \* the cursors of the reads of "Load more" in flight

revisionVars == <<saved, load, listed, loadingMore, asked>>

Below(cursor) ==
  LET size == IF RevisionPage < cursor THEN RevisionPage ELSE cursor - 1
  IN  [rows |-> [k \in 1 .. size |-> cursor - k], next |-> IF size < cursor - 1 THEN cursor - size ELSE 0]

NoRevisions == [rows |-> <<>>, next |-> 0]
Waiting == [content |-> FALSE, history |-> FALSE, page |-> NoRevisions]
NothingListed == [loading |-> TRUE, item |-> FALSE, rows |-> <<>>, next |-> 0, error |-> FALSE]

RevisionsInit ==
  /\ saved \in 1 .. MaxRevisions
  /\ load = Waiting
  /\ listed = NothingListed
  /\ loadingMore = FALSE
  /\ asked = <<>>

\* A draft is saved somewhere.
SaveRevision ==
  /\ saved < MaxRevisions
  /\ saved' = saved + 1
  /\ UNCHANGED <<load, listed, loadingMore, asked>>

-----------------------------------------------------------------------------
(***************************************************************************)
(* The effect.                                                             *)
(***************************************************************************)

ReadContent ==
  /\ listed.loading
  /\ ~load.content
  /\ load' = [load EXCEPT !.content = TRUE]
  /\ UNCHANGED <<saved, listed, loadingMore, asked>>

ReadHistory ==
  /\ listed.loading
  /\ ~load.history
  /\ load' = [load EXCEPT !.history = TRUE, !.page = Below(saved + 1)]
  /\ UNCHANGED <<saved, listed, loadingMore, asked>>

\* Promise.all
BothRead ==
  /\ listed.loading
  /\ load.content /\ load.history
  /\ listed' = [loading |-> FALSE, item |-> TRUE, rows |-> load.page.rows,
                next |-> load.page.next, error |-> FALSE]
  /\ UNCHANGED <<saved, load, loadingMore, asked>>

ReadFails ==
  /\ listed.loading
  /\ ~(load.content /\ load.history)
  /\ listed' = [NothingListed EXCEPT !.loading = FALSE, !.error = TRUE]
  /\ UNCHANGED <<saved, load, loadingMore, asked>>

\* "Try again" increments refreshKey; the late answer to a failed load is nobody's.
Refresh ==
  /\ listed.error /\ ~listed.item
  /\ load' = Waiting
  /\ listed' = NothingListed
  /\ UNCHANGED <<saved, loadingMore, asked>>

-----------------------------------------------------------------------------
(***************************************************************************)
(* loadMore, of the button and of the error's "Try again".                 *)
(***************************************************************************)

\* Mutation: "Try again" ignores the request in flight.
MayLoadMoreUnguarded == listed.next # 0 /\ (loadingMore => listed.error)

MayLoadMore == listed.next # 0 /\ ~loadingMore

LoadMoreRevisions ==
  /\ MayLoadMore
  /\ loadingMore' = TRUE
  /\ asked' = Append(asked, listed.next)
  /\ UNCHANGED <<saved, load, listed>>

\* A failure keeps the rows.
MoreAnswered ==
  /\ \E k \in DOMAIN asked :
       /\ asked' = RemoveAt(asked, k)
       /\ LET page == Below(asked[k])
          IN  listed' \in {[listed EXCEPT !.error = TRUE],
                          [listed EXCEPT !.rows = @ \o page.rows, !.next = page.next, !.error = FALSE]}
  /\ loadingMore' = FALSE
  /\ UNCHANGED <<saved, load>>

RevisionsNext ==
  \/ SaveRevision
  \/ ReadContent \/ ReadHistory \/ BothRead \/ ReadFails \/ Refresh
  \/ LoadMoreRevisions \/ MoreAnswered

RevisionsSpec == RevisionsInit /\ [][RevisionsNext]_revisionVars

-----------------------------------------------------------------------------
(***************************************************************************)
(* Properties.                                                             *)
(***************************************************************************)

\* The rows are an unbroken part of the history, each revision once, down to the
\* place from where "Load more" goes on - although pages are appended without a
\* look at what is there, reads fail and are tried again, and drafts are saved
\* meanwhile.
HistoryHasNoGaps ==
  listed.item =>
    /\ listed.rows # <<>>
    /\ \A k \in DOMAIN listed.rows : listed.rows[k] = listed.rows[1] + 1 - k
    /\ listed.rows[Len(listed.rows)] = IF listed.next = 0 THEN 1 ELSE listed.next
=============================================================================
