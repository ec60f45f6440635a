---------------------------- MODULE MCContentList ----------------------------
(* Small instances, one at a time, of the lists of the administration: the  *)
(* items, the titles looked up for one page of them, and the revisions.     *)
EXTENDS ContentList, TitleLookup, RevisionList

VARIABLE part  \* the list that a behaviour is about; the others stay at rest

titleVars == vars

ItemsRest ==
  /\ itemStatus = <<>>
  /\ status = AllStatuses
  /\ refreshKey = 0
  /\ result = [NoResult EXCEPT !.key = RequestKey]
  /\ first = NoFirst
  /\ more = NoMore

TitlesRest ==
  /\ nextIndex = N + 1
  /\ index = [w \in Workers |-> 0]
  /\ results = [i \in Items |-> i]
  /\ promise = "fulfilled"

RevisionsRest ==
  /\ saved = 1
  /\ load = Waiting
  /\ listed = NothingListed
  /\ loadingMore = FALSE
  /\ asked = <<>>

ListsInit ==
  \/ part = "items" /\ ListInit /\ TitlesRest /\ RevisionsRest
  \/ part = "titles" /\ ItemsRest /\ Init /\ RevisionsRest
  \/ part = "revisions" /\ ItemsRest /\ TitlesRest /\ RevisionsInit

ListsNext ==
  \/ part = "items" /\ ListNext /\ UNCHANGED <<part, titleVars, revisionVars>>
  \/ part = "titles" /\ Next /\ UNCHANGED <<part, listVars, revisionVars>>
  \/ part = "revisions" /\ RevisionsNext /\ UNCHANGED <<part, listVars, titleVars>>

ListsSpec ==
  /\ ListsInit /\ [][ListsNext]_<<part, listVars, titleVars, revisionVars>>
  /\ WF_listVars(part = "items" /\ FirstStep)
  /\ WF_listVars(part = "items" /\ MoreStep)
  /\ WF_titleVars(part = "titles" /\ Next)
=============================================================================
