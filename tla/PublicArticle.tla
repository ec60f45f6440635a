---------------------------- MODULE PublicArticle ----------------------------
(***************************************************************************)
(* A published article as readers get it: getPublishedContent of           *)
(* public-content.service.ts, behind the data cache of Next.js, and the    *)
(* page app/articles/[domain]/[slug]/page.tsx, which calls it twice, once  *)
(* for the metadata and once for the body.                                 *)
(*                                                                         *)
(* The cache is a program of its own.  What is assumed of it: an entry is  *)
(* served for 60 seconds, and after them once more for every request while *)
(* it is fetched again in the background; a response of status 200, and no *)
(* other, is stored, whether or not it can be read afterwards; two fetches *)
(* of one entry may overlap and end in any order.                          *)
(***************************************************************************)
EXTENDS Integers, FiniteSets

CONSTANTS
  MaxPublications,  \* bounds how often the article is published
  MaxFetches        \* bounds the fetches in flight

ASSUME PublicAssumption == {MaxPublications, MaxFetches} \subseteq Nat

VARIABLES
  publications,  \* the API: the published revision, 0 before the first
  archived,      \* the API
  readable,      \* the answers of status 200 are what the parser expects
  entry,         \* what the cache holds: a revision, Unreadable, or 0 for none
  stale,         \* 60 seconds have passed
  fetches,       \* the fetches in flight
  view           \* one view of the page: what its two calls returned

publicVars == <<publications, archived, readable, entry, stale, fetches, view>>

Parts == {"metadata", "body"}
NotFound == 0
Waiting == -1   \* not called yet, or a fetch for it is in flight
Error == -2     \* PublicContentUnavailableError
Unread == -1    \* a fetch that the API has not seen yet
Unreadable == -3

\* moved and wasPublic are history: whether the API or the cache changed during
\* this view, and whether the article was public before it.
NewView(public) == [metadata |-> Waiting, body |-> Waiting, moved |-> FALSE, wasPublic |-> public]

IsPublic == publications # 0 /\ ~archived

PublicInit ==
  /\ publications \in 0 .. MaxPublications
  /\ archived = FALSE
  /\ readable = TRUE
  /\ entry = 0
  /\ stale = FALSE
  /\ fetches = {}
  /\ view = NewView(IsPublic)

Moved == view' = [view EXCEPT !.moved = TRUE]

PublishArticle ==
  /\ publications < MaxPublications /\ ~archived
  /\ publications' = publications + 1
  /\ Moved
  /\ UNCHANGED <<archived, readable, entry, stale, fetches>>

ArchiveArticle ==
  /\ ~archived
  /\ archived' = TRUE
  /\ Moved
  /\ UNCHANGED <<publications, readable, entry, stale, fetches>>

\* A release of the API, or a proxy that answers for it.
ReleaseApi ==
  /\ readable' = ~readable
  /\ UNCHANGED <<publications, archived, entry, stale, fetches, view>>

\* Mutation: nothing expires.
StaleNever == FALSE

StaleAfter == TRUE

Expire ==
  /\ entry # 0 /\ ~stale
  /\ stale' = StaleAfter
  /\ UNCHANGED <<publications, archived, readable, entry, fetches, view>>

-----------------------------------------------------------------------------
(***************************************************************************)
(* getPublishedContent.                                                    *)
(***************************************************************************)

\* Mutation: the metadata are read past the cache.
CachedBody(part) == IF part = "body" THEN entry ELSE 0

Cached(part) == entry

\* What a response of status 200 is parsed to, each time that it is served.
Parsed(content) == IF content = Unreadable THEN Error ELSE content

\* A fetch is for a part of the page, or for the cache alone.
Fetch(for) == fetches' = fetches \cup {[for |-> for, read |-> Unread]}

Call(part) ==
  /\ view[part] = Waiting
  /\ \A f \in fetches : f.for # part
  /\ IF Cached(part) # 0
       THEN /\ view' = [view EXCEPT ![part] = Parsed(Cached(part))]
            /\ \/ ~stale /\ UNCHANGED fetches
               \/ stale /\ (IF Cardinality(fetches) < MaxFetches THEN Fetch("cache") ELSE UNCHANGED fetches)
       ELSE Fetch(part) /\ UNCHANGED view
  /\ UNCHANGED <<publications, archived, readable, entry, stale>>

\* The API answers: status 200, with the published revision when it can be read,
\* or 404.
ApiReads(f) ==
  /\ f.read = Unread
  /\ fetches' = (fetches \ {f}) \cup
       {[f EXCEPT !.read = IF ~IsPublic THEN NotFound
                           ELSE IF readable THEN publications ELSE Unreadable]}
  /\ UNCHANGED <<publications, archived, readable, entry, stale, view>>

Return(f, value, moved) ==
  view' = IF f.for \in Parts THEN [view EXCEPT ![f.for] = value, !.moved = @ \/ moved]
                             ELSE [view EXCEPT !.moved = @ \/ moved]

\* An answer of status 200 arrives.  It is stored, and then parsed.
Found(f) ==
  /\ f.read \notin {Unread, NotFound}
  /\ fetches' = fetches \ {f}
  /\ entry' = f.read
  /\ stale' = FALSE
  /\ Return(f, Parsed(f.read), f.read # entry)
  /\ UNCHANGED <<publications, archived, readable>>

\* ApiError with status 404.  What becomes of an older entry is left open.
NotPublic(f) ==
  /\ f.read = NotFound
  /\ fetches' = fetches \ {f}
  /\ entry' \in {entry, 0}
  /\ stale' = (stale /\ entry' # 0)
  /\ Return(f, NotFound, entry' # entry)
  /\ UNCHANGED <<publications, archived, readable>>

\* Mutation: every failure is "not found".
UnavailableAsNull == NotFound

Unavailable == Error

\* No answer within 3.5 seconds, or another status: nothing is stored.
FetchFails(f) ==
  /\ fetches' = fetches \ {f}
  /\ Return(f, Unavailable, FALSE)
  /\ UNCHANGED <<publications, archived, readable, entry, stale>>

-----------------------------------------------------------------------------

\* The page has been rendered, and a reader asks for it again.
VisitAgain ==
  /\ view.metadata # Waiting /\ view.body # Waiting
  /\ view' = NewView(IsPublic)
  /\ UNCHANGED <<publications, archived, readable, entry, stale, fetches>>

Visit == VisitAgain \/ \E part \in Parts : Call(part)

PublicNext ==
  \/ PublishArticle \/ ArchiveArticle \/ ReleaseApi \/ Expire \/ Visit
  \/ \E f \in fetches : ApiReads(f) \/ Found(f) \/ NotPublic(f) \/ FetchFails(f)

PublicSpec == PublicInit /\ [][PublicNext]_publicVars

\* Time passes, readers come, every fetch ends and not every one fails.
PublicFairness ==
  /\ WF_publicVars(Expire)
  /\ WF_publicVars(Visit)
  /\ WF_publicVars(\E f \in fetches : Found(f) \/ NotPublic(f) \/ FetchFails(f))
  /\ SF_publicVars(\E f \in fetches : ApiReads(f))
  /\ SF_publicVars(\E f \in fetches : Found(f))

-----------------------------------------------------------------------------
(***************************************************************************)
(* Properties.                                                             *)
(***************************************************************************)

\* The title and the body of a page are of the same revision, or both are
\* missing, unless something changed between the two calls: the API's content or
\* the cache's entry.
PageIsOneRevision ==
  view.metadata >= NotFound /\ view.body >= NotFound /\ view.metadata # view.body => view.moved

\* "Published article 404s remain 404s; upstream failures render a generic 500
\* error state": a reader is told that a public article does not exist only when
\* it is taken down during the visit.
NotFoundIsTrue == view.body = NotFound /\ view.wasPublic => archived

\* Publishing tells the site nothing.  Still, whatever fetches overlap, time out,
\* overwrite each other and store answers that cannot be read, readers who keep
\* coming finally get the last revision, if it stays public and the API's answers
\* stay readable from some time on.
LastRevisionIsSeen ==
  <>[](~archived /\ readable /\ publications = MaxPublications) =>
    []<>(view.body = MaxPublications)
=============================================================================
