# A verification of Stack Atlas

TLA+ models of Stack Atlas, checked with TLC on small instances, with theorems
proved for all of them by TLAPS. Stack Atlas is a Next.js program in two modes,
the *learner* platform (articles, topics, paths, search, progress) and the
*admin* platform (writing and publishing content), in front of a content API that
is a program of its own. This document says what the parts are, which module
models which part, what each run and each proof shows and under which
assumptions, and what is left out.

## 1. The system

| Component | State it keeps | Operations |
| --- | --- | --- |
| Draft editor (`admin-content-editor.tsx`) | what was loaded, the document, the saved baseline, busy/error/blocked, a modal dialog | load, reload, edit, delete a block, save |
| Publishing workflow and detail page (`admin-content-publishing-workflow.tsx`, `admin-content-detail.tsx`) | item and revisions, load in flight, selected revision, preview, dialog, operation, outcome | load, refresh, preview, publish, verify, archive |
| Admin content service (`admin-content.service.ts`) | none; `mapConcurrent` has an index shared by its workers | one HTTP call per operation, title lookups |
| Content API (external) | items, immutable revisions, status, publication records | list, create, append on a base, publish, archive |
| Content lists (`admin-content-list.tsx`, `admin-content-revisions.tsx`) | filter, pages so far, cursor, a refresh key | filter, load more, retry |
| Create form (`admin-content-create-form.tsx`) | fields, busy, error, blocked status | submit, retry |
| Editor model and block fields (`content-editor-model.ts`, `content-editor-block-fields.tsx`, the limits of `content-renderer/types.ts`) | the list of blocks, each with its properties | insert, duplicate, move, remove; edit fields, tables, rich text; validate |
| Learning progress (`features/progress`) | one record in local storage, a cached copy per tab | read and migrate, toggle, visit, choose a path, follow storage events |
| Search (`features/search`, `app/api/search`, `lib/content/search.ts`) | query, filter, timer, request in flight, results | type, filter, answer, abort |
| Accounts (`features/auth`) | what the form or the panel shows | register, sign in, read the account, sign out |
| Public content (`features/content`, `app/articles`) | the 60 s cache of published articles | read an article twice per page, list |
| Catalog (`lib/content`) | none after loading | load, validate, redirect, rank |
| Platform routing (`proxy.ts`, `lib/platform`) | the configured mode | decide each request |
| Demo API (`examples/atlas-demo-api`) | readiness flag, server lifecycle | probe, toggle, shut down |
| Labs and CI scripts (`labs`, `scripts`) | a test cluster and who created it | check, create, verify, clean up |

The components meet in five places: the administration screens in the content
API (several tabs and several administrators at once), the workflow in the
editor's revisions, the public pages in what the workflow publishes, the
tabs of one reader in the browser's local storage, and the tabs of one visitor in
the session cookie.

## 2. What makes it hard

* **Several tabs and several people on one item.** The API only compares the base
  revision of a save with the latest one. That this is enough to never lose a
  colleague's work depends on what each tab believes its base is, through loads,
  reloads, saves, lost answers and a modal dialog.
* **Effects and late answers.** Every screen starts a request in an effect or a
  handler and uses state that was read before the `await` when the answer comes.
  The code protects itself in four different ways: a flag set by the cleanup
  (`active`, `current`), a key compared on arrival (`requestKey`), a disabled
  control (`busy`) and an `AbortController`. Each has its own gaps.
* **Answers that belong to different moments.** The detail page shows an item and
  its revisions, which are two requests; the editor loads in three.
* **Lost answers.** A POST may have been carried out when its answer fails. No
  screen knows; each relies on what the API refuses later.
* **Shared storage without a lock.** The reader's progress is one record in local
  storage, cached per tab and kept in step by storage events, which come late.
* **No timeouts.** `fetch` is given no time limit in `client.ts`. Everything that
  must eventually happen depends on the browser settling its requests. Only public
  articles are fetched with one (3.5 s), behind a cache that nobody tells of a publication.
* **Two copies of one rule.** The buttons of the block editor and the validator count
  the same limits in different files; the paths and the articles each say where an
  article belongs; search results are ranked by two scores, one after the other.
* **Commands without a lock.** The labs' script looks for a cluster and then has it made;
  the demo server loads its readiness and then stores it.

What should hold of each part, in words:

| Component | Correct when |
| --- | --- |
| Draft editor | no save drops what somebody else saved; local edits survive every failure until the page is left; no tab stays disabled |
| Publishing workflow | what is published is what was previewed and confirmed, once; no success is reported that did not happen or is not shown |
| Title lookup | each item is looked up once, the list is complete or the call fails, and it ends |
| Content list | nothing of another filter is shown, and nothing is missing without a reason |
| Revision list | the rows are an unbroken part of the history |
| Create form | one item per visit of the form, however often it is sent |
| Blocks | edits touch one block, something is selected |
| Block fields, rich text | what the validator refuses is visible; no click leaves the limits; no text is lost |
| Learning progress | tabs agree with the device, nothing is lost without a reason |
| Search | results belong to the query shown, the dialog never stays at "Searching", the best results survive the cuts |
| Accounts | registering opens the account it made; the account shown is signed in |
| Public article | one revision per page, "not found" is true, the last publication is seen |
| Catalog | every cycle of prerequisites is reported; paths and articles agree |
| Demo API | readiness is what the toggles and the shutdown make it |
| Labs' script | it deletes no cluster of others and leaves none of its own |

## 3. Modules

| Module | Models | Uses |
| --- | --- | --- |
| `ContentStore` | one item of the content API, as the screens use it: numbered immutable revisions, compare-and-append, status | |
| `RevisionHistory` | abstract: the history of a draft authors are promised | |
| `ContentEditor` | several tabs of the draft editor and the network between them and the API | `ContentStore`, implements `RevisionHistory` |
| `PublishingWorkflow` | the detail page with the publishing workflow | `ContentStore` |
| `TitleLookup` | `mapConcurrent` as `listContent` uses it | |
| `ContentList` | the list of items | |
| `RevisionList` | the list of an item's revisions | |
| `CreateForm` | the form "New content" in several tabs | |
| `BlockEditing` | the list of blocks, the selection and the delete dialog | |
| `BlockFields` | the inputs of one block against `isContentBlock` | |
| `RichTextFields` | the tree of rich text under its buttons and selects, against the limits | |
| `LearningProgress` | local storage, tabs, storage events | |
| `SearchDialog` | the search dialog | |
| `SearchRoute` | the route the dialog asks: filter, merge, rank, cut | |
| `AuthSession` | the sign-in and register forms, the account page | |
| `PublicArticle` | a published article behind the cache | |
| `Prerequisites` | the search for cycles among prerequisites | |
| `LearningPaths` | what the validator compares of paths and articles, and what is served | |
| `DemoApi` | readiness and shutdown of the demo server | |
| `LabRunner` | the script of the labs and the cluster | |
| `ContentEditorProofs`, `PublishingWorkflowProofs`, `LearningProgressProofs`, `CreateFormProofs` | the theorems about one module, with their proofs | the module, TLAPS |
| `ListProofs`, `BlockProofs`, `SiteProofs`, `CatalogAndLabsProofs` | the theorems about the modules that `MCContentList`, `MCBlocks`, `MCSite` and `MCCatalogAndLabs` hold instances of (without `RichTextFields`) | those modules, TLAPS |
| `MCContentEditor`, `MCPublishingWorkflow`, `MCLearningProgress`, `MCCreateForm`, `MCSearchFilter` | instances of one module | the module |
| `MCContentList`, `MCBlocks`, `MCSite`, `MCCatalogAndLabs` | small instances of several modules, one at a time | those modules |

Actions have the names of the functions they model, or say what happens to a
request: `ReadItem` is the moment the API answers, `ShowItem` the moment the
answer is rendered. A comment that begins with `Mutation:` marks a definition that
is *not* part of the model: it is the next definition with a plausible mistake in
it. `PROJECT.json` pairs each checked property with a mutation that breaks it.

The four modules that hold several small instances choose one of them in the initial state
(`part`); the variables of the others keep a value at rest. Their state space is the
sum of the instances' and not the product: these components share no state.

**ContentEditor.** `state`, `loading`, `loadError`, `deleting` are per tab what
`useState` and the running effect hold; `requests` and `replies` are the network.
A document is the *set of edits* made to it: two documents are equal when they
have the same edits, and a save that starts from an older revision lacks the edits
it has not seen, which is all the properties need. `InvalidEdits` are edits that
`validateEditorDocument` rejects. A load has two steps, reading the item (with the
number of its latest revision) and reading that revision; the code's third
request, the title, is merged with the second because revisions are immutable.
A tab may close with anything in flight: its answers are dropped, its append is
still carried out. `OtherAdministrators` publish and archive, which is why a save
may be answered 403 or 409 by a draft that was fine when it was loaded.

**PublishingWorkflow.** `result` and `load` belong to the detail page, the rest to
the workflow below it. `selection` is stored with the latest revision it was made
for, as in the code, so a newer revision resets it; `FollowSelection` restarts the
preview in the same render. A call of `confirm()` is a record that goes from
`sent` to `accepted` or `rejected` to its end, in the order of the `await`s.
Leaving the page resets it: the calls it leaves behind can do nothing that other
administrators cannot. The page has the newest `DEFAULT_PAGE_SIZE` revisions (`Listed`), 25 in
the code, and drops the cursor to the others: `OutcomeIsShown` excuses a publication that newer
revisions have pushed off the page.

**TitleLookup.** One step per resumption of a worker: JavaScript does not
interrupt the code between two `await`s.

**ContentList.** The API returns pages of the newest items first and a cursor that
stands for everything older than the last one. A page is the *set* of its rows: their order is
that of their numbers. The properties compare the list
with two history variables: `since`, the items that matched the filter ever since
the first page was read, and `crossed`, whether an answer was added that had been
asked for before the list was replaced.

**RevisionList.** Revisions are numbers. `load` holds the two reads of the effect, `asked` the
reads of "Load more" in flight, of which the button allows one; an older revision
page never changes, so the only way to a gap is a wrong cursor or a page twice.

**CreateForm.** A content key is drawn at the first attempt of a visit and kept in
a ref. The API lets a key and a slug name one item each and may answer a repeated
request with the item or with 409. `visit` is history: it tells which visit of the
form an item comes from. A tab whose attempt succeeded keeps the form, enabled,
until the next page appears, so it can be submitted again.

**BlockEditing.** The list operations of `content-editor-model.ts` with the
handlers that call them. Closing the delete dialog gives the focus back to where
it was, which may be the button of the block that is being removed: its `onFocus`
then selects that block again. `refocused` remembers it; it is the one exception
in `SelectionExists`.

**BlockFields.** A value is what the validator tells apart: nothing, blank, good, bad. The
module holds both sides, what the inputs store and `isContentBlock`, each from its
own file. `InvalidIsVisible` compares them: a block that cannot be saved must have an input
that shows it.

**RichTextFields.** The components nest as the tree does, so an edit is an operator on
a list of nodes that returns the set of its results. Words are what an author typed;
the space that joins list items is no word. The limits appear twice, in the guards of the
controls (`AddEnabled`, `AddItem`, `AddStructure`) and in `WithinLimits`, translated from two files.
Both controls without a guard, the Format select and the structure select, are the
exceptions of `LimitsLeft`.

**LearningProgress.** An update writes the whole record from the tab's copy
(`updateProgress`), tells every *other* tab, and a tab that handles an event reads
what is stored by then. `events` counts the events a tab has not handled.
`astray` are the tabs that could not follow: one whose write failed for lack of
quota, one that missed events before it subscribed. Steps on local storage are
atomic per turn of a tab's event loop.

**SearchDialog.** `searches` are the runs of the search effect that have not ended:
waiting for their timer, fetching, or fetching after they were aborted. An aborted
one still runs its `catch` and `finally`.

**SearchRoute.** An item is its kind and the best place where the query occurs, which is
what both scores see. Items are numbered in the order of their titles, which decides between equal
scores, so a list of results is the set of them: `Best` keeps those that fewer than `Limit` others
precede. Topics and paths are searched for in their title followed by their description, so that a query may
begin in one and end in the other (`across`). `LostToLimit` is the one disagreement of the scores: the first
does not tell an exact title from one that contains the query, nor a description that contains it
from a match across both.

**AuthSession.** The session is the cookie; `OtherTab` changes it, and the accounts, at any
time. `calls` are the calls under way: a submission, which is two of them when it registers, or a
sign-out. Links work meanwhile. A page that is left unmounts (`mounted`): the states its calls would
set are gone, but the API still carries them out and what follows the answer still runs, the second
call of a registration and `router.replace` included. A page replaced by itself keeps its component.
Every call may fail, before it has its effect or after; one that has failed has no effect later. Passwords are
left out: whether one is right is a choice, except that a new account has the one just typed. `made` and
`overtaken` are history: which submission made the account, and whether another tab or the call of a
page that was left has changed something since the API answered `account/me`.

**PublicArticle.** The cache is a program of its own: an entry is served for 60 seconds
and then while it is fetched again; fetches may overlap and end in any order. A response of
status 200 is stored before the service parses it: while the API's answers cannot be read
(`readable`), the entry becomes one that gives an error each time it is served (`Parsed`). `view` is one
rendering of the page with its two calls. What becomes of an entry whose fetch says
404 is left open.

**Prerequisites.** `trail` is the call stack of the recursion; one call or return is a step.
The reference definition of a cycle (`HasCycle`) does not search.

**LearningPaths.** One step validates a catalog; every small catalog is an initial
state. The checks are the loops of `validateCatalog`, the reference (`PathsAgree`) what
navigation and progress rely on. The sequence of a path is the set of the places in its modules:
the check for duplicates compares any two of them.

**DemoApi.** A toggle is three steps, as in the handler: load, store, load for the answer.
`Exit` is the end of the 15 seconds as well as that of the last request.

**LabRunner.** One step per command. Others create and delete clusters of that name between
any two; a command of kind that fails looks like an answer without the cluster,
because the script pipes it into `grep` inside a condition.

## 4. Runs

TLC checks deadlock in every run except `lists` and `catalog_and_labs`: a call of
`mapConcurrent`, the validator, the demo server and the labs' script come to their end.

| Run | Instance | Shows |
| --- | --- | --- |
| `editor` | 2 tabs, 2 edits, any number of loads, saves and losses | `BaselineIsBaseRevision`, `SaveInFlightIsShown`, `ConflictHasWayOut`, `LocalEditsKept`; the editors implement `RevisionHistory` |
| `editor_live` | 2 tabs, one edit that is valid and one that is not | no tab waits forever (`EveryWaitEnds`) |
| `publishing` | 1 page that lists 2 of up to 3 revisions, other administrators | `OneOperation`, `ConfirmedIsPreviewed`, `OutcomeIsTrue`, `OutcomeIsShown`, `WorkflowRecovers` |
| `progress` | 2 tabs, 1 article, 1 path, up to 3 queued events | `InStep`, `LossHasReason`, `TabsConverge` |
| `progress_lost` | the same with 2 articles, up to 2 queued events | finding 1 |
| `lists` | up to 3 items, 2 statuses, pages of one, one retry | `RowsMatchFilter`, `GapsHaveReason`, `ListSettles` |
| | 7 titles, 3 workers | `FulfilledIsComplete`, `Settles` |
| | up to 5 revisions, pages of two | `HistoryHasNoGaps` |
| `blocks` | 4 identifiers, 2 contents, a limit of 3 blocks | `SelectionExists`, `OthersUntouched` |
| | every type of block, tables of 2 by 2, 2 related items | `InvalidIsVisible` |
| | 2 words, depth 2, 2 nodes, 2 items, texts of one word | `LimitsLeft`, `WordsKept` |
| `create` | 2 tabs, 2 visits, 2 keys, 2 valid slugs | `OneItemPerVisit`, `SuccessIsTrue` |
| `create_renewed` | 1 tab, 1 visit | finding 3 |
| `site` | 2 terms, 2 filters | `SettledOnQuery`, `SearchEnds` |
| | every catalog of up to 4 matches, a limit of 2 | `BestResultsKept` |
| | 2 publications, 2 fetches in flight, answers that can and cannot be read | `PageIsOneRevision`, `NotFoundIsTrue`, `LastRevisionIsSeen` |
| | 2 accounts, 2 calls under way | `RegisterOpensItsOwn`, `ShownIsSignedIn` |
| `search_filter` | every catalog of up to 2 matches | finding 2 |
| `catalog_and_labs` | every graph of 3 articles | `CyclesReported` |
| | 2 articles, 2 modules, 2 paths, lists of up to 2 | `ServedPathsAgree` |
| | 2 clients, 3 toggles | `ReadinessIsExplained` |
| | one script, one other user | `ForeignClusterKept`, `LeftoverHasReason` |

**Bounds.** In the editor nothing is bounded but the sets: every save needs an
edit that is new to its document, so two edits make up to two revisions after the
first, enough for a save, a conflict and a reload on both sides. `MaxRevisions` bounds what
*others* add next to the page; three allow the latest revision to move twice, under
a preview and under a dialog, and a page of two leaves one of them out. Pages of one item with three items give the list
two cursors, one of which can be stale. Seven items for three workers give
each worker a second and a third claim. `MaxEvents` bounds only the steps that
cause new events: tabs are never kept from handling them. Four identifiers for three blocks
leave one to insert at the limit. The limits of a block are one or two, so that each is reached
from both sides; `LeafBound` keeps the trees of rich text small, and `Small`
lets them grow one beyond every limit. Four matches for a limit of two let each ranking drop
some. Two fetches in flight overtake each other; a third could only repeat it. Two calls
(`Slots`) are one of the page that is shown and one of a page that was left, which is what interferes. Three articles
have every kind of cycle, one that is entered from outside included. Of
revisions, five make three pages of two. Three toggles of two clients overlap twice. Two tabs are enough for every race of two; for
more of them, and for every other constant, there are the theorems.

**Fairness.** `FairSpec` of each module says what the browser does by itself:
a fetch that was sent is settled with an answer or an error, a timer fires, a
promise continues, a storage event is delivered. The code gives no time limit, so
this is an assumption about the browser and the network; without it nothing in
this code ends. For `PublicArticle` it also says that time passes, that readers keep
coming, and that not every fetch fails, which `LastRevisionIsSeen` needs: the page is only
fetched when it is read. That the API's answers can be read from some time on is a premise of the
property itself. Otherwise nothing is assumed of people: nobody has to click, to retry,
to stop typing or to come back. Where a property needs people to pause
(`TabsConverge`, `SearchEnds`, `ListSettles`) or to stay (`WorkflowRecovers`) it
says so itself. Losing an answer is always possible and never required.

## 5. Proofs

All are checked by TLAPS for every value of the constants that satisfies the
modules' named assumptions. Those say that `None` is none of the values it stands
next to, that bounds are natural numbers, positive where the code's are, and that special values belong to their sets.

* **`ContentEditorProofs`** proves all safety properties of the run `editor`, that a busy
  tab has exactly one request of its own (`BusyIsOneRequest`), and
  `HistoryRefined`: the tabs, the network and the API implement `RevisionHistory`.
  The properties are not inductive by themselves: that a saved document extends its base
  needs that a busy tab cannot be edited, which needs that it is busy exactly
  while one request of its own is outstanding, which needs that requests still
  name the revision the tab shows. `IInv` has one part per tab (`TabOK`) and one per
  request (`RequestOK`); two frame lemmas show that a step of one tab leaves the parts
  of all others alone, and each action then has a lemma of its own.
* **`PublishingWorkflowProofs`** follows an operation: `DialogOK` while it waits for
  the user, `CallOK` while it is sent, accepted and verified, `OutcomeOK` once it is
  reported. The step that is easy to get wrong is the refresh: `WillMark` and
  `WillArchive` say that any load that can still answer began after the operation
  was accepted, or will be replaced, and `PublishedListed` that what it reads is marked or
  beyond the page. `ArchivedIsFinal` is proved here only.
* **`LearningProgressProofs`**: `TypeOK` and `InStep` are inductive together. Whoever
  changes the stored record leaves every other open tab an event to come, and what a
  tab writes or reads itself is what is stored afterwards. `LossHasReason`
  follows from `InStep`: a tab that is up to date writes what is stored, changed. It
  speaks of the record on the device, also while that is in the old format: a tab that could not
  migrate it is `astray`.
* **`CreateFormProofs`**: a content key and a visit of the form belong together wherever they
  occur (`Uses`: in an item, in a request, also one whose tab has gone, in an open form), and a
  visit without a key has left no trace. With that, `OneItemPerVisit` follows from what the API
  promises, one item per key.
* **`ListProofs`**. *Items*: `RecordsOK`, `FirstOK`, `ResultOK` and `MoreOK` carry "these rows
  match this filter, and down to the cursor nothing is missing" through the requests in
  flight, the first page, the list and the page that is appended; an appended page may only
  break it when it is `crossed`. Lemmas about the API's pages come first: a page has every
  matching item down to its cursor. *Titles*: `TitlesPlaced` says where each item is, not
  claimed yet, with one worker, or done. *Revisions*: `Unbroken` is kept by appending the page that
  the one request in flight asked for.
* **`BlockProofs`**. *The list*: lemmas on insertion, duplication, moves and removal say which
  identifiers and which places there are afterwards, and that removing the one block an
  operation is about leaves the same list before and after it; the induction over the steps is
  short then (`BlocksInv`). *The fields*: `FieldsInv` says which keys and values the inputs can have
  stored, per type (`PropsOK`, `TableOK`, `RelatedOK`); `FieldsVisible` compares that with the
  validator, condition by condition.
* **`SiteProofs`**. *The dialog*: `OneLiveSearch` makes `SettledOnQuery` inductive; an aborted
  search changes no results (`NoLateResults`). *The route*: not an induction over steps but one
  fact about two cuts. `BestCorrect` says that what a cut leaves out comes after
  `Limit` others, `CatalogCut` that these do not rank lower in the second score, but for
  `LostToLimit`, and `AnswerIsBest` puts both together. *The article*: `ShowsEntry`: as long
  as nothing has moved, each half of the page shows the entry of the cache; `MissingIsArchived`: a
  fetch of a public article that finds nothing was answered after it was archived. *Accounts*:
  `CallFits` says which calls can be under way for the page that is shown and which only for one
  that was left, and that the sign-in of a registration follows from its own success; `PanelOK`, that an
  account is shown only after `account/me`. A step of one call leaves the others alone (`SlotKeeps`).
* **`CatalogAndLabsProofs`**. *Prerequisites*: as long as nothing was reported, what is visited is
  closed under prerequisites and each of its subsets has an article that requires no other of it
  (`VisitedOK`); `ReturnKeeps` shows that the article returned from can join. At the end everything is
  visited. The other direction reads a cycle off the trail (`CycleIsThere`). *Paths*:
  `AcceptedAgrees` and `AgreedIsAccepted` show that the validator's loops and `PathsAgree` say the
  same. *Demo*: `AloneOK`: while no two toggles have met, the one in its handler has loaded what
  is still so. *Labs*: `LabInv` says whose the cluster is at each line of the script.

All safety properties of the passing runs are theorems, but the two of `RichTextFields`. The type
invariants, `LookedUpOnce`, `OneLiveSearch`, `NoLateResults`, `UniqueIds`, `BusyIsOneRequest` and
`ArchivedIsFinal` are proved and not among the runs' properties. The inductive invariants were
checked by TLC on the instances of the runs before they were proved. The numbers that are 20, 500 or
three in the code are any in the proofs, and so are the numbers of tabs, clients, items, revisions
and blocks.

Only model-checked:

* the liveness properties (`EveryWaitEnds`, `WorkflowRecovers`, `TabsConverge`, `Settles`,
  `SearchEnds`, `ListSettles`, `LastRevisionIsSeen`): they rest on fairness, which is out of the
  prover's reach;
* `LimitsLeft` and `WordsKept` of `RichTextFields`, whose operators are recursive as the components
  are: what they do to every tree is an induction over trees.

The three properties that a run refutes are no theorems.

## 6. Findings

1. **A completed article can be forgotten** (`progress_lost`). An update writes the
   whole record from the tab's copy. Two tabs are open. Complete one article in the first, and
   another in the second, which listens, while the storage event is still on its way to it: the first
   completion is gone from the device. `LossHasReason` is the strongest that holds.
2. **A filtered search is answered with both kinds** (`search_filter`). For "Topics" and
   for "Learning Paths" the route merges topics and paths: in the run's trace, a search for paths
   is answered with a topic, the only item that contains the query.
3. **A renewed session does not enable the form** (`create_renewed`). The notice
   says that the control is disabled until the session is renewed; nothing resets it.

Also met, and not contradicted by any text of the repository: the editor has no way
out of 401 and 403 but leaving, with the unsaved edits lost (the exception in
`ConflictHasWayOut`); a page of the list that was asked for before the filter was
changed and set back can leave a gap in the list (`crossed` in
`GapsHaveReason`); a removed block can stay selected (`refocused` in
`SelectionExists`), so that the outline shows no selection; a record that cannot be
migrated for lack of quota is taken as empty; during the 100 ms before the first
search the dialog says "No matches"; in a long list of topics or paths
an exact title, or a description that contains the query, may give way to a match that ranks below it
(`LostToLimit`); a publication can be missing from the page that reports it when a page of newer
revisions exists; an answer of the API that cannot be read is cached for 60 seconds, as an error; when
the sign-in after a registration fails, trying again says that the account exists, and the way in is the
other form; a visitor who leaves the account page during the sign-out and comes back can be shown an account
that is signed out (`overtaken`), and one who submits a form and goes elsewhere is taken to
the account all the same; a format select can nest text deeper than
the validator allows (`LimitsLeft`); the headers of a table must not be empty and
are not marked as required (`InvalidIsVisible`); a toggle during shutdown makes the demo
server ready again (`late`); a cluster that was half created, or one that was not seen at
first, is not treated as what it is (`failed`, `blind`).

## 7. Not modelled, and the plan

The content API is external: uniqueness of keys and slugs, cursors by position, and
what it refuses are taken from how the screens use it and from the answers the
end-to-end tests give. So are the account service, the data cache of Next.js and kind. React is
modelled by its effects: an effect runs after the render that changed its inputs and its
cleanup runs first. Titles, dates, messages and layout are left out. Of parsers only the
outcome is modelled: an answer that does not parse is a failure, and that of a public article
is cached nevertheless.

These parts have no module:

* the renderer (`block-renderer.tsx`, `safe-url.ts`): a function of the document;
* platform routing (`proxy.ts`, `lib/platform`): a table of host and path, without state;
* example and lab files, redirects, heading identifiers, URL helpers: functions of one file
  or string each, where what matters is the exact text;
* `validate-kubernetes-manifests.ts` and `audit-duplicates.ts`: single passes that print
  a report; `docker-runtime-smoke.sh` and the workflows drive other programs;
* pages, styles and articles.

Partly modelled: of public content, lists and searches appear only as what `SearchRoute` merges;
of the catalog, the checks that look at one entry at a time are left out.

What is left, in this order:

1. `ContentEditor` and `PublishingWorkflow` over one `ContentStore`, as they are in use:
   two browsers, one editing and one publishing; with it, that the revision that is published was
   saved by an editor and previewed as it is.
2. An abstract specification of the list (an unbroken part of what matches) and of the search
   dialog (the results of the last query that was answered), and that the modules implement them.
3. Smaller theorems about the operators: what a move or a duplicate does to every place, what
   `validateCatalog` makes of a path's sequence.
