# A verification project for Board Game Companion

Board Game Companion (BGC) is a self-hosted Python application: a FastAPI server over one SQLite
database, with background loops that look for rulebooks, archive PDFs, index them, answer
questions about them and keep a local copy of the BoardGameGeek (BGG) catalog. This directory
holds TLA+ models of the parts where several actors meet, TLC runs that check them on small
instances, and proofs that TLAPS checks for every instance.

Paths below are relative to `src/src/boardgamecompanion/` unless they start with `docs/` or
`README`. The line-by-line correspondence of every definition is the `map` of `PROJECT.json`.

Contents: [the system](#1-the-system) - [inventory](#2-inventory) - [modules](#3-modules) -
[runs](#4-what-the-runs-check) - [bounds and fairness](#5-bounds-and-fairness) -
[proofs](#6-what-is-proved) - [findings](#7-findings) - [limits](#8-what-is-not-modelled) -
[plan](#9-plan).

## 1. The system

**Processes.** One server process. `main.py` starts, in `lifespan` (775-), one asyncio task per
background loop; each cycle of a loop runs blocking code through `asyncio.to_thread`. Requests run
the same services on the thread pool. So the actors of every model are threads of one process
that share nothing but the database and the file system, and a crash takes all of them at once.

**Atomicity.** `Database.transaction(immediate=True)` (`database.py` 36-51) is `BEGIN IMMEDIATE`
... `COMMIT`, with a rollback on any exception: what it contains is one atomic step of a model.
`Database.connect()` commits when the block ends, but a `SELECT` before an `UPDATE` in such a block
is outside of the write transaction: two steps. Everything else, that is fetches, parsing, embedding,
answer generation and file renames, is outside of transactions, and another actor may act in between.

**Leases.** The three schedulers (rulebook updates, rulebook discovery, document index) keep
`lease_owner`, `lease_until` and `lease_generation` in their rows. A claim needs a free or expired
lease and increments the generation; the result is written under a *fence* that compares owner and
generation. `FencedLease` states this promise once, and the schedulers are shown to keep it.

**The path of a rulebook.** Discovery asks providers, whose adapters read the pages of publishers, and resolves their
offers; review approves candidates, by policy or by hand; the update scheduler fetches and archives the PDF and queues an
index job; the index worker ingests the pages, cuts them into chunks and embeds them; a question retrieves chunks and a model
answers from them. The models follow the whole path.

**The library.** Beside it stand the user's collection, kept equal to BGG by a sync and a CSV import, the personal state and
the play log, lists and wishes, and the workers that tell the user what is new: campaigns, expansions, tutorial videos,
Italian titles. These parts share tables, but no step of one waits for a step of another.

## 2. Inventory

| component (sources) | state | operations | interacts with | what is hard | correct when |
|---|---|---|---|---|---|
| rulebook review queue (`rulebook_review.py`) | `rulebook_review_items` | submit, policy approval, approve, reject | discovery submits, scheduler reads | a decision is final, but the stored snapshot of an item may be damaged after it became a target | only approved items are archived |
| rulebook update scheduler (`rulebook_updates.py`) | `rulebook_update_targets` with lease columns, `rulebook_update_runs` | ensure, configure, claim, heartbeat, fetch, archive, complete, retry, run now | poll loop, requests, heartbeat thread, archive, index queue | lost leases, stale reads across a fetch, crash, an escaped exception, priority of Italian | audit in claim order, nothing written under a lost lease, every approved item checked |
| document archive (`documents.py`) | `game_documents`, PDFs under the manuals directory | scheduled archive, upload, read | scheduler, uploads, index queue | rename and commit are separate resources | a row names a file, a content is archived once per game |
| document index jobs (`document_indexing.py`) | `document_index_jobs` with lease columns, `document_index_runs` | enqueue, synchronize, select, claim, stages, finish, fail, requeue | index loop, requests, provider failover | no heartbeat, unfenced failure rows, requeue of a running job | success belongs to the newest claim, every document is attempted |
| embedding provider failover (`main.py` 1880-1920, `app_settings.py`) | `rag_embedding_provider_order` | build with fallback, activate, requeue, save settings | index jobs, settings | activation and requeue are two transactions | a succeeded document has vectors of the active provider |
| page extraction (`pdf_ingest.py`, `pdf_worker.py`) | parse run, pages | ingest, verify before, in and after the commit | archive file, triggers drop chunks | the file changes while it is parsed | pages belong to the recorded file |
| chunk index (`chunk_index.py`) | chunk runs, chunks | build, currentness, validate the source | pages, document metadata | the source changes while chunks are made | chunks are of the stored pages |
| embedding index and retrieval (`embedding_retrieval.py`) | embedding runs, vectors | build, currentness, snapshot, retrieve, validate | chunks, the provider's model | chunks or model change during the HTTP calls, files while a snapshot is read | vectors and question of one model |
| answer generation (`answer_generation.py`) | none in the database | retrieve, generate, validate, repair, respond | retrieval, LLM | seconds pass while a model generates | the last check finds the evidence unchanged |
| BGG reference catalog (`bgg_reference.py`, `bgg_reference_worker.py`) | `bgg_reference_games`, `bgg_reference_sync_state` | hourly worker: campaigns, hot list, new IDs, two queues; dump import, detail request, search | BGG, campaign cache | state in many small transactions, hiccups of BGG, midnight | budget, no lost IDs, no false removals, longest admission |
| rulebook discovery (`rulebook_discovery.py`) | `rulebook_discovery_state` with lease columns, `rulebook_discovery_runs` | synchronize, select, claim, force, search, submit, record, acquire the best | review queue, providers, update scheduler | an unexpected exception keeps the lease; candidates are submitted and failures counted before the fence | implements FencedLease, rows say what was recorded, every game is searched |
| resolver (`rulebooks.py`) | none | score, keep the best per URL, order | discovery | sums of unequal parts, providers that fail half way | documented precedence, independent of the order of providers |
| provider adapters (`rulebook_providers.py`, `official_site_discovery.py`, `bgg_rulebook_search.py`, `deepseek_search.py`) | none | read a page, offer a candidate | policy of the review queue | a title alone must not certify the BGG identity | nothing is downloaded unattended without evidence |
| provider requests, rate limiter (`ProviderHttpClient`, `PublisherSiteProvider`, `rate_limits.py`) | one row per host | robots.txt, get, retry, redirect, wait for a turn | all crawls of all threads | the clock is read before the lock is taken; redirects to other hosts | forbidden pages are not requested, turns are spaced |
| rulebook fetch (`rulebook_fetch.py`, `network_security.py`) | partial and stored files, threads | resolve, request, redirect, retry, read, verify, publish | scheduler, requests | threads outlive the deadline, partial files outlive the process, each address is asked, two fetches publish one name | slots are given back, what is reported is whole |
| crowdfunding watch (`crowdfunding.py`, `crowdfunding_notifications.py`, `notifications.py`) | cached feed, watch rows, baseline, notifications | refresh, list a page, scan, mark read | library, wishlist | watch row and notification are separate commits, pages are scanned like the whole feed | silent baseline, each event notified once |
| expansion watch and list (`expansions.py`) | watch rows, scans, notifications | scan due games, list for a game | BGG metadata, collection | the same, with a baseline per game | the same; the list hides a relevant expansion for one of four stated reasons only |
| tutorial videos (`tutorial_videos.py`) | videos, attempts | poll, search per language, replace | YouTube, catalog page | one game that fails ends the batch | bounded search, every game gets its attempt |
| Italian titles (`italian_titles.py`) | part of the metadata document | select, check, store | metadata refresh | two writers of one document | no refresh loses a title |
| BGG collection sync and metadata (`bgg_collection_sync.py`, `bgg_metadata.py`, `bgg_csv.py`) | collection rows, sync state, details | sync, import, enrich, backfill | personal library | lock that is tried, queued answers of BGG, restart between import and enrichment | no two syncs at once, no game enriched twice |
| personal library (`personal_state.py`, `plays.py`, `copies.py`, `wishlist.py`, `game_lists.py`) | progress, plays, copies, wishes, lists | per-game edits | sync, catalog | read and write in two transactions | completion implies played, copies agree with the summary, lists stay well formed |
| catalog queries, barcode resolution, generated texts, prices, rulebook availability | caches, one row per game | queries, lookups, one provider call each | external services | quotas, stale caches | - |
| AI providers, migrations, web application | settings, schema | HTTP, DDL, routing | everything | - | - |

`PROJECT.json` lists each of them with its status, and under `hazards` the places in this code that
a test would hardly reach, each with the properties that watch it.

## 3. Modules

### `FencedLease` - what the schedulers promise

Rows with `owner`, `until`, `gen` and an `audit` of completed generations. `Acquire` needs
`until <= at` for a clock reading `at` that is not after `now`, and increments `gen`; `Renew` and `Complete` need an owner; `Complete` appends the
generation to the audit and releases the lease in one step; `Revoke` gives leases up without a
completion; `Elapse` moves the clock. It is the target of three refinements, each checked and proved: `RulebookUpdates`, `DocumentIndexing` and
`RulebookDiscovery` declare `INSTANCE FencedLease WITH ...`.

### `RulebookUpdates` - review queue, update scheduler, archive

| variable | code |
|---|---|
| `review`, `corrupt` | `rulebook_review_items.status`; items whose stored snapshot no longer validates |
| `targets`, `row` | `rulebook_update_targets`: enabled, interval, next check, failures, lease columns |
| `runs` | `rulebook_update_runs` of a target, oldest first |
| `documents`, `files`, `jobs` | `game_documents`, published PDFs, `document_index_jobs` |
| `task` | where a worker is: requested, claimed, executing, fetched, staged |

A worker is the poll loop (`Scheduler`) or a request "check now" (`Manual`). One execution is
`ClaimDue` or `RequestRun` + `ClaimReviewTarget`; `BeginExecute` (the second read of the row, which
takes the token); `ValidateReview`; the fetch with its outcomes; then `FinalizeUnchanged`,
`FinalizeFailure`, or the archive as file step and commit step (`CommitArchive`, the duplicate
check and the fence inside the transaction, `ArchiveSuperseded` when the fence fails). `RenewLease`
is the heartbeat thread; `Escape` an exception `run_due` does not expect; `Crash` the end of the
process, which forgets every `task` and keeps the database and the files. Environment: discovery submits,
people decide, an operator pauses or reschedules, somebody uploads a PDF by hand, time passes.

The code reads the clock before `BEGIN IMMEDIATE` waits for the write lock (335, 636, 708, 813), and a transaction judges and stores by that
reading. `Read(w)` is the set of readings a transaction of `w` may use: from the end of the worker's last step (`task[w].at`) to now. So a
target may become due, or a lease expire, between the reading and the claim. The modules `DocumentIndexing` and
`RulebookDiscovery` read the clock inside of the claim, although the code reads it just before (`document_indexing.py` 90 before 92,
`rulebook_discovery.py` 163 and 326 before 141): there an older reading only shortens a lease or delays a claim, and no property compares the clocks of two steps.

### `DocumentIndexing` - index jobs and provider failover

`job` has the columns of `document_index_jobs`, `runs` the audit, `chunked` and `vectors` what the stages
leave behind, `order` the saved provider order. `AddDocument` stores a document with or without its job
(the upload endpoint queues it in a second transaction), `Synchronize` queues what is missing,
`SelectDue` reads the batch, `ClaimSelected` claims its first job or skips it. The stages take the
outcome of the provider calls from the environment; inside the last one `ReadProviders`,
`EmbedSucceeded`, `EmbedFailed` and the promotion `ReadOrder`, `WriteOrder`, `Requeue` follow
`_build_embeddings_with_failover`. `BuildEmbeddings` is the request that builds without a job.

### `IndexPipeline` - pages, chunks, vectors, answers

Each layer has its runs and the run whose rows are stored; a version number stands for the text. Builders
run the three builds of one document (`StartIngest` ... `DropPages`, `LoadPages` ... `CommitChunks`,
`LoadChunks` ... `CommitVectors`), readers answer one question (`Retrieve`, `Select`, `EmbedQuery`, `Requery`,
`ValidateRetrieval`, `Generate`, `ValidateAnswer`, `Respond`). The triggers of the schema that delete
derived rows are part of the actions that fire them. `SwapFile` breaks or restores the archived file,
`EditDocument` changes the metadata the chunks depend on, `ChangeModel` changes what the provider
serves under the same name.

Each comparison of the evidence is four kinds of steps, as in `validate_retrieval_current` and `_snapshot_state`: `Describe` asks the
provider over HTTP outside of any transaction (`stage` "outside"), `BeginSnapshot` takes the writer barrier (`Barred`) when it is free,
`ReadDocument` verifies the file of one document and reads its rows, for one document after the other in any order, and the action of
the phase compares what was `seen` with the evidence in hand (`Unchanged`). While the barrier is held no builder and no edit
commits, but files and the model still change. `since` is a history variable: the files that matched their record at some time since
the last check began, and the model at its beginning.

Abstractions: every document yields at least one page and one chunk; one configured model, whose digest only
grows and never returns to an older value; ranking and text are left out; verifying one file and reading the rows of its document are
one step (a file that changes between the two is a file that changes after it was verified).

### `BggReference` - the API worker of the reference catalog

`title` has the columns of `bgg_reference_games` the worker reads (known, votes, checked, admission
until, next check, removed), `budgetDay`, `budgetUsed`, `hotDay`, `newIdsDay` and `cursor` are rows
of `bgg_reference_sync_state`. One run is `RunOnce`, `MatchCampaign`, then for each request
`CheckBudget` (`ResetBudget`), `Spend` and an answer, the hot list (`ReceiveHot` ... `FinishHot`), the
scan for new IDs (`BeginScan` ... `FinishScan`) and the two queues (`SelectBatch`, `ReceiveQueue`,
then `StoreDetail` + `StoreAdmission`, `PostponeTitle` or `MarkRemoved` per title). Every
transaction is a step of its own, because that is how the code commits, and `Interrupt` stops a run between
any two. On BGG new IDs are assigned, users rate and entries are withdrawn (`ChangeBgg`); it answers with
all, some or none of what was asked (`Answers`).

Two behaviours of the scan are in the model and in no property, because no text speaks of them: a title of
the hot list raises `MAX(bgg_id)`, and the IDs below it are never scanned; an empty answer by mistake counts as an
empty batch, and the next entry moves the cursor past it.

Abstractions: the clock counts ticks, `DayTicks` of them a day, and the six hours of a postponement are
rounded to ticks; the dump is imported before; `min_votes` does not change; the unknown IDs of a
hot list fit one request; an answer always has a vote count. The actual requests are counted by
`requests`, which the code does not have.

### Acquisition: `RulebookDiscovery`, `ProviderRequests`, `ProviderAdapters`, `RulebookResolver`, `RulebookFetch`

| module | state | actions |
|---|---|---|
| `RulebookDiscovery` | `row` (lease, failures, next run), `searches` (audit), `search` (where a worker or a forced run is), `reviews` | `SynchronizeCatalog`, `SelectDueGames`, `ClaimGame` or `ClaimBusy`, `AskOfficial`, `AskFallback`, `SubmitCandidate`, `PrepareRecord` (failures and the next run, outside of the fence), `RecordSearch` or `RecordSuperseded`, `AcquireBest`, `EscapeSearch` |
| `ProviderRequests` | `crawl` (pages, attempts, moves), `grants` per host, the gate's stored time and its writer | `StartCrawl`, `NextPage`, robots.txt (`RobotsAnswered`), `ReadGateClock`, `AskGate`, `WakeUp`, answers, failures, redirects |
| `ProviderAdapters` | what is known of the game, offers in the queue | `SubmitOffer` of what one adapter concludes from one page, `FetchIdentity` of the BGG metadata |
| `RulebookResolver` | offers so far, in the order they arrive | `Discover`, `ProviderFails` after some offers, `ProviderEnds`; `CandidateScore`, `TieKey`, `BestByUrl`, `Resolve` are the algorithm |
| `RulebookFetch` | each fetch's phase, requests, deadline; slots, orphaned threads, partial files and those that nobody will remove (`strays`), stored files | `ResolveName` ... `TimeOut`, `OrphanReturns`, `AddressFails` (the next address is asked), redirects and retries, `ReadChunk`, `VerifyBody`, `CommitFile`; `Damage`, `CrashFetches` |

Each calls the next one as a function: it enumerates what that one may return. `RulebookDiscovery` and `RulebookUpdates`
meet in the review queue: discovery's `reviews` are what `Submit` of `RulebookUpdates` may be given at any time.
A file's digest in `RulebookFetch` is the body it was read from and how many units of it were read; a page in `ProviderAdapters` is the evidence an adapter looks for (its title, a
link to BGG, how it was found, the label and language of its link), with one operator per adapter that says which offers it makes.

### Library: `PlayProgress`, `LibraryCollection`, `CollectionSync`, `SavedLists`

`PlayProgress` has one row of `game_progress` and the play log; `ReadProgress` / `WriteProgress` are the two transactions of the editor,
`CreatePlay`, `UpdatePlay`, `DeletePlay` one each. `LibraryCollection` folds the import of an item over entries and copies
(`EnsureCopies`), from BGG (`SyncedEntry`, `MergedEntry`) and from CSV (`RowEntry`), with removal and edits of copies between.
`CollectionSync` is the protocol around it: `BeginSync` tries the lock, requests are repeated while BGG prepares its answer,
`Persist`, `RecordSuccess` and `RecordError` are transactions, `Enrich` runs after the lock is released, `Backfill` after a restart.
`SavedLists` has the read and the write of each list change, the wishes, and the prices that are searched between two transactions.

### News and pages: `NoticeProducers`, `GamePages` and their parts

`CrowdfundingWatch` joins the cached feed (`Refresh` per platform, a page for a filter, the worker's two lists) and the producer: what
is handed over is read once (`ReadState`), then each `WatchCampaign` and `NotifyCampaign` is a commit, and `FinishScan` records the baseline.
The worker's limit of 100 campaigns is left out: the feed of the model is smaller. `ExpansionWatch` has the same shape per game. `ExpansionList` is the selection
of what the page shows: the links in the order of BGG, of which the first `MaxListed` (80 in the code) relevant ones are looked at (`Listed`). `TutorialVideos` orders the games (`SelectGames`), searches two languages, replaces the videos of a game
(`StoreVideos`, or `StoreCollides` when a video was selected twice) and records the attempt. `ItalianTitles` and `PersistMetadata` write one
document from two sides.

`NoticeProducers` composes the two producers of notices, `CrowdfundingWatch` and `ExpansionWatch`. `GamePages` composes what the
page of a game shows: `ExpansionList`, `TutorialVideos` and `ItalianTitles`.

### Others

`MC<module>` modules give the constants their values. `MCLibrary` and `MCAcquisition` instantiate several components at once: a
variable `part` says which one a behaviour moves, the others stay in one initial state. This is a sum, not a product: the
parts guard on no state of each other, so an interleaving of two of them shows neither of them anything new. The proofs are in
`FencedLeaseProofs`, `RulebookUpdatesProofs`, `DocumentIndexingProofs`, `IndexPipelineProofs`, `BggReferenceProofs`,
`RulebookDiscoveryProofs`, `AcquisitionProofs` (requests, adapters, fetch) and `LibraryProofs` (library, news, pages). Operators called
"Mutant of X" are plausible bugs of `X`; no specification uses them. They serve to show that each property
fails when the code it watches is wrong (`mutants` in `PROJECT.json`).

## 4. What the runs check

| run | question | distinct states |
|---|---|---|
| `updates` | Poll loop and manual check race for a target while leases expire, a crash, an escaped exception and an upload of the same PDF interfere; or an Italian and an English rulebook of one game are scheduled | 0.81 M |
| `index_leases` | Index loop and a request race for two documents without heartbeat, with a failover that requeues | 1.2 M |
| `index_progress` | Is every document attempted, and does a requeued job finish? | 0.85 M |
| `index_requeue` | finding 1 | - |
| `pipe` | An answer about two documents beside builds, edits, swaps and model changes; or two builders on one document | 1.6 M |
| `pipe_forced` | finding 2 | - |
| `reference_worker` | Interrupted runs over two days against a BGG with hiccups, withdrawals, new and unreadable entries | 3.6 M |
| `reference_budget` | finding 3 | - |
| `acquisition` | How a rulebook is found and fetched, part by part | 0.41 M |
| `library` | The user's library and its news, part by part | 0.57 M |
| `progress_marker` | finding 4 | - |
| `tutorials_starve` | finding 5 | - |

**`updates`.** `LeaseInv`: the newest grant is the lease, two workers never hold one grant, a held generation is unaudited, the
failure count read before a fetch is current while the fence holds. `FailuresMatchAudit`: the backoff counter is the length of
the failed tail of the audit. `ArchiveInv`: document, "created" run, index job and file exist together or not at all; no game has the same
content twice, with uploads in any order; an unreferenced PDF needs a crash between rename and commit, as `docs/ARCHITECTURE.md` says; only
approved items are archived. `LeaseSpec`: the scheduler implements `FencedLease`. `EnglishAfterItalian`: an English target is claimed only when
each enabled Italian one was claimed before, or became due after the clock reading the claim judges by: an Italian target that is stored while
the claim waits for the write lock is not seen as due. `ScheduledChecked`: every approved item gets a run although the process dies and an exception
leaves a lease behind, unless it is paused, damaged before it became a target, or English with an official Italian document.

**`index_leases`.** `JobsInv`: status, lease and audit agree although failure rows are written without the fence and a requeue takes
leases away, and the counter never exceeds the recorded failures. `ServedUnlessFault`: after a failover no succeeded document lacks
vectors of the active provider, as long as no error separates activation and requeue. `LeaseSpec`: a second implementation of `FencedLease`.

**`index_progress`.** `DocumentsAttempted`, `RequeuedFinish`.

**`pipe`.** `AnswersComparable`: the vectors behind an answer and the embedded question come from one version of the model.
`AnsweredFromCurrentText`: an answer leaves at the end of a last snapshot that began after its text was final, and at that end its evidence is the stored
text of every document, in vectors of the model that was in use when the check began, and every file matched its record at some time since. A file that
is replaced after it was verified, or a model after it was described, is not noticed by the code, and the property does not claim it. `DerivedFromStored`: no layer
outlives the one below. `StoredIsCurrent`: stored chunks are found
again, and so are stored vectors as long as builds for two versions of the model did not take turns (`OneVersion`): the later commit of the
older version stores vectors that a reader then has to compare. `RebuildIdempotent`: only a forced build replaces current chunks.

**`acquisition`.** `SearchesRecorded`: the failure count of a game is the failed tail of its recorded runs, although it is computed before
the fence; a row that is not running shows its newest run; the candidates of a recorded run are in the queue. `SearchLeaseSpec`: discovery
is the third implementation of `FencedLease`. `CrawlPolite`: what one host's gate let through is an interval apart on the clocks that
were read; no page is requested that the robots.txt of its own host forbids, also after redirects; requests of a call are bounded.
`UnattendedHasEvidence`: what policy approves without a person rests on metadata of this BGG ID, fetched by then, and on the publisher or
title BGG itself names. `ResolutionSound`: identity, language and source decide in the documented order, the result
does not depend on the order in which offers arrive, and each URL appears once. `FetchResources`: slots and threads add up;
a partial file belongs to a fetch that reads it or to one that died or could not remove it, since no start of the process removes any; the requests
of a fetch are bounded by addresses, tries and URLs. `StoredIsFetched`: a reported file is whole, of the declared size and a PDF, when two fetches publish one
name or a stored file is damaged. `AcquisitionEnds`: every game is searched and every fetch ends.

**`library`.** `CompletedIsPlayed` and `MarkerFollowsPlays`: however edits and plays interleave, completion implies a played date and the
marker stays at or after the plays. `CollectionInv`: entries, copies and their summary agree after any imports, removals and edits, and
repeating an import changes nothing. `SyncsSeparate`: one sync at a time, its success belongs to a stored import, no game is new to two imports.
`ListsWellFormed`. `NewsAnnounced`: nothing is announced before the baseline, everything first seen after it is, once, unless a crash or error falls
between the two commits (the one loss the code has). `GameShown`: the list of expansions hides a relevant one only behind others that are owned as
often, for an unknown number of owners, by its type, or after `MaxListed` others; the videos of a game are
those of one discovery, and an answered game is left alone until the refresh is due; no refresh, failed check or crash takes away an Italian
title or repeats a request early.

**`reference_worker`.** `BudgetRespected`: calls of a day stay within the budget, plus one at midnight.
`ScanResumes`: wherever a run stops in a scan, what its batch has not stored lies ahead of the next scan, unless an
unreadable entry of the batch has moved the cursor past it (the one loss the code admits). `RemovedWereWithdrawn`: no hiccup removes a title.
`AdmissionNeverCut`: the longest admission survives any order of signals. `QueueMovesOn`: a handled title leaves
its queue, so that the loop cannot spend the budget on one batch.

## 5. Bounds and fairness

All bounds are constants whose comment says "bound". They are in guards only: the clock (`MaxClock`), claims of a row
(`MaxClaims`), stamps of the pipeline (`MaxStamp`), and the number of faults and environment events. When they are used up
the system stops, so every configuration says `CHECK_DEADLOCK FALSE`: no thread of this code blocks on
another one, and a stop of the model is the end of its bounds, not of the program.

Why they suffice: a lost lease needs two workers, one expiry and two claims (`MaxClaims` leaves more); a failure tail needs two
failures and a success; the failover needs two documents and two providers, because the requeue spares the document it runs for; a
stale layer needs a build that overlaps with one change below it (the questions of `pipe` meet one builder at a time, one change
of metadata, of a file or of the model, and a second one while a request holds complete evidence), and `MaxStamp` 7 allows two full builds and one more commit; the scan
needs two IDs in a batch, the unreadable one last, and the budget a midnight, so two days. `LeaseTicks = 1` makes expiry possible
at every tick. Symmetry is used in runs without liveness only. `pipe` has no forced builds: with them
`StoredIsCurrent` and `RebuildIdempotent` fail (`pipe_forced`), and `IndexPipelineProofs` proves both where `TRUE \notin Forces`. Its other theorems
hold for every value of `Forces`. Two shapes of `updates` and of `pipe`
(constant along a behaviour) restrict which actors meet, and are written out in their MC modules.

In `acquisition`: two games, of which the second has no candidates, and one scheduler that may die, or one game with a scheduler, a
forced run and `AcquireBest`; two crawls, the second only as a competitor for the gate, two hosts, `Interval` 2 of four ticks, two
attempts and one redirect; all sequences of up to two offers over two URLs and the third of one that differs in language, source
and URL only (a swap of neighbours is checked in each, which generates every permutation); all pages over three titles; two fetches, one slot,
one redirect, one retry, names of one or two addresses, of which the second fetch sends one request for one PDF. In `library`, one editor and two plays over two days; two games, one of them
with two entries; two callers of the sync, three games, one restart; one list, one wish. Campaigns: one of each platform, one of them wished for
and read, the worker and one page of length one, one fault (`CampaignBounds`). Expansions: one game, three expansions, one of them bought or read, one fault
(`ExpansionBounds`). List: up to five links in any order, one of them an accessory, of which three relevant ones are looked at and two shown, with all owner counts of {1, 4, 20} or unknown. Videos: two games, three videos that appear and
disappear between searches, the page asks for the first game (`VideoBounds`). Titles: two games, one owned, two editions
(`TitleBounds`).

Fairness (`FairSpec`) is weak everywhere:

- *Updates* (`ShapeSpec`): `EnsureTarget` and `ClaimDue`, because each cycle of the poll loop (`main.py` 482-500)
  synchronises approved items and claims what is due, and goes on after any exception; `Execute` and the steps of
  a request, because a fetch has an absolute deadline; `Tick`.
- *Index*: `Synchronize`, `SelectDue` of the loop (`main.py` 596-609), `Execute`, because the HTTP calls of
  the stages have timeouts; `Tick`.
- *Discovery* (`DiscoveryFairness`): `SynchronizeCatalog` and `SelectDueGames` of the loop (`main.py` 503-519), `RunGame` of each run
  that has begun, because its requests have timeouts; the clock.
- *Fetch* (`FetchFairness`): the fetching thread goes on, and its deadline passes. Nothing is assumed of the threads that resolve names:
  they may never return.
- *Videos* (`VideoSpec`): the poll of the worker (`main.py` 692-714), which sleeps and goes on after any exception. The violation of
  `tutorials_starve` is a behaviour of a fair system.
- No fairness for people, uploads, crashes or errors. A crashed process restarts: the loop is enabled again.
- In the liveness runs `MaxClaims` never binds: clock and error bounds end the retries before, so a
  property cannot hold because claims ran out.

Invariants and action properties are checked without fairness.

## 6. What is proved

For every number of reviews, workers, documents, readers, games, plays, and every value of the bounds:

| theorem (module) | statement |
|---|---|
| `AuditOrder` (FencedLeaseProofs) | the abstract lease audits completions in claim order, with no assumption on its constants |
| `TypeCorrect`, `LeaseInvariant`, `AuditOrder`, `FailuresAudited` (RulebookUpdatesProofs) | `TypeOK`, `LeaseInv`, `AuditOrdered`, `FailuresMatchAudit` |
| `ImplementsFencedLease`, `EnglishWaits`, `ArchiveConsistent` (RulebookUpdatesProofs) | `LeaseSpec`, `EnglishAfterItalian`, `ArchiveInv` |
| `SuccessesInOrder` (DocumentIndexingProofs), `SearchesInOrder` (RulebookDiscoveryProofs) | what `FencedLease` promises, of the successes of a document and of the searches of a game |
| `ChecksAdvance`, `ExecutionsAdvance`, `SearchesAdvance`, `FetchesAdvance` (the proofs of the updates, the index, the discovery and the acquisition) | every step of a worker, or of a fetch, lowers a measure of what it has left |
| `JobsAgree`, `FailoverServes`, `JobsImplementFencedLease` (DocumentIndexingProofs) | `JobsInv`; `ServedUnlessFault` as long as nobody saves settings; `LeaseSpec` |
| `TypeCorrect`, `LayersDerived`, `EvidenceComparable`, `AnswersCurrent` (IndexPipelineProofs) | `TypeOK`, `DerivedFromStored`, `AnswersComparable`, `AnsweredFromCurrentText` |
| `StoredIsFound`, `RebuildsAreIdempotent` (IndexPipelineProofs) | `StoredIsCurrent`, `RebuildIdempotent`, where `TRUE \notin Forces` |
| `TypeCorrect`, `BudgetIsRespected`, `StoppedScanResumes`, `RemovedOnlyIfWithdrawn`, `AdmissionsNeverCut`, `QueuesMoveOn` (BggReferenceProofs) | `TypeOK`, `BudgetRespected`, `ScanResumes`, `RemovedWereWithdrawn`, `AdmissionNeverCut`, `QueueMovesOn` |
| `DiscoveryTypeCorrect`, `SearchesAreRecorded`, `SearchesImplementFencedLease` (RulebookDiscoveryProofs) | `DiscoveryTypeOK`, `SearchesRecorded`, `SearchLeaseSpec` |
| `ApprovedHasEvidence`, `SitesReadPolitely`, `ResolutionIsSound`, `FetchesGiveBack`, `ReportedIsStored` (AcquisitionProofs) | `UnattendedHasEvidence`, `CrawlPolite`, `ResolutionSound`, `FetchResources`, `StoredIsFetched` |
| `CompletionImpliesPlayed`, `MarkersFollow`, `ListsStayWellFormed`, `SynchronisationsSeparate`, `CollectionStaysSound` (LibraryProofs) | `CompletedIsPlayed`, `MarkerFollowsPlays`, `ListsWellFormed`, `SyncsSeparate`, `CollectionInv` |
| `LibraryTypes` (LibraryProofs) | `LibraryTypeOK` of the composition `LibrarySpec` |
| `NewsIsAnnounced`, `PagesShow` (LibraryProofs) | `NewsAnnounced` of `NoticeProducers`, `GameShown` of `GamePages` |

**Assumptions.** Only the named `ASSUME`s of the modules: types of the constants, finite sets of games, videos and pages, distinct null values
(`NoWorker` is no worker), positive durations and batches. The candidates of a search are finitely many, as a provider returns a list. `DoublingAssumption` and `SearchDoubling` say that the powers of two of a
backoff are naturals, since the prover does not know exponentiation; TLC computes them. TLC evaluates every assumption in a passing run.

**Least elements.** A minimum, a maximum, the newest run and the first of a sorted batch exist by the well-foundedness of the naturals
(`WFMin`): a set that is not empty has a least element. It stands in for induction, whose theorems take an operator as a parameter. What the code sorts is stated
as the order of the result (`SelectGames`, `SelectTitles`, `Sorted`), not computed.

**Update scheduler.** `AuditOrdered` is not inductive: nothing in it stops a completion with a generation that was audited before.
The strengthening is `LeaseInv`. Its parts need each other: a completion appends a generation that is new
because the holder is unaudited (`HolderUnaudited`); the holder is the newest grant (`GrantsCurrent`); the token that
`_execute_leased` reads in a transaction of its own is the granted one (`TokensExclusive`), since the
owner is checked there. The proof sorts the steps into four kinds, which are all that matters to a lease: *quiet* ones keep the lease columns,
*granting*, *beginning* (the token is read) and *completing* ones; one lemma maps each action to its kind, and one per
kind shows that it keeps the invariant. `FailuresAudited` then follows from `FailuresFresh`: the counter read before
the fetch is current when the fence holds at the end. The refinement proof sorts steps in the same way into still,
claiming, renewing and publishing ones, each a step or a stutter of `FencedLease`.
`EnglishWaits` needs that targets are approved and one never claimed is due (`TargetsApproved`): either the claim's query sees it, or it became due after
the reading of the clock that the query uses.
`ArchiveConsistent` adds what a worker between the file step and the commit step knows (`ArchiveFacts`), and that its grant has no run yet
(`GrantsFresh`), so that the "created" run of its commit is the only one of that generation.

**Document index.** `JobsAgree` has `ClaimsInv` as its strengthening: a claim has one worker and no run while that worker is busy
(`ClaimsUnaudited`), each failure belongs to a claim and the one that is held has not failed yet (`FailuresClaimed`), although failure rows are
written without the fence. `FailoverServes` adds `WorkersServe`: whoever could still mark its document under the fence has vectors of the provider
that is active, or a requeue of that document is still to come. Its hypothesis `saves = 0` is part of the statement: saved settings change the active provider
without a requeue (`SaveOrder`). The refinement maps the successes of the audit to the audit of the lease, and shows that
their generations grow (`SuccessesRanked`).

**Pipeline.** `IInv` is `TypeOK`, `DerivedFromStored`, what each builder still knows of its source (`BuildInv`), that a stored
embedding run was made by the version it names (`RunsInv`) and what a reader may rely on in each phase (`AskInv`). The
argument for comparable vectors is that the digest only grows: a build whose two descriptions are equal encloses the version that embedded.
It covers an order that `pipe` has no room for: a build for the old version that commits after one for the new version.
For the current text, a reader inside of a snapshot knows that what it has seen is what is stored until the snapshot ends, since commits wait
(`SeenFacts`), and that each file it has seen as served is in `since` (`CheckFacts`).
Without forced builds `UnforcedInv` holds too: only the stored run has the present pages and metadata (`UnforcedRuns`), and what a build is about to
commit has a timestamp no run has (`UnforcedBuild`); a forced build breaks both.

**Reference catalog.** `TypeInv` adds to the types that a check which lets a request through has found budget left.
`InHand` says that a missing row is empty and that the worker only handles rows; with it the two action properties follow step by
step, from what `_admit` and `_next_check` return (`AdmittedKeeps`, `NextCheckTypes`). *Removed titles*: IDs are assigned in order
(`Assigned`), so that nothing BGG lists later is in a batch already taken, and what an answer with other entries leaves out is not listed while
the batch is stored (`Absent`). *Scan*: before a request the next batch lies after both cursors and every row
(`NextIsNew`); while it is stored, each ID is a row, or after the stored cursor and every row, or passed by an unreadable one (`StillAhead`).
*Budget*: the requests of today are at most `Limit`, which depends on the place of the worker: a call checked yesterday may be sent today, the day may
be stored and its counter not yet reset, and a spent unit may be unsent. Days after today have none, and days before today keep their last limit.

**Discovery.** `DiscoveryInv` says of each run what it has submitted so far, and that under the fence the failures it is about to store are the
row's plus one or none (`TaskSound`); each failure belongs to a claim and the held one has not failed yet (`FailuresHeld`). That is why
a count written outside of the fence agrees with the audit. The refinement is shown as in the other two schedulers.

**Acquisition.** *Crawls*: `GatesSound` ties the stored time of a host to its last grant, so that the next one is an interval later
whatever clock its caller has read; the bound on requests counts attempts, redirects and robots.txt of each host (`CrawlSound`). *Fetches*: slots and threads that still resolve
a name add up (`Held`), by counting finite sets; a partial file that is not removed becomes a stray in the same step, and the requests of a fetch
are bounded by the ones its place in the chain leaves; what was verified is still known when the file is published (`FetchSound`).
*Adapters*: an approved offer has the evidence of its page, case by case of the adapter.
*Resolution*: each part of the score is below its radix (`RankBounded`, `SourcesBounded`), so that a digit decides only between equal higher ones
(`DigitDecides`, `ScoreOrders`). The loop over the offers exists and its result is the best offer of each URL (`LoopExists`, `LoopFindsBest`), by the
least number of offers for which it would not be; the key makes that best one unique, wherever it stands (`BestOfSame`), and finitely many items have one
order (`SortedIsInOrder`).

**Library.** *Progress*: what an editor has read and is about to write already satisfies the implication (`ProgressInv`). *Lists*: a list never changes its kind and its
identifier is not given again, so that what was read of it still fits (`EditSound`). *Sync*: the holder of the lock is the last attempt, and no two calls created
the same game (`SyncInv`). *Collection*: each import keeps `CollectionSound`, entry by entry and copy by copy, and importing an item again
finds what the first import left. *News*: what a scan has read of rows and baseline still holds when it writes (`ScanFits`, `LinkScanFits`).
*Pages*: an answered video search is no later than its attempt or the attempt is about to be recorded (`VideoIInv`); the games of a batch are distinct and
have waited (`BatchSearchable`, `TitleIInv`).

*The composition*: every behaviour of `LibrarySpec` is one of each part, whose variables the other parts leave alone (`LibraryRunsParts`), so that the
invariants of the parts hold in it (`LibraryIInv`). `LibraryTypes` adds what the parts did not need: a copy is of an entry that exists, or of none when it was
added by hand (`CopiesPlaced`), and the copies are finitely many (`CopiesFinite`), since an import writes as many as the quantity says and an edit maps or
removes what is there.

**What the refinements give.** The three schedulers implement `FencedLease`, and its theorem `AuditOrder` has no assumption on its constants: instantiated
with the columns of a scheduler (`LeasePromise`, `SearchPromise`) it says of the index jobs and of the searches that results are recorded in the order of the claims
(`SuccessesInOrder`, `SearchesInOrder`). For the jobs only successes count, and their k-th is found by its rank among them (`RankGrows`).

**Measures.** Liveness needs fairness, which is out of reach; that nothing runs for ever once it takes its steps is safety, and proved. A check of the scheduler has at
most ten steps left (`StepsLeft`; the heartbeat may find the lease lost once). An index execution loses a job of its batch, reaches a later phase or
has one provider less (`Nearer`), so that a failover cannot go round the providers. A search loses a game or has fewer steps left for the first one, which the candidates bound
(`GameLeft`). A fetch has its steps bounded by redirects, retries, addresses and the size limit (`StepsLeft`): each redirect starts the
retries again, and the redirects of a chain are counted. The measures hold for every interleaving: no step of another worker, lease, requeue or upload raises one. What remains of
`ScheduledChecked`, `DocumentsAttempted`, `GamesSearched` and `FetchEnds` is that a worker which has a step takes it, and that somebody claims again.

**Only model-checked.** Liveness (`ScheduledChecked`, `DocumentsAttempted`, `RequeuedFinish`, `AcquisitionEnds`): fairness and `ENABLED` are out of the prover's
reach. Every invariant and action property of a passing run is a theorem, under the
hypotheses the table names. The findings are counterexamples.
No module declares a `RECURSIVE` operator; the one recursive definition, `BestByUrl`, is a function of the naturals.

## 7. Findings

1. `index_requeue` (bug): activation and requeue are two transactions; when the second is lost, the retry finds the
   fallback in first place and requeues nothing, and the other documents stay "succeeded" without vectors of the active provider.
2. `pipe_forced` (bug): `created_at` of a forced chunk build is read before its transaction (`chunk_index.py` 811). When the run that was
   read first commits last, the newest run is not the stored one, and the next build without force rebuilds
   a current page set, which `docs/P7B_CHUNK_INDEX_CONTRACT.md` 21-22 excludes.
3. `reference_budget`: a unit of the budget is a call of the client, which repeats failed requests (`bgg_metadata.py` 84), and
   a call checked before midnight is sent on the next day's budget; `docs/P8A_BGG_REFERENCE_CATALOG_CONTRACT.md` 69 speaks of a daily
   budget of requests.
4. `progress_marker` (bug): an edit of any column of the progress reads the row in one transaction and writes all columns in
   another (`personal_state.py` 98-131). A rating saved while a play is logged writes the old played date back: `plays.py` 134
   says that a logged play marks the game as played.
5. `tutorials_starve` (bug): a video without a declared language may be the best one in both languages. The insert of both
   violates the primary key, the error is not caught (`tutorial_videos.py` 510), no attempt is recorded, and every later poll begins, and
   ends, with the same game. `docs/ROADMAP.md` 25 promises a bounded catalog-wide discovery. The same request of the page
   (`main.py` 1503) answers with an internal error. Without such a video the property holds.

Disagreements of texts and code that were met and have no run, because a run would only restate one line:

- `docs/ARCHITECTURE.md` 167 says that every scheduler attempt is auditable; an attempt whose lease was taken over ends without
  a run (`rulebook_updates.py` 914). The audit of what is recorded is `FailuresMatchAudit` and `LeaseSpec`.
- `README.md` 72 and 289 say that there is no implicit fallback and that the job never silently changes the provider; a fallback that
  worked becomes the first provider (`main.py` 1915).
- `README.md` 287 and `docs/ARCHITECTURE.md` 133 describe what identifies a candidate and what evidence an official one needs;
  `_discovery_key` (`rulebook_review.py` 130) has the BGG ID too, and the adapters of Asmodee Italia, MS Edizioni and Awaken
  Realms need less than the text says (`AsmodeeItalia`, `MsEdizioni`, `AwakenRealms` of `ProviderAdapters`).
  `UnattendedHasEvidence` states what all of them keep.
- After a 403 the browser fallback of `ProviderHttpClient` sends a second request without a turn of the rate gate
  (`rulebook_providers.py` 271-276).
- The scan of a filtered page, or of one platform while the other fails, records the baseline of the whole feed (`main.py` 996):
  what was not on it is announced as new later. `docs/ARCHITECTURE.md` 88-89 speaks of a silent first scan. An empty
  first answer for expansions is a baseline in the same way.
- Prices of a wish are stored although its title changed during the search (`routers/wishlist.py` 142).
- A title of the hot list raises `MAX(bgg_id)`, and the IDs below it are never scanned (`bgg_reference_worker.py` 198).
- A save of the settings between the read and the write of a promotion is overwritten (`app_settings.py` 536); a late verification
  may delete the pages of a newer ingest of a restored file (`pdf_ingest.py` 636).

## 8. What is not modelled

- Content: parsing of pages and PDFs, chunking, ranking, prompts, citations, translations. They are pure functions or text;
  the models keep which version of the content a row belongs to, and of a web page the evidence an adapter looks for.
- Of the fetch: TLS, the table of forbidden networks, conditional headers. Of the providers: the browser fallback, markup.
- Of the archive: reading, repair, the PDF signature. Of the reference catalog: dump import, detail request, search, translation.
- Barcode resolution (a chain of lookups with a cache per code), generated texts and prices (one external call and one row each),
  catalog queries and suggestions (read only).
- Authentication, routing, the JavaScript interface, schema migrations, HTTP clients of the AI providers.

## 9. Plan

Done, in this order: `FencedLease` and `RulebookUpdates` (most actors, most hazards), its proofs and refinement;
`DocumentIndexing`; `IndexPipeline` and `BggReference` with their proofs; the acquisition and the library modules; the proofs of
`DocumentIndexing`, of the discovery, of the archive and of the acquisition and library modules; the types of the library's composition, the promise of
the lease carried to its schedulers, and the measures.

| next | what | why |
|---|---|---|
| 1 | dump import and detail request of `bgg_reference.py` beside the worker on one row | two more writers of a row whose admission is proved |
| 2 | `BarcodeResolution` | a cache per code and a chain of lookups |
