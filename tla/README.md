# A formal model of the clip processing and publishing service

This directory holds TLA+ modules that model the Python service in `src/`, the
configurations under which TLC checks them, and proofs that TLAPS checks. The
modules follow the code, not its documentation; where the two disagree a run
named `doc_*` shows the behaviour.

## The system

A user uploads or ingests a video, submits an analysis in JSON, and the service
cuts clips with ffmpeg; finished clips can be queued for publishing on YouTube,
Instagram and Facebook. Everything runs on one asyncio event loop per process:
HTTP handlers, one task per job, two background loops (retention, publishing).
The publishing queue is a SQLite database that several processes may share.

| Component | State | Operations | What is hard | What makes it correct |
|---|---|---|---|---|
| Publishing queue (`publishing/worker.py`, `queue_manager.py`, `states.py`) | tables `publishing_queue`, `publishing_attempts` | poll, claim, publish, retry/skip/cancel/publish-now, pause/resume | every handler loads, awaits and commits; several workers; a post cannot be undone; crash between post and commit | an item is posted once per reason to post it; no row is lost in flight; every row settles |
| Queue creation (`queue_manager.create_queue_from_job`) | the same tables | insert one row per clip and platform | `IntegrityError` rolls back earlier rows of the same session; concurrent calls | all or none of a call's rows; one slot per clip |
| Schedule (`queue_scheduler.py`) | none | order clips, assign slots, reschedule, back-off | ties, spacing, overdue rows | posts keep their order and distance |
| Providers (`*_provider.py`, `meta_base.py`) | none of their own; refresh tokens | publish, refresh | ambiguous timeouts; three-step Instagram protocol | error classes decide retry or rest |
| Accounts (`oauth/`, `cost_guard.py`, `token_crypto.py`) | tables `social_accounts`, `oauth_states`; the key in memory | connect, callback, refresh, report | state token read then deleted; refresh racing reconnect | a link connects once; a token keeps its own expiry; the report agrees with the publisher |
| Automatic queueing (`auto_queue.py`) | one watcher task per request | poll the job, create the queue | job purged, reused or cancelled between polls | no clip is completed behind the watcher's back; what it hands over exists |
| Job manager (`jobs/`) | jobs, tasks, semaphore, idempotency index (a file) | create, run, cancel, purge, restart | cancellation anywhere in a task; index outlives the jobs | terminal states stay; a reused job has its outputs; bounded ffmpeg |
| Retention, storage (`retention.py`, `storage/paths.py`, `cleanup_expired.py`) | directories | sweep, quota check | files still needed by the queue | an active job keeps its files |
| Clip pipeline, ffmpeg (`clip_processing/`, `ffmpeg_utils/`, `output/`, `cropping/`, `watermark/`) | files | cut, validate, write metadata | timeout, partial outputs | failed output is not reported as completed |
| Ingestion (`video_ingestion/`) | ingest records, semaphore, the executor's threads, `uploads/` | start, download, upload, purge, sweep | a thread that outlives its timeout; quota without reservation; redirects | an upload id names a whole file; every download ends; what nobody can name goes |
| Validation (`json_validation/`, `schemas/`) | none | translate and validate one document, select clips | order of the checks, numeric edges, notes of foreign steps | accepted clips can be cut; a translation loses nothing |
| API, application, frontend | none | routes, lifespan | - | - |

Interactions: the API calls the job manager, the ingest manager and the queue
operations; `POST /queue/generate` creates a job and starts a watcher, which
polls the job manager and then calls queue creation; the worker reads the queue
rows, the accounts and the clip files and calls a provider; retention calls the
job manager and deletes directories that queue rows point to.

## Modules

| Module | Stands for |
|---|---|
| `PublishQueue` | the queue's rows, the worker loops and the API handlers, at the granularity of database steps |
| `PublishLedger` | the promise to the outside world: a post uses up a permit |
| `PublishCalls` | `PublishQueue` with a history of the attempts that are really made |
| `PublishSchedule` | `queue_scheduler.py`: the order of the clips and their slots |
| `QueueCreation` | `create_queue_from_job`, overlapping calls for one job |
| `PublishAttempt` | the promise of a provider to the worker: one answer, one post at most, and which answers may hide a post |
| `PublishAccounts` | the accounts with the OAuth callbacks and the three providers that share them |
| `JobManager` | `jobs/manager.py` with the ffmpeg processes it starts and the directories that retention removes |
| `AutoQueue` | the watchers of `auto_queue.py`, beside every step of `JobManager` (which it extends) |
| `Ingestion` | downloads, yt-dlp, browser uploads, the quota and the sweep of `uploads/` |
| `ClipAnalysis` | from the submitted JSON to clips: translation, validation, selection |
| `ClipCommand` | the seeks and the filter graph of the ffmpeg command of a clip |
| `CostGuard` | the capability report and what worker and providers ask for themselves |
| `Algorithms` | an input for each of the three modules without state, and their properties said of it |
| `MC*` | the small instances for TLC |
| `*Proofs` | theorems about the module of that name |
| `FoldLemmas` | induction, sums over finite sets, loops over sequences: what the proofs need and the library does not state |

How they fit: `PublishQueue` treats a provider as the outcomes that `PublishAttempt`
allows, and `PublishAccounts` shows that the three providers stay within it.
`PublishQueue` starts from rows, which `QueueCreation` makes from the clips that a watcher
of `AutoQueue` hands over, which are the outputs of `JobManager`.

### PublishQueue

State. `row` and `attempts` are the two tables. `worker[w]` and `request[c]` are
the local variables of a worker loop and of an API handler: a program counter,
the candidates that were selected, the item in hand, the row as it was loaded.
`posts` counts what exists on the platform. `reopened`, `unknown` and `stranded`
are history: they record why a further post, or a row without a worker, is
accounted for. `spent` holds the bounds.

Grain. Each `await` on the database is a step boundary. A handler that loads
a row and assigns to it is two steps, load and commit, because SQLite begins
a write transaction with the first UPDATE and SQLAlchemy's unit of work emits that
UPDATE at commit. `Flush` models what it writes: only the columns whose new value
differs from the loaded one. `_claim_due_item` is two steps too, since its UPDATE
repeats only the status; `pause_job_queue` is one bulk UPDATE. SELECT and the
sleep of the poll are steps of the worker.

Worker actions, in the order of the code: `SelectDue`, `ClaimCandidate` or
`ClaimNothing`, `CheckPublished` (has_already_published), `Preflight`
(file validation, account lookup), one of `PublishSucceeds`, `PublishFails`,
`PublishUnacknowledged`, then `RecordAttempt`, `LoadItem`, `CommitItem`.
`WorkerDbError` is any database call that raises: `_process_item` then sets the
item to FAILED, and if that write fails too the row stays PUBLISHING.
`WorkerCrash` is the end of the process, or the cancellation of the worker task at
shutdown, at any point. `SleepUntilPoll` changes nothing.

Requests: `LoadForRequest` and `CommitRequest` for retry, skip, cancel and
publish-now, `LoadForResume` and `CommitRequest` for resume, `PauseJob`,
`AbortRequest` for a database error.

Abstractions. `scheduled_at` is only past or future; `last_error`, timestamps and
metadata are left out, since nothing reads them back; a provider is its outcome.
A provider call that ends in a timeout after the upload landed, or in an
answer without an id, is `PublishUnacknowledged`.

### PublishCalls

`attempt_count` is what the table says of the attempts of an item, and a worker computes it
from the row as it selected it (`worker.py:119`). `PublishCalls` runs the steps of
`PublishQueue` beside two history variables: `calls` counts each call of
`provider.publish` where it is made, and `uncounted` the attempts that a worker does not
know of when it claims a row on an old copy; a retry that resets the count resets both. The
history guards nothing. `RetryBudget` says that the table is right about the real calls up to
`uncounted`: no other overlap loses an attempt, and a row in RETRYING has one left. The bound
on the calls themselves, `calls[i] <= MaxAttempts`, is not a property, since the code does not
keep it (see Findings). The run `queue_requests` is of this module.

### QueueCreation and PublishSchedule

`create_queue_from_job` runs once per watcher, and a submission of the same video and
clips reuses the job, so calls for one job overlap. State: the committed `table`,
SQLite's write `lock` (the first INSERT of a transaction takes it, commit or rollback
gives it back), and per call the arguments, the number of keys handled, the rows of
its open transaction and the counts it will return. Actions: `Call`
(arguments, start of the slots), `InsertRow` and `RowExists` (the two outcomes of
`session.flush()`; the second is `session.rollback()`, which drops the rows of the
whole transaction), `Commit`, `Fail` (a database error or the end of the process), `Tick`.
A row keeps its key, its slot and, as history, the call that made it.

`PublishSchedule` translates `order_clips` and `assign_slots`: `Before` is the sort
key with Python's stable sort as the last tie-break, and a clip's slot is its
position times the interval. It declares no variables and `QueueCreation` extends it.

`EveryClipIsQueued`, `SummaryIsTrue` and `BatchesAreWhole` hold when the platform lists
of the calls are equal or disjoint (`creation`); with lists that overlap they do
not (finding 3).

### JobManager

State. `job` is `_jobs`; `task` and `child` say where the asyncio tasks of a job and of
its clips wait; `cancelling` and `dying` are the tasks that `task.cancel()` has marked
and that have not run since; `index` is `_idempotency_index` and `saved` its file;
`dirs`, `old`, `outputs` and `ffmpeg` are what exists outside the process; `lost` records
directories that the cleanup script took. Code between two awaits is one action.

| Action | Code |
|---|---|
| `ReuseJob`, `CreateJob` | `create_job`: no await before the task is made |
| `StartJob`, `ProbeDone`, `ProbeFails` | `_run_job` to the probe, and from the probe to the gather |
| `GatherDone`, `GatherRaises`, `JobCancelled` | `_run_job` after the gather, its two handlers |
| `StartClip`, `EnterSlot` | `_run_one_clip` to the semaphore, and in it |
| `EncodeDone`, `ClipCompletes`, `ClipFails`, `ClipCancelled` | the outcomes of `process_clip` and the handlers |
| `CancelJob` | `cancel_job`; `MarkTask` is what `task.cancel()` does to a gather and its clips |
| `Sweep`, `CleanupScript`, `Age` | `purge_expired`, `scripts/cleanup_expired.py`, time |
| `Restart`, `OrphanExits` | the process starts again with the index file; an ffmpeg nobody waits for ends |

The details that matter: a clip that waits for the semaphore has status PROCESSING
already and its handler does not run when it is cancelled there; gather ends as soon as
one of its clips is cancelled, so the job's task can be over while the siblings still have to
be told (`JobCancelled` waits for the first of them only); a clip whose metadata
cannot be written raises, and gather then gives the job up while the other clips run
on; the index gets its entry before the file is written; ffmpeg is killed at its
timeout and by nothing else. DOWNLOADING and DOWNLOADED are never seen from outside
`_run_job`, since no await lies between them and VALIDATING. A clip's encoding is its
outcome; the waiters of the semaphore enter in any order, which allows more than its
queue does.

### AutoQueue

`watch[w]` is a watcher: it polls a job, or has ended: with clips handed over, with none,
by `NotFoundError` (the job was swept), after `_MAX_WAIT_SECONDS`, or with the process.
`GenerateAndQueue` is a job made or reused and a watcher for it, without an await between;
`PollThrough` is the poll that ends the loop and the reading of the clips, which follow
each other without an await; `PollGone`, `GivesUp`, and `Restart` with `Dies`. All other
steps are those of `JobManager`. A watcher of a job that stays unfinished may give up at
any poll: the six hours are no fixed number of steps. What is done with the clips handed
over is `QueueCreation`.

### PublishAccounts and PublishAttempt

State: `link` (`oauth_states`), `row` (`social_accounts`, one per platform), the callbacks
`cb` and uploads `up` with the row they loaded, the `age` of each token, `readable` (tokens
encrypted with the key this process has), and what an upload answered and posted.
A callback is `ReadState`, `DeleteState` (`_consume_state`: SELECT and DELETE), `Granted`
or `CallbackFails`, `SaveFirst`, and for Meta `InstagramSkipped` or `InstagramFound`,
`LoadInstagram`, `SaveInstagram`. An upload is `PickAccount`; for Meta's platforms
`Extended` or `ExtensionFails`, `StoreToken` (`refresh_meta_account_if_needed`);
`RefusedLocally` or `Sends`; Instagram's `ContainerMade`, `StillProcessing`, `Processed`,
`ProcessingFailed`; `Posted`, `PostedWithoutId`, `PostedUnanswered`, `RequestFails`; and
YouTube's `YouTubeRefused` and `MarkExpired`. Rows are written as in `PublishQueue`: the
columns that differ from what was loaded. Tokens are named after who got them, so that
`TokenMatchesExpiry` can say whose expiry is stored; one page, channel and business
account per platform; YouTube's separate refresh token is not a value of its own.
Two requests on one link are both accepted if they read the state before either deletes
it; `StateIsConsumed` claims nothing else than the code does: a request that comes after.

### Ingestion

A transfer has a `kind`, the place where its `task` waits, the `status` of its record, and
a `file` under `uploads/` counted in chunks. The default executor is `pending` and
`running`: name lookups and yt-dlp share its threads, and a yt-dlp thread whose task gave
up stays in `running`. Direct downloads: `EnterSlot`, `HostIsPublic` or `HostIsRefused`,
`Redirected` (the next hop is looked up again), `Responds`, `Chunk`, `StreamEnds`,
`ProbeDone`, or `TransferFails`. yt-dlp: `YtWrites`, `YtFinishes`, `YtFails`,
`FetchTimesOut`. Uploads: `StartUpload`, the same stream, and `UploadBreaks` for an exception
that is no `AppError`. `Sweep` is `run_once` over `uploads/` and `purge_old`. The quota
counts everything under the storage root; the model counts the uploads, the rest of the
storage is a constant part of `Quota`. Whether an address is public and whether ffprobe
accepts a file are choices.

### ClipAnalysis, ClipCommand, CostGuard

Operators without state. A document is its version, whether fields are missing or of a
wrong type, and its clips; a foreign one is a sequence of steps. `ValidateNative` and
`ValidateForeign` are the checks in their order, `TranslateSteps` the loop over the steps
with the notes it carries along. `FilterGraph` is the graph of
`_build_filter_complex` as filters with the labels they join, `CoarseSeek` and
`ResidualSeek` the two seeks. `Reported` is the capability report over the table of
accounts, `Picked` and `LocalOutcome` what the worker and the providers do instead: the
refresh (`StatusAfterRefresh`), then each provider's questions in its own order, up to the
request that posts. The report asks nothing about the token or the clip, so a platform it
calls AVAILABLE can still answer AUTH (a token that the key does not read, that has expired or
that Meta does not extend) or PERMANENT (no file, no title). `ReportIsWorthTrying` says that
nothing else keeps it from a post, and that a platform which is configured and reported
otherwise is posted to in one case only: the last row of the table is not connected and hides
one that is. Only YouTube's rows can be stored unconnected (`StatusesOf`).

## Runs

| Run | Bounds | Distinct states | Shows |
|---|---|---|---|
| `queue_requests` | 1 row, 2 workers, 2 overlapping requests, 2 attempts, 1 unacknowledged post, with the history of attempts | 1,107,403 | typing, `OneHolder`, `RetryBudget`, `PostsArePermitted`, `RestsUntilAsked` |
| `queue_faults` | 1 row, 2 workers, 1 request, one each of crash, database error, quota error, unacknowledged post | 359,669 | `PublishedWasPosted`, `InFlightIsHeld`, `RetryIsSafe`, `PostsArePermitted` |
| `queue_clips` | 2 clips, 2 workers, claim limit 1, 1 quota error, a pause and a resume of the job (or two of one) | 373,043 | no clip starves behind the other, and each leaves QUOTA_WAIT and RETRYING and settles, before and after a pause, although workers and a resume overwrite each other's columns (`EventuallySettles`) |
| `creation` | 4 clips (three of one rank, one of them blocked by a warning), 2 calls, 2 platform lists that are disjoint, 2 intervals, a clock of 2 values | 78,352 | `OneRowPerKey`, `EveryClipIsQueued`, `SummaryIsTrue`, `SlotsFollowRank`, `BatchesAreWhole` |
| `jobs` | 2 jobs with one key, 2 clips, 1 slot, 1 restart, 1 failing write | 1,330,586 | `TypeOK`, `RunningHasTask`, `EndedIsResolved`, `ReusedIsAtRest`, `MemoryMatchesDisk`, `ProcessesAreAccountedFor`, `CancelSticks` |
| `auto_queue` | 1 job of 3 clips (or of none), 2 watchers, 1 slot, 1 restart, 1 failing write | 237,100 | `WatcherMissesNothing`, `QueuedHasItsFile`, `EveryClipEnds`, `EveryWatcherEnds` |
| `ingest` | 2 transfers of any kind, 1 slot, 1 thread, 1 redirect, files of 1 chunk (yt-dlp: 2), room for 2, 1 restart | 213,014 | `TypeOK`, `ToldIsWhole`, `RedirectLimitIsExact`, `OvershootIsBounded`, `EveryIngestEnds`, `LeftoversGo` |
| `accounts` | 1 link, 2 callbacks, 1 upload, 2 polls, tokens with and without expiry, a key that a restart loses, 1 restart | 637,236 | `StateIsConsumed`, `TokenMatchesExpiry`, `AnswersAreHonest`, `EveryRequestIsAnswered` |
| `algorithms` | documents of 2 clips and of 4 foreign steps, all configurations, clips that begin in the first 5 seconds, 2 account rows | 485,974 | `ForeignIsFaithful`, `NativeIsCuttable`, `CommandIsSound`, `ReportAgrees` |
| `doc_retry` | 1 row, 1 worker, 1 retry | | a retry that overlaps a publish reverts PUBLISHED to WAITING |
| `doc_restart` | 1 row, 1 worker, 1 crash | | a crash after the claim leaves PUBLISHING for ever |
| `doc_creation` | `creation` with two lists of which one contains the other | | rows of a call are lost |

Why the bounds suffice. Rows interact only through a claim query and a job-wide
pause or resume, so one row with two workers shows the races on a row, and two
clips show the interaction between rows; a claim limit of 1 makes the limit of 5
bite. Two attempts reach "attempts left", "last attempt" and the budget's
boundary; a publish-now between two attempts gives a worker the old copy of a row that it can
still claim, and the run has behaviours with more calls than `MaxAttempts`. Two overlapping requests are needed for one to overwrite another. Each
fault counter is 1 because a second fault of a kind meets the same program points as
the first. In `creation` a clip is completed or not in every combination, and two
calls are what one `IntegrityError` needs. In `jobs` two jobs of one key give a second
submission while the first runs, is cancelled, swept or remembered across a restart;
one slot and two clips put clips of one job and of two in the queue of the semaphore.
In `auto_queue` the third clip is there for the poll that finds one clip finished, one
running and one waiting; the key without clips gives the job whose loop ends by its status
alone. In `ingest` one thread is what a lookup needs to wait behind an abandoned
yt-dlp, one slot what two downloads need to wait for each other, a quota of two chunks
lets both pass the check together or one after the other, and yt-dlp's two chunks exceed
the limit of one file. In `accounts` a callback that reconnects while an upload refreshes
is the overlap of two writers of a row, a second callback the replay of a link. Job ids,
transfers, callbacks and calls are used once, so these runs end when they are used up and
deadlock is not checked there. The proofs below hold for all values.

Fairness. `PublishQueue`: weak fairness of each worker's step (the event loop runs
a ready coroutine, and each provider client has a timeout, so a call ends), of the
commit of a loaded request, and of the clock. No request has to be made, and no
error has to occur; `MaxQuota` bounds quota errors, since a platform that
answers QUOTA for ever keeps a row in QUOTA_WAIT for ever, as the code intends.
`EventuallySettles` is about executions without crashes and database errors.
`AutoQueue`: weak fairness of each job's, each clip's and each watcher's step; ffmpeg and
ffprobe have timeouts. Nobody has to cancel or sweep, and no watcher has to give up.
`PublishAccounts`: weak fairness of callbacks and uploads. Requests to Meta have timeouts; that
YouTube's upload, in a thread that is awaited without one (`youtube_provider.py:115`), returns is
assumed. Tokens need not age. `Ingestion`: weak fairness of each transfer (a server answers or the read
times out; the size limit ends a stream; `wait_for` ends the wait for yt-dlp), of the
threads (`getaddrinfo` and yt-dlp return), of the sweep, and of the clock. The fairness of the
yt-dlp thread is assumed, not derived: the code gives yt-dlp a socket timeout only. It is what
`EveryIngestEnds` needs, since a lookup may wait behind such a thread.

## Proofs

Every theorem holds for all values of the constants that satisfy the named assumptions
of its module (`ConstantsAssumption`, `ClipsAssumption`, `CallsAssumption`, `IngestionAssumption`,
`PublishAccountsAssumption`, `WatchersAssumption`, `AlgorithmsAssumption`, and `NoneAssumption`: the value that
stands for "no job" is no job).

`PublishQueueProofs`:

- `TypeCorrect`: `Spec => []TypeOK`. `Consistent`, part of it, says what a worker
  knows at each program point (it holds an item exactly from the claim to the commit).
- `InFlight`: `Spec => []InFlightIsHeld`. Inductive form `ClaimerHolds`: somebody
  who will write a different status has the row.
- `PublishedPosted`: `Spec => []PublishedWasPosted`. The strengthening follows the
  post's id from the provider's answer through the worker's variables to the row.
- `RestsUntilAskedHolds`: an action property, from what each action does to a status.
- `OneHolderHolds`: `Spec => []OneHolder`. The strengthening says that a selected
  candidate can still be claimed only if the row has not left its queueing.

The same module proves `PermittedPosts`: `Spec => Ledger!Spec`, that the queue
implements `PublishLedger` under the mapping
`permits[i] = 1 + reopened[i] + unknown[i]`. The invariant `Covered` counts, for an item,
its posts, the workers that may still post it and the row itself if it can still be
claimed, and bounds their sum by the permits. `PostsBounded` follows:
an item is never posted more often than its permits.

It also proves `RetryBudgetHolds`, of `PublishCalls`, and `RetryIsSafeHolds`. `CountedIsQueue`
carries the invariants of the queue over to the histories. `RetryBudget` needs `InBudget`, which
follows the count: while a worker has a row, the calls made are at most those its attempt
number stands for (one less before its call) and what was left out; afterwards the row itself
accounts for them. A claim on an old copy adds to `uncounted` exactly the difference of the two
counts, and a reset starts all of them at 0. Both theorems need what can become of a row in the
hands of its only worker (`Held`: it says PUBLISHING, or a request cancelled it), so that the
worker's commit changes the status and, through it, the count that it read. `Announced` then follows a post until the row says PUBLISHED or CANCELLED, as long
as no write and no answer was lost.

`QueueCreationProofs` proves all five properties of the run `creation`, for all sets of clips,
callers, platform lists and intervals.

- `OneRowPerKeyHolds` needs `LockRule`, that only the holder of the write lock has rows in
  its transaction: it makes the check of an INSERT against the committed rows still true when
  the call commits.
- `SlotsFollowRankHolds` needs `Schedules`, that a row stands at the position of its clip times
  its call's interval, and the lemma `OrderClipsIsSorted`: positions are an injection into
  as many numbers as there are clips, hence every number is the position of one clip.
- `EveryClipIsQueuedHolds`, `SummaryIsTrueHolds` and `BatchesAreWholeHolds` have the hypothesis
  `ChoicesApart`: two platform lists are equal or share no platform, and none names one twice.
  Finding 3 is what happens without it. The invariant `Batches` says that of the keys of a list
  the table holds all or none (`Whole`), and that a call that inserts has either a row for each
  key it came to, while its lock keeps the others out (`Fresh`), or no row since all exist
  (`Skipped`).

`JobManagerProofs` proves all six invariants of the run `jobs` and `CancelSticks`. The
inductive invariant `Inv` is a conjunction over the jobs: `JobInv(j)` says what its status,
its clips, its task and its clips' tasks allow to say of each other, which processes run
outside a slot (`ProcessIsAccountedFor`), what names it in the index and what it has on
disk. A step of the manager changes one job, and `OthersKeep` shows once that the others
keep their part; `RunningHasTask` needs `CancelHolds`, that a marked task still runs, and
`EndedIsResolved` needs `SomeoneResolves`: a job whose task is marked or over has an unresolved
clip only where a sibling raised, since all its clips that still run are marked too (`AllAreDying`)
and `cancel_job` resolved them before any of their handlers runs; that holds when gather ends at
the first of them, with the others still to be told.

`AutoQueueProofs` proves `AutoImplementsManager`: with `watch` hidden, every behaviour of
`AutoQueue` is one of `JobManager`, so that all of the above holds beside watchers. From it
and the manager's invariant follow `WatcherMissesNothingHolds` (after the end of a job, or of
its clips, nothing it has can become COMPLETED: `Frozen`) and `QueuedHasItsFileHolds`.

`IngestionProofs` proves typing, `ToldIsWholeHolds`, `RedirectLimitIsExactHolds` and
`OvershootIsBoundedHolds`. The
invariant says for each transfer what its kind, its place in the executor, its file and its
number of hops allow together, and that an id is in the pool once (`PoolShape`): a file a
client was told of must be out of the reach of any thread. For the overshoot each transfer
pledges what its file may come to: `YtMax` while anything can write to it, its size
otherwise. The invariant `PledgesFit` bounds the sum of the pledges over all transfers. A
step of a transfer stays within its pledge. A new one is admitted on what is stored, at most
`Quota - MaxUpload`; from there each transfer under way, the new one too, adds at most its
`YtMax`, and `peak` records how many there have been at once.

`AlgorithmsProofs` proves the four properties of the run `algorithms` for inputs of any size,
first as theorems about the operators and then, as properties of `Algorithms`, for whatever
it picks.

- `TranslationFaithful`, for every sequence of steps of which no trim has a note of its own
  (`Silent`; `_translate_processing_steps` gives none to it). The fold is a loop whose value
  after each step, `Taken`, satisfies `SoFar`: clip k was made of the k-th step that can be
  cut, and the notes of the clips followed by those still waiting are the notes of the steps
  so far. The notes left over then go to the last clip.
- `AcceptedCanBeCut`: a time of whole seconds is formatted as it was parsed, which is
  arithmetic on \div and %; that both selections commute is an induction over the clips
  (`SelectionsCommute`).
- `CommandCanBeRun`, for every accepted configuration and every start: the graph is built
  filter by filter, and `Wired` stays true when a filter reads labels nobody reads yet and
  offers new ones (`Open` keeps count of both).
- `ReportIsHonest`, for any number of rows in any order: of the connected accounts one is the
  newest (`LargestExists`), and what the callbacks store is what the providers ask for, so that
  what a connected account answers depends on its token and the clip alone (`ConnectedOutcome`).

`FoldLemmas` states induction on numbers, subsets of a finite set and sequences of sets, not of
predicates: the set of counterexamples has a least element by the well-foundedness of the
numbers, so no operator has to be passed to a theorem. From it come the existence of
recursively defined functions, sums over finite sets (`SumEquation`, `SumGrows`),
the value of `FoldLeft` as the end of a loop (`LoopsAgree`) and `FlattenSeq` of an appended
sequence.

`PublishAccountsProofs` proves `AnswersAreHonestHolds`, that the providers implement
`PublishAttempt`, `StateIsConsumedHolds` and `TokenMatchesExpiryHolds`. The last one needs that
the row a handler loaded pairs token and expiry as well, since what it commits is mixed from
the loaded and the current row.

Only model-checked: `EventuallySettles`, `EveryClipEnds`, `EveryWatcherEnds`, `EveryIngestEnds`,
`LeftoversGo` and `EveryRequestIsAnswered`. They are liveness properties under fairness, which
speak of ENABLED, and TLAPS has no means for that. Every invariant and action property that
a run checks has a theorem.

## Findings

Each `doc_*` run checks a sentence of the documentation and TLC refutes it; the
entry in `PROJECT.json` quotes the sentence and the line.

1. A retry that loads a row in PUBLISHING and commits after the worker reverts
   PUBLISHED to WAITING, and the item is posted again (`doc_retry`).
2. A process that ends between claim and commit leaves the row in PUBLISHING, which
   nothing selects (`doc_restart`).
3. `IntegrityError` on one row rolls back all rows that the call inserted before, and
   the summary counts them: a job that is queued again with one more platform gets rows
   for it only after the last conflict (`doc_creation`).

Further places where code and documentation, or code and likely intent, part, found by
reading and described by the actions of the models, without a run of their own:

- The number of an attempt comes from the row as it was selected (`worker.py:119`), and the
  claim compares its status only (`:78`). A worker that selected a row in RETRYING, or one
  that a publish-now made WAITING again, and claims it after another worker's attempt uses the
  number of that attempt once more: more attempts are made than the three that README:256 of
  the project allows. `RetryBudget` counts what such claims leave out.
- Cancel and skip accept a PUBLISHED row and retry accepts a CANCELLED one
  (`queue_manager.py:211`, `:178-179`): a live item can be posted again. `RetryIsSafe`
  excepts it.
- A cancelled clip frees its slot while its ffmpeg runs on (`runner.py:113`,
  `manager.py:6-7`). `ProcessesAreAccountedFor` says which processes can be left over.
- A failing request for the Instagram user name (`meta_oauth.py:175`) raises after Facebook
  was saved, though the docstring (`:87-89`) treats Instagram as optional.
- Any failure of a Meta token's extension, a timeout included, makes the item
  AUTH_REQUIRED, and the account is not marked EXPIRED (`provider.py:52-56`). YouTube's
  credentials are built without expiry, so they are never refreshed ahead of an upload.
- A refreshed token that comes without `expires_in` keeps the expiry of the one before
  (`meta_base.py:114`); a refresh or `_mark_expired` that overlaps a reconnection can
  overwrite some of its columns.
- The report looks at the last row of a platform and the worker at the newest connected one
  (`routes_publishing.py:78-80`, `worker.py:207`): a YouTube channel that is EXPIRED hides one
  that is connected. `ReportAgrees` excepts it.
- CHECK_REQUIRED is never reported, since the callbacks always store what it asks for
  (`meta_oauth.py:18-19`); `ReportAgrees` includes it.
- Ids made up for foreign steps (`step_<number>` or the count) can collide when only some
  steps are numbered: the document is refused as DUPLICATE_CLIP_ID.
- `"schema_version": null` is treated as a missing one (`validator.py:36`).
- Clips of equal rank and score can get the same output name (`naming.py:26`).
- `MAX_CLIPS_PER_JOB` (`config.py:47`) and `SUPPORTED_SCHEMA_VERSIONS` (`config.py:71`)
  are read by nothing.
- After downtime overdue rows are published back to back (`worker.py:52`), though the
  project's README:145 speaks of hours between posts.

## Not modelled

- Lengths of times: in `PublishQueue` a moment is past or future, so the back-off delays,
  the distances between resumed slots and between posts of different rows are left out;
  QUOTA failures count as attempts there as in the code, and no property judges that.
- Titles, captions, file names, metadata sidecars, audio and codec options, the rendering
  of answers, error texts, settings, overlay uploads: data that no state depends on.
- The check of ffmpeg's output, which addresses are public, which files ffprobe accepts:
  nondeterministic choices. The encryption of tokens is whether the key is still the same.
- The frontend: it renders answers and polls the API.

## Plan

Done: the queue (`PublishQueue`, `PublishCalls`, `PublishLedger`), its creation, the job manager, the
watchers, ingestion, accounts and providers, the stateless algorithms, and a theorem for
every safety property the runs check. Left:

1. `queue_scheduler.reschedule_from_now` and the back-off, with times as numbers.
2. The output names of the clips of a job, and the quota over jobs and uploads together.
