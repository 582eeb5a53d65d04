# VtNote: a TLA+ model

VtNote turns videos and recordings into transcripts, translations and notes. An API process writes
tasks into a SQLite database, a worker process claims their stages one by one and installs
recognition models, and a maintenance thread polls the cloud provider and cleans up. This directory
holds TLA+ modules of the parts that share state, TLC configurations that check them on small
instances, and TLAPS proofs of their safety properties for every instance.
Paths are relative to `src/vtnote/` of the repository unless they start with `docs/` or `tests/`.

Contents: 1 the system, 2 the modules, 3 what is checked, 4 what the code does and its documents do
not say, 5 what is proved, 6 what is not modelled, 7 what could come next.

## 1. The system

| Component | State | Operations | What makes it correct |
|---|---|---|---|
| Pipeline rules (`pipeline.py`) | none | aggregation of stage statuses into item and task statuses | an aggregate agrees with the stages it stands for |
| Stage queue and workers (`worker_store.py`, `worker.py`) | `tasks`, `items`, `stage_runs`, `resource_leases` rows; the claim of a handler | claim_next, heartbeat, acquire_resource, complete, defer_external, requeue, fail, cancel_if_requested, recover_expired | one holder per attempt, a stale holder writes nothing, a crash loses nothing, GPU exclusion |
| Task service (`tasks.py`) | the same rows | create, bind_uploaded_asset, record_upload_failure, cancel_task, retry_stage | history is never rewritten; a cancel is carried out; retries do not run beside active stages |
| Upload service (`uploads.py`) | the staged file, one request | complete, fail | a source is claimable only once its file is owned |
| Cloud transcription (`transcribe_stage.py`, `cloud_submissions.py`) | `cloud_submissions` rows | prepare, mark_sending, mark_submitted, mark_unknown, mark_failed_before_submit, schedule_cancel_cleanup, schedule_query | at most one payment per attempt; an unknown outcome is recorded as such |
| Tencent reconciler (`tencent_asr.py`, `tencent_contract.py`) | submissions and their leases | claim, query, expire, delete, wake | every request ends, every object is deleted, the stage is woken |
| COS stager (`tencent_cos.py`) | one remote object per task and audio | put, presign, delete | no object outlives its use |
| Launcher (`launcher.py`) | child processes | start, stop, supervise | one worker process lives at a time |
| Maintenance (`maintenance.py`) | its lease row | a pass of trash, purge and reconcile | no step starves the next |
| Runtime assets, task deletion (`runtime_assets.py`, `task_deletion.py`) | media files and `runtime_assets` rows | register, trash, restore, purge, delete_tasks | no file of a row is lost or doubled by a crash or a race; purge removes only what is due |
| Model installation (`model_assets.py`) | `model_installs` rows, staging and model directories | request, cancel, claim, download with resumption, verify, publish, fail | what recognition loads is whole and verified; what the user canceled stays canceled |
| Source stage (`source_stage.py`, `sources.py`, `platform_sources.py`) | downloaded files, subtitle files | probe, try candidates, fetch audio, publish a subtitle | the published transcript is what the row claims; one audio file per item |
| Local recognition (`transcribe_stage.py`, `local_asr.py`) | chunk files, recovery file | hear chunks, merge, recover, publish | every utterance once, however often interrupted |
| AI stages (`ai_stages.py`, `translation.py`, `notes.py`, `chat.py`, `provider_chat.py`) | artifacts | batch, chunk, reduce, call, retry | no cue lost or doubled, no evidence invented, nothing paid twice unasked |
| Configuration, credentials (`configuration.py`, `configuration_policy.py`, `api.py`) | connection, profile, default rows; keyring | create, update, delete, test, authorize, snapshot, resolve | a row never names a missing secret; nothing is sent without consent |
| Library (`library.py`) | collections, excerpts, search index | organize, refresh, search | the index tells the truth; a search is current |
| HTTP API, exports, database, frontend | none of their own | requests and views | |

The components interact through the database. The API, the worker and the maintenance thread run in
different processes or threads; they send each other no messages and find each other's writes. The
worker's store calls and most API writes are `BEGIN IMMEDIATE` transactions; the ones that are not
(cancel_task, mark_sending, upload failure, the installer's sessions, every request about the
configuration) read before they lock and are the interesting ones. Remote effects (a paid request, a
COS object, a secret in the keyring) and file moves cannot be rolled back.

What is hard to get right and hard to test: a worker that dies at any point or comes back after its
lease; leases of different lengths; a cancel, a retry or a deletion that meets a claim, a recovery
or a wake-up; a paid request whose answer is lost; a process that dies between a file and its
row; two requests that read before either commits; a loop of retries that must end. `PROJECT.json` lists
these as hazards, each with its line and the properties that are about it, or a note if the code is hit
by it.

## 2. The modules

| Module | Models | Composition |
|---|---|---|
| `Pipeline` | the constants and the two aggregation functions of `pipeline.py` | extended by `StageQueue` |
| `FencedLease` | no code: the abstract promise of the queue | instantiated by `StageQueue` |
| `StageQueue` | `worker_store.py`, `worker.py`, the writing half of `tasks.py`, the two ends of an upload, the wake-up by the reconciler | |
| `CloudAsr` | the transcribe handler's cloud path, the submission rows, the provider's answers, the reconciler | |
| `ItemState` | the rows, files and leases the source and transcribe handlers of one item share | extended by the next two |
| `SourceStage` | the source handler | |
| `LocalAsr` | the transcribe handler's local path | |
| `ItemTranscript` | the user, the clock, the process, the purge of trashed media | composes `SourceStage` and `LocalAsr` |
| `AiStage` | the translate and notes handlers and the calls they make | |
| `RuntimeAssets` | `runtime_assets.py`, `task_deletion.py`, the pass of `maintenance.py`, how `media.py` and `uploads.py` make files | |
| `ModelInstall` | `model_assets.py` and the installer loop | |
| `Configuration` | `configuration.py`, the routes that verify a profile, a task's snapshot, the worker's resolver | |
| `Library` | the search index, searches and what they race with | |
| `MC...` | definitions for the constants, symmetries | one per checked module |
| `...Proofs` | theorems | extend their component's module and TLAPS |

Each action is one transaction, one file move or one remote call; an operation of the code that has
several of them, with something between that others can see, is several actions. What a program
outside (a platform, a provider, a recognizer, a user) does is a choice.

### StageQueue and FencedLease

A row of `stage_runs` is a triple of item, stage and attempt. Its columns are the functions `status`,
`owner`, `left` (the time until `lease_expires_at`), `gen` (`recovered_count`), `warning` and
`external`. `resOwner` and `resLeft` are the rows of `resource_leases`; the token there is a hash of
run, worker and generation in the code and the record of the three here. A worker process has a `pc`,
the `claim` it works under and `uses`, the resources its handler believes it holds.

`ClaimNext`, `CancelIfRequested` and `Heartbeat` (the two halves of `StageContext.checkpoint`),
`AcquireResource`, and `Complete`, `CompleteSkippingTranscribe`, `Fail`, `DeferExternal`,
`Requeue` for the ways a handler ends are each refused when the claim no longer
matches. `StartWorker` is `recover_expired`, which the code calls nowhere else. `CancelReads` and
`CancelWrites` split cancel_task where the code does. The uploads are `CompleteUpload`,
`BindFailedUpload` and `RecordUploadFailure`; an upload is the one item of its task. `Tick` ages all
leases by one; a step samples the clock when it commits, while the code samples it just before it
takes the write lock; a tick between the two can be moved before or after the step.

`FencedLease` is the abstract specification: an attempt is open, held or closed; a grant carries the
epoch in which it was given; recovery revokes grants and advances the epoch; only a worker whose
grant is current settles an attempt. `StageQueue!FencedSpec` instantiates it with the phase read
off `status`, and `owner`, `gen`, `claim` for holder, epoch and grant.

### CloudAsr

One item's transcribe stage, with the `cloud_submissions` row of each attempt. The handler
`_submit_cloud` is unfolded into points: checkpoint, decide on the existing row, convert, prepare,
put the object, sign, mark_sending (a read, then a write), create, and the marks that follow each
outcome. What a call comes to is derived as in the client: the transport fails, the status is
bad, the body is an error or malformed, or the answer parses (`CreateAnswers`, `QueryAnswers`,
`CreateOutcome`, `QueryOutcome`). `paid` counts the requests the provider took and `object` says
whether the COS object is there; the code sees neither. `AnswersWhenTaken` is the one assumption about
the provider: an error code of its API, or a status of 400, 401, 403, 404 or 429, means that it took nothing.
The reconciler holds at most one claim, and deletes an object and records it in two steps. `Due`
always allows a submitted request to expire, a superset of what the clock allows.

### ItemState, SourceStage, LocalAsr, ItemTranscript

One item from its source to its transcript. `row` has the two stage rows with lease owner and lease;
`transcript`, `original`, `recovery` and `chunks` are the files written for the item, `audio` what
lies in the download directory for each format, `asset` and `upload` the media rows. `pc` is where
the one worker process is, in either handler. The source handler loads an upload or probes a platform, tries the
subtitle candidates in the order of their rank, falls back to the audio (which
it finds again if an earlier run had downloaded it: `FindAudio`), publishes and files a subtitle,
disposes of what is no longer needed and completes, skipping the transcribe stage if there was a
subtitle. The transcribe handler recovers an earlier publication of its own attempt, restores
the media, hears the chunks one by one or loads them, merges what each chunk's window accepts,
writes the recovery file, publishes, tidies up. `Purge` is the maintenance loop that deletes trashed
media once no stage of the item is open (`Ended`) and their day is over; `TakeBack` is the user who
restores them from the storage page. `purged` and `kept` are history: whether either has happened.

`HearChunk` gives every hearing the recognizer may have of a chunk: each utterance inside it, and of
one that a border cuts either nothing or the piece. `Lower` and `Upper` are the window of a chunk,
between the middles of the overlaps. `StageQueue` has the containers and GPU leases, `RuntimeAssets`
the file moves of a trash or restore; here each is one step.

### AiStage

One translate or notes stage with its retries. A cue or a note has a size; the batches, initial chunks
and reduce groups are three uses of one loop (`Pack`, which adds an element to the current group or starts
the next), and an invalid batch is cut again (`RetryBatches`), as in `translation.py` and `notes.py`.
The checks of a request's size right before each call (translation.py:213, notes.py:578) are left out:
`RequestsFit` says that they have nothing to reject. A reply parses or
does not, cites what it was given, too little or too much. `Exchange` is a transport call: connects
to the addresses in turn, sends a body, gets an answer, loses it before or after the provider took the
request; an adapter may send a second body without JSON mode. `doubt` is history: a request that may
have been billed and was never answered, and whether it was sent again unasked. `Retry(ack)` is the
user's retry with or without the acknowledgement of `submission_unknown`.

### RuntimeAssets

`row` is the table `runtime_assets`; its `slot` is `original_relative_path`, its `sum` size and
digest, its `keep` the state of `retain_until`. `disk` is what lies at each slot, in the trash
directory of each row and in the durable directory of each task, `staged` what a deletion has moved
to `task-deletions/`.

trash, restore and a conversion are three steps each, as in the code: look up the row and verify the
file (`StartTrash`, `StartRestore`, `BeginConversion`), move it (`MoveToTrash`, `MoveBack`,
`PlaceConversion`), commit (`CommitTrash`, `CommitRestore`, `InsertRow`). Verifying reads a whole
file, so others move in between, and `Move` overwrites as `os.replace` does. purge and
delete_tasks hold `lock`, SQLite's write lock, from their first read to their commit. A maintenance
pass is `BeginPass`, `TrashSample` for each abandoned sample, `SelectDue`, a purge for each due
row, `Reconcile`, `EndPass`; `Raise` is the exception that ends the pass. `Crash` drops what a
thread was doing and its transaction and leaves the disk. Each thread dies alone, a superset of the
crashes of processes.

Abstracted: contents are one of a few byte strings; the results of an item are one file; a task has
one item. What a deletion refuses because of leases and remote objects is in `StageQueue` and
`CloudAsr`.

### ModelInstall

The `model_installs` row of one model, the partial file `part` with the versions its bytes are of,
the `final` files in staging, the published `store`, the installer and an API request. A session
reads the row, may move directories, and writes at its commit the columns it changed; where a
directory moves in between these are steps of their own. A provider serves any version of a file at any
time, ignores a range, answers with a bad range, breaks off. Hashes are the version `Pinned`.

### Configuration

One connection, one profile that uses it, the default settings, the keyring (`store`), the table
`credential_cleanup` (`cleanup`), a task with its snapshot and the worker that resolves it. A
connection's row, deleted, does not come back: a new one has another id.

API requests run in threads, and none takes a lock to read: SQLite gives a request the write lock at
its first write. Each is split there. What it reads before travels with it in `api[t]` (`conn`, `prof`,
`defaults`, and for a deletion `pinned`, what the tasks need); what it reads and writes from there to
its commit is a second step, which writes the columns whose value differs from the one that was read
(`Wrote`). The calls of the keyring and of a provider are steps of their own:

- `CreateConnection`, `CommitCreation`; `UpdateConnection`, `StoreSecret`, `CommitUpdate` or
  `FailCommit`, `DropOrphan`, `AttemptCleanup`, `CommitCleanup`; `DeleteConnection`, `CommitDrop`;
- `CreateProfile`, `CommitProfile`; `UpdateProfile`, `CommitEdit`; `DeleteProfile`, `CommitDeletion`;
- `BeginTest`, `ReadTested`, `RecordTest`, `Authorize`, `CommitConsent`, `UpdateDefaults`,
  `CommitDefaults`: the first three are a test, the next two a consent, the last two the default
  settings, each also a request of its own, and a verification is all of them; `Revoke`, `CommitRevocation`;
- `TakeSnapshot`, `CreateTask`; `Refuse` for a request whose check fails on the way.

`Die` is the API's death with all its requests. retry_stage (`RetryTask`) holds the write lock. The
worker's resolver is `Validate`, `Resolve` and `Send`. `consents`, `given`, `sent`, `raced` and
`died` are history.

### Library

`content` is what each item holds now, part by part with the time it was written; `docs`, `fts` and
`state` are the index tables. A refresh holds the write lock, measures an item (`Measure`), reads
its files (`ReadTranscript`, `IndexItem`) and commits all items at once; workers publish files
without any lock meanwhile. An edit of an excerpt looks for the item and its excerpt without a lock
(`BeginEdit`); its look-up of the index state flushes the excerpt and so takes the lock first, so
that the state row it deletes is the one that is there at its commit (`CommitEdit`). A search
(`BeginSearch`) refreshes, selects its candidates and matches in separate statements, and `touched`
is history: what changed since it began. A query matches all documents; tags behave as collections
do.

## 3. What is checked

All twelve runs pass. Each of their 39 properties is violated by a plausible bug: next to a definition
stands a faulty variant (commented so), and `PROJECT.json` names for each property the variant with which
TLC finds it violated under the run's own configuration. The faulty variants are used for nothing else.

| Run | Instance | Shows |
|---|---|---|
| `StageLifecycle` | 1 item with source, transcribe, notes; 2 workers; the GPU; 2 attempts; leases of 1 tick; cancel; outages | `LeaseIffRunning`, `OneOpenAttempt`, `ActiveHasInputs`, `ClosedTaskIsQuiet`, and `FencedSpec`: the queue implements `FencedLease` |
| `GpuContention` | 2 items, 2 workers, 1 GPU, leases of 2 ticks, outages | `ResourceExclusion`, `ResourceFollowsRun` |
| `QueueDrains` | 2 tasks, one uploaded; no outages; fair workers | `QueueDrains`: every queued item is worked off |
| `CloudSubmission` | 2 attempts, mode auto, COS, 2 workers one after the other | `PaidOnce`, `AcceptedIsOnRecord`, `EndedIsCleanedUp` |
| `CloudReconcile` | 1 attempt, mode cloud, COS, fair reconciler | `SubmissionEnds`, `CleanupCompletes` |
| `ItemTranscript` | 5 kinds of item, 2 subtitles, 2 audio formats, 2 attempts; 1 death, 1 cancel, 1 lost lease; purges and restores at any time; 3 chunks over 3 utterances | `HeardOnce`, `OneAudioFile`, `PublishedAsClaimed`, `InputIsKept`, `MediaIsDisposed`, `HandlerEnds` |
| `AiStage` | 3 translations and 3 notes of 1 to 3 cues that fit in pairs, alone or not at all; 2 workers; 1 or 2 attempts | `EveryCueOnce`, `CitesEvidence`, `NeverPaidTwiceUnasked`, `RequestsFit`, `HandlerEnds` |
| `MediaFiles` | 1 slot, 2 contents, 2 rows; 2 threads and maintenance, all mortal; overlapping conversions | `NothingIsLost`, `OneCopy`, `PurgeIsLawful` |
| `MediaTrash` | 2 tasks, one a profile test with an uploaded sample; 2 rows; 1 mortal thread; failing deletions; fair maintenance | `DueIsPurged`, `ReconcilerRuns` |
| `ModelInstall` | 2 files of 2 chunks, 2 versions, 1 death, 1 fault; fair installer | `InstalledIsWhole`, `PartIsOneVersion`, `OnlyTheUserRevives`, `InstallConcludes` |
| `Configuration` | 2 request threads, 2 configurations, 2 options, both purposes; 3 references, 2 revisions, 6 requests, 1 fault | `LiveSecretIsKept`, `SecretsAreTracked`, `SentAsConsented` |
| `Library` | 2 tasks of one item, 1 collection, 2 searchers, 3 changes | `IndexTellsTheTruth`, `TablesAgree`, `SearchIsCurrent` |

The runs spend nothing on types: every component's `TypeOK` is a theorem (section 5).

### Bounds

- *Workers.* A worker starts at most once, so two of them give one crash and one recovery; they are also enough
  for every race of a holder with its successor. They are symmetric where no liveness is checked.
- *Attempts.* Two give one retry.
- *Leases.* A lease of one tick can be live or expired at any step; two ticks let leases taken at
  different times expire at different times. In `CloudAsr`, `ItemTranscript`, `ModelInstall` and
  `AiStage` a lease is live or not, and expires when it likes.
- *Media.* Two threads and the maintenance thread give every pair of operations on one file and a
  third that purges it; two rows allow a file to be purged or deleted and made anew; two contents
  tell a file from the one that replaces it. `OneCopy` leaves out late handlers (`overlap`): one can
  put its file at a slot whose earlier file has been trashed since. Of `NothingIsLost` the run shows
  that one late handler and its successor do no harm; a second late handler does (section 4).
  Without late handlers both are theorems for any number of threads.
- *Chunks.* A first, a middle and a last one, with an utterance inside the overlap, one across a
  border and one longer than the overlap. The theorem of section 5 is for all lengths.
- *AI inputs.* `Budget` is 3: two cues of size 1 fit, one of size 2 fits alone, one of size 4 never does.
  `BatchCues` of 2 makes batches of two, retried in single cues; `MaxChunks` and `MaxLevels` are reached.
- *Installation.* One death and one fault, anywhere, with two files and two versions: a first and a last file,
  a resumed chunk and a changed version.
- *Configuration.* Six requests are a connection, a profile, a verification or a test and a consent, a
  task, and two more to race with each other and with the worker; with three references two updates
  can each replace the first secret. One fault is one failed commit, refusal of the keyring or death.
- *Library.* Three changes let an item change while it is measured, while it is read and while the search
  answers. `RowLimit` is the code's 1000 and never reached.

Deadlock is not checked, except in `Library`: the systems stop when all work is done and nobody asks
for more.

### Fairness

Nothing forces a user to act, a process to die or, except in `ModelInstall`, time to pass.

- `StageQueue!Fairness`: the launcher starts workers, the worker loop polls with a bounded
  sleep, checkpoints go on, and a handler returns (strong fairness on `Return`: each checkpoint leaves
  the point from which it may return). A request that has begun finishes. The reconciler ends each
  cloud wait. `QueueDrains` assumes no outages, since an expired lease under a living worker is
  recovered by nobody (section 4).
- `CloudAsr!Fairness`: the maintenance loop runs every five seconds for as long as the application does,
  claims rows by age so that none is passed over for ever, and a deletion tried for ever succeeds
  once. No fairness is assumed of the worker.
- `RuntimeAssets!FairSpec` assumes the maintenance loop only, which waits for nothing but the write lock;
  its properties speak of behaviours in which the other threads come to rest in the end (`Quiet`), in
  whatever state, crashes included, that leaves the files.
- `ModelInstall!FairSpec`: the installer loop runs while its process lives, the supervisor restarts the
  process, an API request that has begun finishes, and an abandoned lease expires.
- `ItemTranscript!FairSpec` and `AiStage!Fairness`: a handler that runs goes on until its process
  dies, since every call it makes has a time limit.

## 4. What the code does and its documents do not say

The models have these behaviours as the code has them. Where one contradicts a property as one would
first state it, the property makes the exception that its comment names; none of them is hidden
by a bound unless it says so here. Three properties that a document or a test demands and the code
does not keep stand in the modules although no run lists them: `UnknownIsConfirmed`, `DefaultIsActive` and
`RetainedIsSpared`. Added to the runs `CloudSubmission` and `Configuration`, each is found violated.

Queue and tasks:

- A cancel that races the end of a stage leaves a task in `cancel_requested` for ever: cancel_task reads
  whether a stage is running before it writes (tasks.py:1156), and no checkpoint and no expired
  lease is left to finish it (docs/technical-decisions.md:98).
- recover_expired is called once, when a worker starts (worker.py:217): a lease that expires under a
  living worker is recovered by nobody (docs/technical-decisions.md:99).
- `complete` refuses the subtitles of a source that was retried beside an ended transcribe stage
  (worker_store.py:497), `Worker.run` ignores the refusal, and the run stays `running`
  (docs/technical-decisions.md:93). Recovery then queues a source whose transcribe is canceled
  (worker_store.py:663).
- record_upload_failure sets the source attempt to failed without looking at its lease (tasks.py:846)
  and overwrites a worker that claimed it (docs/technical-decisions.md:92). Properties of `StageQueue`
  make an exception for `upload = "failed"`, and `ImplementsFencedLease` assumes no uploads.
- An upload can be canceled and its task deleted while the file arrives (uploads.py:424).
- A maintenance pass may last longer than its lease of two minutes (maintenance.py:68).

Cloud transcription:

- An unknown submission is paid for again by a plain retry that nobody confirmed: `fail` overwrites
  `external_submission_state` (worker_store.py:587; docs/product-requirements.md:120), by which
  retry_stage would ask for the confirmation (tasks.py:1319). `PaidOnce` speaks of one attempt and
  `AcceptedIsOnRecord` of the submission's own row; `UnknownIsConfirmed` fails.
- An answer that comes before the worker has recorded its wait is never delivered: the wake-up ignores
  a stage that still runs (tencent_asr.py:590; docs/technical-decisions.md:95).
- An attempt that dies between the upload of its audio and the request, and is then canceled, leaves an
  object that nothing schedules for deletion (transcribe_stage.py:962; docs/installation.md:45); its
  task cannot be deleted.
- The COS key names the task and the audio, not the attempt (tencent_cos.py:49): the cleanup of an
  ended attempt deletes the object of the next.
- Two live workers of one attempt may both pass the check of mark_sending (cloud_submissions.py:206):
  `PaidOnce` and `AcceptedIsOnRecord` hold only with one worker process at a time, `~Overlap`.
- A query answered by a bad status or a malformed body ends a paid request as failed.

Media and deletion:

- A process that dies in the middle of a deletion leaves a task without its results; nothing looks
  into `task-deletions/` again (task_deletion.py:79, against line 153).
- A deletion that fails gives up the write lock before it moves the directories back
  (task_deletion.py:240). A retry, restore or conversion in that window makes the file anew; the directory
  cannot go back then. With `Faults = TRUE`, `NothingIsLost` and `OneCopy` fail; only
  `MediaTrash` includes such failures.
- Three handlers of one slot, two of which have outlived their leases, can lose a file: two of them have
  looked at the row and its file, the first moves the file to the trash, the third then puts a
  new file at the slot, and the second moves that one over the first (os.replace, runtime_assets.py:200). With
  three `Threads` and `Overlaps = {TRUE}`, `NothingIsLost` fails.
- A restore between the two look-ups of a purge makes it take the file for missing and delete the row
  (runtime_assets.py:603); the file stays and the next conversion registers it again.
- Left out: a conversion that fails, or finds its place taken, registers what it has written as
  `failed_media` and trashes it (media.py:372), another slot of the item that nothing else uses.

Items and their transcripts:

- The media of an item whose transcribe failed or was canceled may be in the trash, and 24 hours later the
  maintenance loop deletes them (runtime_assets.py:584). retry_stage does not look (tasks.py:1297): it
  accepts the retry, the attempt finds nothing and fails, and the source, which is completed, cannot
  be retried. `InputIsKept` promises the media to the first attempt and makes this exception for later ones.
- The user can take media out of the trash that the handlers have disposed of (api.py:1255); nothing
  disposes of them again. `MediaIsDisposed` leaves out an item whose user has done so (`kept`).
- A transcript that is published and then canceled makes every later attempt fail with
  `transcript_publication_conflict` (transcribe_stage.py:428; docs/technical-decisions.md:100,
  docs/product-requirements.md:121).
- With an odd `chunk_overlap_ms` two windows share a millisecond; `AsrAssumption` asks for an even one. An
  utterance longer than the overlap may be accepted as two pieces; `HeardOnce` leaves it out.
- fetch_audio has no checkpoint: a download of more than two minutes loses its lease
  (source_stage.py:340). A download that is empty or not audio stays where it is and fails every later
  attempt (platform_sources.py:843).

AI stages:

- The transport sends the body to the next address of a host when the first connection breaks after
  the body went out (platform_transport.py:298, but for the case at 313); a chat request
  may be billed twice (provider_chat.py:106; docs/product-requirements.md:120). The runs pin one address;
  with `TwoAddresses` of `MCAiStage`, `NeverPaidTwiceUnasked` fails.
- A worker killed with a request in flight leaves no trace of it: recovery queues the stage and it pays again
  (worker_store.py:663). A cancel while an answer is lost drops `submission_unknown`
  (ai_stages.py:454). The property says that it leaves these two out.
- A chat call of four tries of 55 seconds outlives its lease.

Model installation:

- A worker that dies while it verifies leaves the row in `verifying`, which nothing takes up
  (model_assets.py:752, the claim at 626; docs/product-requirements.md:142). A published directory
  without an installed row makes every later publication fail (model_assets.py:521).
- After a cancel or a failure past the first file, a new request keeps `completed_files` but not the
  files: the download goes round for ever. `InstallConcludes` starts from a `Sound` row.
- A cancel of a queued row that races the claim moves the staging directory away under the
  installer; one after the last chunk leaves the row queued with the cancel on it; a slow link loses
  the lease of two minutes.

Configuration, where each request reads before it has the write lock:

- A default can name an archived profile: update_defaults checks the profile (configuration.py:1016-1047)
  and commits at 1101, and a deletion in between, which finds no default to repair, archives it
  (docs/website-specification.md:94, tests/test_configuration_lifecycle.py:585; `DefaultIsActive` fails). Every
  later update_defaults that keeps the name is refused. If the profile is deleted instead, the foreign key
  clears the name and leaves the switch on.
- A task that is created or retried after a deletion has read the tasks (configuration.py:538, 756)
  and before its commit loses the connection, profile or secret its snapshot names
  (tests/test_configuration_lifecycle.py:191; `RetainedIsSpared` fails). Completed notes retain
  nothing (configuration_policy.py:76), although they can be made again (tasks.py:1309): that retry
  then fails.
- Two updates of a connection that overlap give one revision to two configurations or secrets, and a
  consent for the one holds for the other, as far as the revision goes. `SentAsConsented` speaks of
  the configuration and the options in any case, and of the secret unless this has happened (`raced`).
- An update that commits over another, or overlaps a deletion, forgets the secret of the other; so
  does the API when it dies between the keyring and its commit. `SecretsAreTracked` leaves both out.
- record_profile_test takes the revisions at the time of the commit, not those that were tested
  (configuration.py:828): a profile changed during its test counts as tested
  (docs/website-specification.md:94, docs/product-requirements.md:49).
- Two updates of a profile for cloud transcription that overlap give one revision to two sets of options, and
  its upload consent, which names revisions only, holds for both. `SentAsConsented` is about notes.
- A user who switches notes off while a first consent switches them on finds them on: the update writes
  only the columns it changes.
- A profile created while its connection is archived is active on an archived connection.
- A consent revoked after the worker's check does not stop the request; `SentAsConsented` asks
  for a consent that was recorded once. purge_unreferenced_archived has no caller.
- Several reads a request makes without a lock are one step here.

Library:

- A transcript that cannot be read for a moment is left out and its fingerprint recorded all the same
  (library.py:403): `unread` in the properties. An unreadable note fails every search.
- The full-text query takes its best 1000 rows before the candidates are applied (library.py:581).
  With a `RowLimit` below the number of documents `SearchIsCurrent` fails.
- The answer shows the tasks changed last, as many as the request asks for (library.py:620), each
  with one of its matches (library.py:605). `SearchIsCurrent` is about the documents the answer is
  made from (`Found`).
- A deletion that races a search raises a KeyError (library.py:616), one that races an edit an
  IntegrityError.
- A failed deletion that is undone gives files back with the times they had; it is left out.

## 5. What is proved

Eight modules prove 39 theorems, from the named assumptions of the modules only, for any number of items,
workers, threads, attempts, files and lengths. Each safety theorem follows one pattern: an inductive invariant,
lemmas that the initial states have it, that each action keeps it (one per group of actions), and that it
implies the property.

`StageQueueProofs` (`RowsAssumption`, `LeaseAssumption`, `NullAssumption`):

- `TypeCorrect`. `TypeOK` is inductive; its last conjunct (a worker in a handler has a claim) is what
  types `TokenOf` and `HeldRun`.
- `ExclusiveResources`: that two users of a resource are one worker says nothing about the row both
  rely on. `ResourceInv` adds `LeaseBacked`: while a handler owns a live stage lease, each row it
  uses carries its token and runs out no sooner than the stage lease. Whoever finds the row expired
  then finds the stage lease expired (`AcquireBacked`), a heartbeat extends both (`HeartbeatBacked`,
  from `StageLease <= ResourceLease`), time takes the same from both (`TickBacked`), and no release
  touches another worker's token. Two users of one row carry one token, which names the worker.

- The rest of what the queue's runs check rests on the lemma `StepMoves`: every step moves each row in
  one of seven ways (kept, opened, claimed, asked to cancel, settled, withdrawn, failed by an upload). The
  invariants below are shown about moves, not actions.
- `LeasesFollowStatus`, `AttemptsAreSerial`, `InputsAreDone` and `ResourcesAreFreed`, from
  `RowsInv`: `LeaseIffRunning` and `OneOpenAttempt` together with `Born`, that attempts are made in order and
  none is skipped.
- `ClosedTasksAreQuiet`, from `QuietInv`, which adds that a live row's item and task are live: a
  cancel's write can close a task only if what it read was quiet or is still cancelable.
- `ImplementsFencedLease`: without uploads, `Spec => FencedSpec`. The initial states are the abstract ones,
  and a move of one row is a step of the abstract lease (grant, settle, revoke, open) or none.
  It needs that an idle worker has no claim.

`CloudAsrProofs` (`SettingAssumption`):

- `TypeCorrect`, and `EndedIsCleanedUpCorrect` with any number of live workers: `CleanupInv` says also
  that a request that may be out has its signed URL, which is what mark_unknown goes by.
- `PaidOnceCorrect` and `AcceptedIsOnRecordCorrect`, assuming `~Overlap`. `PaidInv` says that one worker
  lives, that nothing is paid before `sending` is on record, that who is about to send wrote it and
  has not paid, and that what the reconciler claimed to end is still open.

`RuntimeAssetsProofs` (`MediaAssumption`, `PlacesAssumption`):

- `TypeCorrect`: the lock is held by exactly the one who purges or stages a deletion.
- `PurgesAreLawful`: `Spec => PurgeIsLawful`. `PurgeHolds` says that while maintenance is
  between its read and its commit its row is in the trash, its retention is over and its task has
  ended; every step that could change one of these waits for the lock or holds it, which `TypeOK`
  excludes for two at once.
- `NothingIsLostCorrect` and `OneCopyCorrect`, assuming `~Faults` and speaking of behaviours without `overlap`,
  since both fail otherwise (section 4). `NothingIsLost` alone is not inductive: a
  commit writes what its thread read before a move. `MediaInv` adds, in named parts, what the two places of a
  row may hold (`FileOK`); that a path has one row (`UniqueInv`); that a row somebody trashes is not
  due and stays until its task is deleted (`Safe`), since a retention of 24 hours ends under no
  operation; that the file of a row somebody restores is back before the row says so (`RestoreOK`); that
  who makes a file is alone at its path, and what was measured stays there or goes aside (`MakeOK`);
  and that a deletion moves aside only what belongs to its tasks (`Within`). The lemmas `RowChanges`,
  `DiskChanges` and `OpChanges` say what a step may do to a row, to the files and to an operation; each
  part of the invariant is shown from these and not from the actions.

`ModelInstallProofs` (`InstallAssumption`):

- `TypeCorrect`, `InstalledCorrect`, `PartCorrect`. `StoreInv` says that an installer about to
  commit has published every file. `PartInv` says that while it writes, the checkpoint names the version it
  writes, and what it would resume is of the version the checkpoint names unless staging was moved away.
- `RevivedByTheUser`: `Spec => OnlyTheUserRevives`. What works on a download finds it no longer
  `downloading`, and a write of something read earlier leaves `canceled` or `failed` again (`EndedStays`).

`ItemTranscriptProofs` (`ItemAssumption`, `AsrAssumption`):

- `HeardOnceCorrect`: for every duration, chunk size and even overlap. `WindowsMeet` and
  `WindowsAreOrdered` say that the windows of the chunks partition the audio; `AcceptedByWindow`
  that a chunk accepts a short utterance exactly if its window holds the middle of it. `LoopInv`
  is then the loop's tally: the utterances with their middle before this chunk's window, each heard once.
- `OneAudioFileCorrect`, from `AudioInv`: audio is downloaded only where neither row nor file is known.
- `PublishedCorrect`, from `ClaimInv`: what each place in the handlers has promised about the files.
- `InputKept` and `MediaDisposed`, from `FilesInv` beside the two invariants above: the kind of the item
  decides where its handler may be and what files it owns, a transcribe stage starts from a completed
  source only, a source is about to end only with media that are `Ready`, and a handler about to report its
  transcript has `Disposed` of them. A purge needs every stage of the item closed, so that a stage that
  still has its work before it and finds its media gone has failed or is a later attempt (`Lost`;
  `PurgeKeepsFiles`); what the user takes back is `kept` (`TakeBackKeepsFiles`).
- `TypeCorrect`. That at most one of the two stages is leased follows from `RowsInv`: transcribe runs only
  after a completed source. That what is saved of a chunk was heard in it is `LoopInv`'s.

`LibraryProofs` (`LibraryAssumption`):

- `TypeCorrect`, `TablesCorrect`, and `IndexCorrect` from `TruthInv`: what an index entry
  holds is what the item held when its fingerprint was current, or the item has outgrown that fingerprint for
  good, because times only grow (`GrownStays`, `PublishedOutgrows`).
- `SearchCorrect`: `SearchIsCurrent` as long as the index has no more documents than `RowLimit` (section 4 has
  what happens beyond). `SearchInv` speaks of the items that did not change since a search began
  (`Untouched`) and could be read (`Seen`): while it refreshes, the index being made has what they hold or
  they are still to be measured (`Caught`); once it has refreshed, the index lists exactly what they hold
  (`Listed`), whatever other searchers index; and its candidates are their tasks.

`ConfigurationProofs` (`ConfigurationAssumption`, `NoneAssumption`):

- `TypeCorrect`, from `TypeInv`: a row that was inserted is `Filled`, and a request has what its place in
  the code needs of it (`Ready`). Most requests only read and then write the profile, the defaults or the task;
  `PlainRequest` collects them and `PlainStep` says what they leave alone, so that the invariants below
  look at the remaining few.
- `SecretsAreKept`, from `SecretInv`: a reference that a request has made and not handed over is
  nobody else's (`FreshInv`); nobody is about to delete the secret of a connection that exists
  (`SafeInv`); and nobody has (`KeptInv`). A commit that writes over another's queues the reference
  it has read, which is no longer in use.
- `SecretsAreAccountedFor`: `SecretsAreTracked`, with `GoneInv` (who is about to take a reference
  off the list has deleted its secret) and `SeenInv`: a connection that was read has a revision no
  later than the row's, and if it is the same one, the same reference. A commit then queues the
  reference the row has, or is `raced`.
- `SentOnlyAsConsented`, from `ConsentInv`: a consent on the row stands for what was recorded with
  it, and a worker on its way has a target some consent was about (`AgreedInv`); before there is a
  profile there is neither (`EarlyInv`). That the secret is the consent's rests on `SeenInv`.

`AiStageProofs` (`AiAssumption`). What the groups of a transcript are is decided by loops, so the proofs are
about induction. The library's induction theorems take an operator, which no prover here instantiates;
`LeastNatural`, `Induction`, `Recursion` and `BoundedInduction` say the same of sets of natural numbers,
from the well-foundedness of `<`.

- The loops: `FlattenSeqConcat` (the parts of two sequences of parts, one after the other),
  `PackIsAll` (the groups of `Pack`, one after the other, are the sequence, whatever is taken for
  fitting), `PackFits` (every group has elements, and is fitting or has just one),
  `RetryBatchesAreAll` (the parts of a batch sent again are stretches of it, none empty, and
  together the batch), `StretchIsSmaller` (a stretch of a sequence of sizes is no larger than the
  whole).
- `TranslationKeepsEveryCue` and `NotesCiteEvidence`, from `JInv`: place by place, what a worker has
  accepted and what it has still to send are the transcript (`TranslateJob`), and every note it holds or
  is to merge is `Sound` (`NotesJob`); the artifact a later run takes up again is as good as one just made.
- `RequestsAlwaysFit`: `Spec => RequestsFit`, from `FitInv`: every part that waits fits or is a single note,
  and a worker in a call is not sending a single note. A single note may be too large, which is why
  the invariant says more of parts that are sent than of parts that wait.
- `ChargesAreAsked`: `NeverPaidTwiceUnasked` while the transport dials one address (`OneAddress`); with two it
  fails (section 4). `DoubtInv` says where an open charge may be: in a failed row that asks for the
  acknowledgement, or in a running one whose holder, if it lives, is about to report it. Whatever ends
  the claim of that holder (a cancel, a recovery) takes the charge out of what the property is about.
- `TypeCorrect`, from the invariants above and three about the row, the answer in hand and the loops.
  A row sees no more recoveries than workers were started (`RowBounds`, with `StartedCount`), which needs the
  workers finite. That an answer is never taken for none (`AnAnswer`) rests on `FitInv`: no request is empty.

Every safety property of a run is stated by a theorem: `PaidOnce`, `AcceptedIsOnRecord`, `FencedSpec` and
`OneCopy` under the conditions of their runs, `SearchIsCurrent` and `NeverPaidTwiceUnasked` under the conditions
above, `NothingIsLost` without the one late handler of its run, all others without any. Only model-checked is
all liveness (`QueueDrains`, `SubmissionEnds`, `CleanupCompletes`, `DueIsPurged`, `ReconcilerRuns`,
`InstallConcludes`, both `HandlerEnds`): fairness and ENABLED are out of the prover's reach.

## 6. Not modelled

- Requests, views, exports, diagnostics, logging, the database schema and the frontend: no state of
  their own beyond what the services above write.
- Platform extraction (yt-dlp, Bilibili, redirects, header checks), ffmpeg, inference, HTTP, signatures
  and payloads: external, or pure; their outcomes are choices.
- SenseVoice, word alignment and speakers: alternatives to the recognizer that add no shared state.
- Multipart parsing of an upload; what the two modules have is the file it owns and its two ends.
- Stage progress, execution evidence and the worker heartbeat table: nothing that changes state reads them.
- The maintenance lease row, disk space checks of the installer, the connectivity tester.
- record_upload_failure reads rows before it writes without a write lock; the model takes it as one
  step.

The limits of a composition: `StageQueue`, `CloudAsr`, `ItemTranscript` and `AiStage` each model the
lease of a run as far as their handler needs it, and are not checked as one system; together they
are out of TLC's reach. What one of them takes as a step of its own in another (a checkpoint, a
trash, a conversion) is named in the module's head comment.

## 7. What could come next

1. The maintenance lease with two processes, composed with the passes of `RuntimeAssets` and `CloudAsr`.
2. An abstract specification of a paid call (prepared, out, settled or in doubt) that both `CloudAsr` and
   `AiStage` implement.
