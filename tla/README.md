# Verification of the DocuTrace job pipeline

DocuTrace (`README.md` of the repository) stores uploaded documents in OpenSQL (PostgreSQL),
processes them with worker processes that share a job table, and serves the result to search.
This directory holds TLA+ models of it, the TLC configurations that check them on small
instances, and TLAPS proofs for every instance. Paths below are relative to the repository.

## 1. Inventory

| Component | Code | State it keeps | Operations |
|---|---|---|---|
| Worker daemon | `src/worker/daemon.py` | `change_log` rows: status, worker_id, locked_at, retry_count, updated_at; in memory: the claimed row and a heartbeat task | `claim_job`, `heartbeat`, `recover_stale_jobs`, `mark_completed`, `mark_failed`, `run_once`, `run` |
| Document pipeline | `src/pipeline/runner.py` | `chunks` rows; in memory: the list of pending chunks | `process_document_job`: load, extract, chunk, persist, embed in batches, activate |
| Version activation | `src/pipeline/versioner.py`, `sql/05_functions.sql` | `document_versions.status`, `VERSION_SWITCH` rows | `activate_version` (Python checks, SQL switch) |
| Embedding store | `src/embedding/store.py` | `embeddings` rows, `chunks.is_embedded` | `save_embedding_batch` |
| Document deletion | `src/api/routes.py` `_delete_document` | cascade over all tables, source files | one transaction, then unlink |
| Document upload | `src/api/routes.py` `_stage_upload`, `_register_upload` | `documents`, a version, a job, staged and final file | one request: stage, transaction with a move of the file inside |
| Document queries | `src/api/routes.py`, `sql/07_views.sql` | none; the client keeps its offset | list, detail, status |
| Chunker | `src/pipeline/chunker.py` | the window of one call | sliding window with boundary search |
| Embedding client | `src/embedding/client.py` | batches and attempts of one call | batches, retry by error class |
| Extractor | `src/pipeline/extractor.py` | none | parse PDF, TXT, Markdown |
| Search, MCP | `src/search/engine.py`, `src/mcp_tools.py`, `mcp/` | none; the caller keeps ids | search, get_chunk, get_document, list_documents |
| Database pool | `src/db.py` | the lazily created pool | `connect`, `disconnect`, `connection` |

**How they interact.** The API and the workers never call each other: they meet in the tables. An
upload commits a `PENDING` version and a `PENDING` job. A worker claims the oldest eligible job
with `FOR UPDATE SKIP LOCKED`, which makes job and version `PROCESSING`; its heartbeat task
refreshes `locked_at` while the handler works; the handler commits chunks, then embeddings batch
by batch, and finally `activate_version` archives the served version and serves the new one;
the worker then completes the job, or counts a failed attempt and gives it back, until the retry
budget is used up (`DEAD_LETTER`). Any worker gives back jobs whose lease is older than the
lock timeout. A delete removes a document and, by cascade, everything but its job rows.

**What is hard.**

* *Zombies.* Losing the lease ends the heartbeat, not the handler, so two handlers may run one job.
* *Split transactions.* Activation and completion are two commits; a crash, a lost acknowledgement
  or a lease that runs out may fall between any two steps.
* *Stale snapshots.* The retry count that `mark_failed` writes comes from the claimed row; the
  pending chunks are read once; the delete looks at the jobs twice, at READ COMMITTED.
* *Two rows for one fact.* Job status and version status are guarded and written separately, and
  `claim_job` raises for combinations it does not expect, which blocks the head of the queue.
* *Time.* Leases, heartbeats and backoffs race each other.
* *Two moments.* A detail is two statements, a listing several requests, a search and the chunk it
  finds two calls; uploads, switches and deletes commit in between.
* *Characters and tokens.* The chunker counts tokens and cuts characters, and several tokens may lie
  in one character.
* *One pool.* The pool is made by whoever comes first, across an await.
* *Files and rows.* The source file is moved inside the upload's transaction and removed after the
  delete's commit.

**What makes each component correct.** Daemon: every job settles; attempts are counted once; a
worker that lost its lease changes nothing; job and version agree. Pipeline and store: whatever
handlers overlap, what is activated is complete, and repetition is harmless. Activation: at most one
served version per document, no gap while it is replaced, one log row per switch, nothing
served after it was given up. Deletion: no job outlives its version. Upload: versions are
numbered without gap or duplicate, a committed version has its file. Chunker: it ends, leaves no
character out and repeats no chunk. Client: a vector for each text, in order, whatever is posted
again. Queries: what a client puts together from several statements is explained by what committed
in between, and nothing served is passed over silently. Pool: each connection goes back to
the pool it came from, and every request ends. The list of concrete hazards, with their
lines, is `hazards` in `PROJECT.json`.

## 2. Modules

| Module | Models | State | Actions |
|---|---|---|---|
| `ChangeLog` | the rows of one upload and every transaction that writes them | `status owner retry lapsed cooling` (job), `version doc number stored embedded switches` (version) | operators `Register ClaimTx CloseTx HeartbeatTx CompleteTx FailTx RecoverTx PersistTx SaveBatchTx ActivateTx LeaseRunsOut BackoffEnds` |
| `WorkerDaemon` | worker processes over those tables | `pc held attempt todo`, `faults` | one per await of `run_once` and `process_document_job`, heartbeat, crash, lease expiry, lost acknowledgements |
| `Publication` | abstract specification: what an upload is promised | `stage of deleted` | `Submit Publish Reject Withdraw` |
| `Deletion` | `_delete_document` beside the workers | `deleting checked marked gone slipped` | `DeleteMarks DeleteChecks DeleteFindsBusy DeleteCommits DeleteAborts` and the daemon's, restricted by row locks |
| `Upload` | `upload_document` and `delete_document` with the tables and the upload directory | `step target content type number` (request), `temporary final unlinking leftover` (files), `rows work docs fileType` (tables), `withdrawn` (history) | `Stage Check FindDuplicate PlaceNew PlaceNext MissDocument MoveFile CancelMove LateMove Commit CommitUnknown Abort Compensate Accept Delete DeleteUnknown Unlink UnlinkFails Crash`, and the worker's `Claim Publish Retry GiveUp` |
| `Chunker` | `chunk_text` | `document size overlap at start chunks` | `SkipBlock Window` |
| `EmbeddingClient` | `generate_embeddings` | `call blank sent vectors attempt failures retries` | `Call BatchAnswered BatchRejected BatchFails` |
| `Ingestion` | composes the two: from a text to its vectors | and `refusal` | `Chunking Embed NoChunks Embedding` |
| `Pool` | `Database` of `src/db.py` | `pool opened place using busy` | `Enter PoolOpens PoolFails Acquire Exit` |
| `Queries` | the reads of API and MCP over `Publication` and `Pool` | `stage of deleted` (`Publication`'s) and `title` (tables), `task turn subject found shown missed events` (one reader) | writers `Upload Settle Delete`; reader `Begin AskAgain FetchPage FetchDocument FetchVersions FetchResults FetchChunk ReaderRaises`; others `Probe ProbeEnds` |
| `WorkerDaemon_proofs`, `Deletion_proofs`, `DeletionHandlers_proofs`, `Upload_proofs`, `Ingestion_proofs`, `Queries_proofs` | theorems about the module each is named after (`DeletionHandlers_proofs`: the daemon's properties and the refinement in `Deletion`; `Ingestion_proofs` also about `Chunker` and `EmbeddingClient`, `Queries_proofs` about `Pool`) | | |
| `MCWorkerDaemon`, `MCDeletion`, `MCUpload`, `MCIngestion`, `MCQueries` | instances for TLC | | |

### ChangeLog

An upload inserts one version and one job in one transaction, so both are indexed by the same
identifier, whose order is the claim order `(created_at, id)`. Every operator is a whole
transaction: each locks the rows it decides on before it writes and keeps the locks to its commit,
so it takes effect atomically when the last lock is granted. The abstractions:

* `locked_at` is the Boolean `lapsed` (older than the lock timeout) and `updated_at` the Boolean
  `cooling` (backoff not over). `LeaseRunsOut` and `BackoffEnds` are the passing of time.
* The chunks of a version are all stored or not (`_persist_chunks` is one transaction, and chunking
  the same file gives the same chunks); `embedded` is the set of chunks with a vector and
  `is_embedded`, which one transaction sets together.
* `switches` counts the `VERSION_SWITCH` rows of a version; those rows are never claimed, being
  inserted `COMPLETED`.
* `NextNumber` describes `MAX(version_number) + 1` by what it is: one more than a taken number (or 0)
  and larger than all of them.
* `recover_stale_jobs` releases at most 100 leases per cycle; the model releases all.

### WorkerDaemon

`pc[w]` is where `run_once` stands: `recover`, `claim`, the handler's steps `load persist pending
embed activate`, then `finish` (`mark_completed`) or `fail` (`mark_failed`). `held` and `attempt`
are the claimed row's id and retry count, `todo` the list `_pending_chunks` returned. The guards
`Owns` and `MovedOn` are the `WHERE` clauses of the SQL. `Raise` is any exception of any step of the
handler, so extraction errors, service failures and failed checks are all there. `Fault` bounds
what the environment does: crashes, lease overruns of a worker that lives, lost acknowledgements of
a claim or an activation, a database error at a claim or a report. A crashed worker never
returns; a restart is another member of `Workers`, as it draws a new `worker_id`.

`NextInLine` is `ORDER BY ... SKIP LOCKED LIMIT 1`: a worker may pass over as many older eligible
rows as there are other workers in the middle of a claim.

`Reported` is what the status endpoint shows as the job of a version: the view takes the latest
`change_log` row, which after the switch is the `VERSION_SWITCH` row.

### Publication

A version is submitted, waits, and is published or rejected for good; publishing it supersedes the served
version of its document in the same step; a delete withdraws all versions of a document in one step, and
neither they nor a new version of it come back. Three modules are shown to implement it and a fourth
is built on it, so what is proved of the writers is what the readers rely on:

* `WorkerDaemon`, without deletes: `stageBar` maps the five version statuses and "no row" to the stages, and
  `deleted` is empty. `ImplementsPublication` is safety; that none waits for ever is `EveryJobSettles`.
* `Deletion`: `stageBesideDelete` is the same, except that a job whose version row is gone is withdrawn.
  The marks of a delete are invisible to `Publication`; its commit is one `Withdraw`
  (`ImplementsPublicationWithDeletes`). That none waits for ever is not claimed here: an orphan of
  finding 4 is withdrawn, but may keep a lone worker from the versions behind it.
* `Upload`: `stageOfRequest` maps what its reduced worker does, a version counts from its commit on, and
  `withdrawn` keeps those a delete took (`UploadsImplementPublication`).
* `Queries` takes `Submit`, `Settle` and `Withdraw` as its writers.

### Deletion

The delete is one transaction, but each of its statements sees what has been committed by then, so
it is modelled statement by statement. Its marks are `marked` until the commit. While it holds the
document row, uploads to the document, inserts of chunks and embeddings (foreign keys) and
activations wait (`Waiting`); claims skip the rows it updated (`Unmarked`); heartbeats, reports and
the release of leases go on. The commit removes the document's versions: their status becomes
"NONE". `change_log` has no foreign key, so job rows stay. `slipped` is a history variable. One
delete runs at a time; deletes of one document exclude each other in the code, and those of two
documents touch disjoint rows.

### Upload

`step[r]` is where `upload_document` stands: `staged` (temporary file and hash written), `checked`
(advisory lock held, no duplicate found), `placed` (document row inserted or locked, version number
taken, rows inserted), `moved` (`os.replace` done, `moved_to_final` set), `committed`, and
`error`, the except and finally clauses ahead. `HashFree` is `pg_advisory_xact_lock`, `DocFree` the row
lock of `SELECT ... FOR UPDATE`; both are held to the commit or rollback. A request makes at most one
version and one document, so all three share an identifier.

What may go wrong: `Abort` is any exception that rolls back. `CommitUnknown` is a commit that takes
place and raises. `CancelMove` is a cancellation during `asyncio.to_thread(os.replace)`: the thread goes
on, and `LateMove` moves the file after the request stopped caring for it. `UnlinkFails` is the
`OSError` that `_safe_unlink` ignores. `Crash` ends the requests of one API process (systemd starts
uvicorn with two). These, except `Abort`, are counted as faults. `leftover` holds
the versions whose files a fault keeps from being removed.

`withdrawn` is a history variable: the versions that went with their document, which the refinement needs as
their rows are gone. The worker is reduced to the status of a version (`Publish` archives the one that was
ACTIVE, as the SQL function does) and to `SourceFound`, the file `_source_path` looks
for; `WorkerDaemon` has the rest. The transaction of a delete is one step; `Deletion` looks inside it.

### Chunker

A block is what tiktoken makes of its text: the character each token begins in, and of each
character whether a sentence ends with it and whether it is white space. Several tokens may begin in
one character (up to four, the bytes of a character in UTF-8). `Window` is one turn of the loop with
`_choose_end` inside. A chunk keeps the tokens of its window beside its characters. Chunks are a set:
`start` only grows, so block and first token order them as `chunk_index` does; a window that stayed
where it is would leave the state as it is, and `DocumentSettles` fails.

### EmbeddingClient and Ingestion

A text is its place in the list and so is its vector; `Stray` is a vector too many. An answer has the
right number of vectors or one more or less. `BatchRejected` stands for every permanent error: HTTP 4xx,
invalid JSON, a wrong count, a wrong dimension, a value that is not a number. `failures` counts the
connection errors of a batch beside the client's own count of attempts, to compare the two.

`Ingestion` hands all contents of a document to one call. The runner calls the client once for each of
its own batches, which are no longer than the client's; that loop, with the handlers that run it
twice, is in `WorkerDaemon` (`EmbedBatch`). The longer list checks what the docstring of
`generate_embeddings` promises to every caller.

### Pool and Queries

A request of `Pool` is a coroutine that serves requests one after the other. `Enter` runs to the first
await of `db.connection`; `PoolOpens` is the end of `create_pool`, which stores the pool and queues for
a connection without another await. A pool that is replaced stays in use by the requests that had it, and `Exit` gives a connection back
to the pool it was acquired from (`Home`), which need not be the current one. `ConnectionsCounted`
compares the count of each pool with the requests that hold its connections.

The writers of `Queries` are the actions of `Publication`, which the daemon, the deletes and the uploads are
proved to implement, with the title an upload writes.
A title is named after the upload that wrote it, and titles are ordered as uploads are numbered, which is
any order in time. One request, `Reader`, serves a client that pages through the
list of the API (`list`) or of the tool (`tools`), asks for the detail of any document, or searches and
opens one of the results (`chunk`). `turn` is its next statement; each statement reads the committed
tables when it starts. The two statements of a detail share a connection, the other tasks take one
per statement. `events` and `missed` are history variables for the properties.

`FetchResults` is a search for some query. `embeddings` has a row for each chunk (`Chunks`, `VersionOf`): all
chunks of published and superseded versions have theirs (`ReadyToActivate` in `WorkerDaemon`), those of
other versions may (`Embeddings`). pgvector is external: an index scan yields a list of `EfSearch` rows, of
versions in any status (`Candidates`), and the `WHERE` clause then drops those of versions that are not
ACTIVE and those below `min_similarity` (`Searchable`). Which chunks are similar enough depends on the query,
so `near` is any set of chunks; which rows the scan yields is any choice, as it is approximate. Dead index entries
of rows a delete removed are left out, as after a vacuum.

## 3. Runs

| Run | Instance | Result |
|---|---|---|
| `Worker` | 2 versions of 1 document, 2 workers, 1 fault, 2 chunks in batches of 1, 2 attempts, fairness | pass: `TypeOK JobAndVersionAgree BudgetDecidesDeadLetter OneActiveVersion OneSwitchPerPublication OwnerKnowsRetryCount ReadyToActivate StatusIsConsistent RetryCountsAttempts GivenUpStaysGivenUp ImplementsPublication EveryJobSettles` (322,000 states) |
| `Deletion` | 1 document, 2 versions, 2 workers, 1 fault, 2 attempts | pass: `DeletionTypeOK OrphansSlippedThrough DeletedLeavesNothing RetryCountsAttempts ImplementsPublicationWithDeletes` (903,000 states) |
| `DeletionLiveness` | the same with 1 attempt, fairness | pass: `SettledOrOrphaned` (121,000 states) |
| `Upload` | 3 uploads, 3 contents, 1 file type, 2 faults, symmetric uploads and contents | pass: `UploadTypeOK ContentRegisteredOnce VersionsNumberedFromOne AnsweredHasSource NoStrayFiles SomebodyAdvances UploadsImplementPublication` (721,000 states) |
| `Ingestion` | all layouts of up to 6 tokens on 4 characters that may end lines, of 4 on 3 with sentence ends and spaces, all texts of 7 one-token characters, documents of two short blocks; chunk sizes 1, 2, 4, 6 with every legal overlap; batches of 2, 1 or 2 attempts | pass: `IngestionTypeOK NothingSkipped NoWindowInsideAnother BlankChunksAreLong VectorsMatchTexts UnavailableMeansExhausted DocumentSettles` (133,000 states) |
| `Queries` | 2 documents, 3 versions of 2, 1 and 1 chunks, 2 requests on a pool of 1 connection, pages of 1, 2 candidates, fairness | pass: `QueriesTypeOK ConnectionsCounted PagingSkipsNothing DetailIsWhole ChunkIsTraceable SearchFindsServed RequestsEnd` (526,000 states) |
| `OneWorkerPerJob` | 2 versions, 2 workers, 1 fault | violated: see finding 1 |
| `NewestPublishedIsActive` | 2 versions, 2 workers, no fault | violated: see finding 2 |
| `DeadLetterMeansFailed` | 2 versions, 2 workers, 1 fault | violated: see finding 3 |
| `KeptJobsSettle` | 2 documents, 1 worker, no fault, fairness | violated: see finding 4 |
| `SourceWhereWorkerLooks` | 2 uploads, 2 contents, 2 file types, no fault | violated: see finding 5 |
| `ChunkWithinSize` | 5 characters, 6 tokens, chunk size 3 | violated: see finding 6 |

**Why the bounds are enough to be interesting.** In `Worker`, two versions of one document are needed
for a version to be superseded; two workers and one lost lease are a zombie beside the owner of its
job; two chunks in batches of one an embedding loop that is left half way, and two attempts a first
failure and a last one. In `DeletionLiveness` one attempt means that only
`recover_stale_jobs` gives jobs back; `Deletion` and `KeptJobsSettle` have two, so there `mark_failed`
does too.

In `Ingestion`, six tokens on four characters have windows that begin, end and lie inside a character
with room before and behind them, and chunk size 6 leaves half windows of three for an early end with
overlaps below and above it. Seven one-token characters are two windows of size 6 or a dozen of
size 1, and more than two batches for the client. In `Queries`, two documents and pages of one are the
smallest list with a page border; three versions let a document be updated while the other one is
listed behind it. The first version has two chunks, which fill the candidate list once it is superseded, or
while it waits; the chunks of the other two fill it as well, and so may chunks that are not similar enough. One connection
for two requests makes each wait for the other; two requests race for the pool.

In `Upload` three uploads and contents are enough for three versions of a document, for a content
uploaded twice while a third request makes a second version, and for waits that chain (for a content
held by a request that waits for a document held by a third); two faults for an unknown commit or a
cancelled move followed by a crash of the clean-up. The requests may stop after they are all
answered, so that run does not check deadlock; `SomebodyAdvances` says that they never block before.
Nor does `Ingestion`, which ends with the document.

What the small numbers might hide is closed by the proofs of section 5, for every safety property of every
passing run but `SomebodyAdvances`, whose guards are proved never to be all false; liveness rests on the
instances alone.

**Bounds.** `Jobs` and `Requests` bound the uploads, `MaxFaults` the faults. Nothing else is bounded: `retry` and
`switches` stay finite because the code keeps them so. Since a recovered lease is not an attempt, an
unbounded number of crashes would let a job go on for ever; liveness is stated under finitely many.

**Fairness.** `Start` (systemd starts the workers), `Run(w)` as a whole (the poll loop never ends,
every asyncpg and httpx await returns or times out, `run` swallows every exception), and the
passing of time (`LeaseExpires`, `Cool`). Weak fairness of the disjunction `Run(w)`, not of its
parts: nothing promises that a handler succeeds, nor that it fails. Heartbeats and faults are
not fair, and a delete that began is assumed to end.

`Ingestion` is one coroutine that runs on: weak fairness of its step. In `Queries` the awaits of a
request return (weak fairness of `Returns`; statements have a `command_timeout`), and a waiting request
gets a connection if connections become free again and again (strong fairness of `Acquires`; the queue
of an asyncpg pool serves its waiters in order). Clients and writers are not fair.

## 4. Findings

1. `OneWorkerPerJob`: `docs/04_non_functional_requirements.md:52` promises that no entry is processed
   by two workers at once. A worker whose lease ran out keeps running its handler
   (`src/worker/daemon.py:358`). The tables are protected (run `Worker`, theorems below); the work
   is done twice.
2. `NewestPublishedIsActive`: `docs/08_team_implementation_guide.md:406` says the newest version is
   ACTIVE. `activate_version` compares no version numbers, so the older of two versions in
   process may finish last and archive the newer one.
3. `DeadLetterMeansFailed`: `docs/developer_A/phase6_async_worker_daemon.md:49` says a dead letter has
   a FAILED version. If the last attempt's activation commits and its acknowledgement is lost, the job
   is DEAD_LETTER and the version ACTIVE.
4. `KeptJobsSettle`: `docs/04_non_functional_requirements.md:37` says unprocessed jobs are resumed. A
   job given back between the delete's UPDATE (`src/api/routes.py:481`) and its check (`:493`) is
   left PENDING without a version; `claim_job` raises on it in every cycle, and a lone worker never
   gets past it.

5. `SourceWhereWorkerLooks`: `docs/10_collaboration_and_overlap_guide.md:18` says the worker computes the
   path from the version id. `_source_path` (`src/pipeline/runner.py:86`) uses `documents.file_type` as well,
   which a later upload with another extension overwrites, so a version that still waits is looked
   for under the wrong name and dead-lettered.
6. `ChunkWithinSize`: `docs/developer_A/phase4_text_extraction_and_chunking.md:42` says that every chunk has
   at most `chunk_size` tokens. A window that lies inside one character of several tokens is extended by one
   token (`src/pipeline/chunker.py:78`): in the run, the first three tokens of a character of four make
   a chunk of four with `chunk_size` 3. The other way to a longer chunk is a window that begins at a later
   token of a character: it is cut from the character's first one (`:76`), so its chunk has up to three more.

Three more things the model of uploads shows, that no document contradicts and the properties state as
exceptions: after a commit whose acknowledgement is lost the except clause removes the file of a
version that exists (`AnsweredHasSource` leaves out such requests); a request cancelled during the
move leaves a file without a row (`leftover`); and the duplicate check counts FAILED versions, so content
that was dead-lettered cannot be uploaded again, except after its document is deleted.

And three the model of queries shows. After the switch the status endpoint shows the `VERSION_SWITCH` row in
place of the job: that keeps its answers consistent (`StatusIsConsistent`, even for the dead letters of
finding 3), but hides the job's retry count and error. A search may come back empty although a document is
served and similar enough, once embeddings that the `WHERE` clause drops fill the candidate list. They are counted in
chunks: one superseded version of `hnsw.ef_search` (100) chunks is enough, nothing but a delete removes
them, and chunks of served documents below `min_similarity` count too. `SearchFindsServed` says that with fewer
than that this cannot happen. And a client that pages
while documents are deleted, or, with the MCP tool, while titles change, may never see a document that is
served all the time (the exceptions of `PagingSkipsNothing`).

## 5. Proofs

Every theorem holds for all values of the constants that satisfy the assumptions named in the modules:
a finite set of uploads (`ChangeLog`), of requests (`Upload`, `Pool`), of versions, documents and chunks (`Queries`); positive
batch sizes, page sizes and attempts; documents that are sequences of well-formed blocks (`Chunker`).
Workers, contents, file types, the documents and chunks of the daemon, retry limits, connections and the number of faults are
arbitrary. Each `_proofs` module has the same form: an inductive invariant, one lemma per group of actions
that keep it, the theorem `Spec => []IInv`, and the properties the runs check as consequences of it. The
parts of each inductive invariant stand in the component's module under "what ... rests on"; TLC found each
of them to hold on the instance of the component's run before it was proved.

| Module | Theorems, and the property each states |
|---|---|
| `WorkerDaemon_proofs` | `Invariance`; `TypeCorrect` (`TypeOK`), `JobsAndVersionsAgree` (`JobAndVersionAgree`), `BudgetIsDeadLetter` (`BudgetDecidesDeadLetter`), `OneActive` (`OneActiveVersion`), `OneSwitch` (`OneSwitchPerPublication`), `SnapshotStaysFresh` (`OwnerKnowsRetryCount`), `ActivationIsReady` (`ReadyToActivate`), `StatusNeverContradicts` (`StatusIsConsistent`), `AttemptsCounted` (`RetryCountsAttempts`), `GivenUpForGood` (`GivenUpStaysGivenUp`), `Refinement` (`ImplementsPublication`); `NoBudgetNoAttempt` (see below) |
| `Deletion_proofs` | `DeletionInvariance`; `DeletionTypeCorrect` (`DeletionTypeOK`), `OrphansHaveSlipped` (`OrphansSlippedThrough`), `DeletedForGood` (`DeletedLeavesNothing`), `OneActiveBesideDeletes` (`OneActiveVersion`, with deletes) |
| `DeletionHandlers_proofs` | `HandlersInvariance`; `ReadyBesideDeletes` (`ReadyToActivate`), `AttemptsCountedBesideDeletes` (`RetryCountsAttempts`), `GivenUpBesideDeletes` (`GivenUpStaysGivenUp`), all three with deletes; `RefinementBesideDeletes` (`ImplementsPublicationWithDeletes`), `ServiceHasNoGap` (`ServedUntilDeleted`) |
| `Upload_proofs` | `UploadInvariance`; `UploadTypeCorrect` (`UploadTypeOK`), `ContentsAreUnique` (`ContentRegisteredOnce`), `NumbersHaveNoGap` (`VersionsNumberedFromOne`), `SourceIsKept` (`AnsweredHasSource`), `FilesHaveOwners` (`NoStrayFiles`), `LocksAreOrdered` (see below), `UploadRefinement` (`UploadsImplementPublication`) |
| `Ingestion_proofs` | `IngestionInvariance`; `IngestionTypeCorrect` (`IngestionTypeOK`), `NothingIsSkipped` (`NothingSkipped`), `WindowsAddSomething` (`NoWindowInsideAnother`), `BlankChunksTakeLongBlanks` (`BlankChunksAreLong`), `VectorsInOrder` (`VectorsMatchTexts`), `AllAttemptsAreUsed` (`UnavailableMeansExhausted`) |
| `Queries_proofs` | `QueriesInvariance`; `QueriesTypeCorrect` (`QueriesTypeOK`), `ConnectionsComeBack` (`ConnectionsCounted`), `PagesSkipNothing` (`PagingSkipsNothing`), `DetailsAreWhole` (`DetailIsWhole`), `ChunksAreTraceable` (`ChunkIsTraceable`), `SearchesFindServed` (`SearchFindsServed`) |

### The daemon

The checked invariants are not inductive by themselves: that a completed
job has a published version (`JobAndVersionAgree`) needs to know what a worker about to complete it has
done; that `mark_failed` does not overwrite a count needs the count of the owner. `IInv` adds to
them `OwnedWhileProcessing`, `AttemptsLeftWhileProcessing`, `PublishedIsComplete`, `HoldsUploadedJob` and
`HandlerProgress` (what the position of a handler says about the tables, which stays true because
chunks, embeddings and publication are never taken back).

One lemma per transaction shows that it keeps the table invariant, takes nothing
back (`Grows`), and hands a lease to nobody but the claimer (`LeasesKept`). Each action of a worker is
one transaction and one move, so what the invariant says of the other workers follows from those
three facts, and of the mover from the move. The refinement uses the same split: a step is a
transaction, and a transaction is a step of `Publication` or leaves `stageBar` alone.

`NoBudgetNoAttempt` is about a limit no run uses: with `max_retries = 0`, which the schema allows, every
uploaded job stays PENDING for ever, as the claim asks for `retry_count < max_retries`.

### Deletes beside the daemon

A delete takes back what `HandlerProgress` relies on, so `IInv` does not carry over, and the invariant of
`Deletion` is one of its own. `DeletionIInv` has five supporting parts: the document of
a delete in progress is there and has an upload (`DeleteUnderWay`); a job has a document from its upload on
(`UploadedHasDocument`); a version goes with its document only (`VersionGoneWithDocument`); the jobs a delete
has marked still wait for it (`MarkedStillWait`: claims skip the locked rows, and nothing else moves a PENDING
job); and of the jobs it has not marked, those that wait have slipped, and so have, once it has looked, those
that run (`MissedHaveSlipped`). The last one is the argument for `OrphansSlippedThrough`:
a commit comes after the look, so each live job it leaves is in `slipped`. `DeletedLeavesNothing` is
inductive beside it because every write of a handler needs a version row, and uploads to a deleted document
are refused. `OneActiveVersion` is proved again, as a step of activation now also meets versions that have
gone.

What the daemon promises beside deletes is the subject of `DeletionHandlers_proofs`. `HandlersIInv` binds a job
row to its version row (`AgreeUntilDeleted`) and a handler to the tables (`ProgressUntilDeleted`) only until
the version is deleted: what is gone does not come back, as uploads have a row of their own. Its proof goes
row by row and worker by worker: `Lasts` is what a step never takes back unless it deletes the version,
`LeaseLasts` that who owns a job after a step owned it before, unless it claimed it. A step that has both
leaves every other worker's place true, and what is left to show is the place of the worker that moves.
Three of the daemon's action and activation properties follow (`ReadyToActivate`, `RetryCountsAttempts`,
`GivenUpStaysGivenUp`; the `Deletion` run checks the second, the `Worker` run all of them). Two of its
invariants do not survive deletes, and are not meant to:
`JobAndVersionAgree` holds of existing versions only (`AgreeUntilDeleted`), and `BudgetDecidesDeadLetter` fails
as the delete marks jobs DEAD_LETTER that have attempts left.

`RefinementBesideDeletes` goes over the same transactions: those that leave every version's status alone or
move it between PENDING and PROCESSING are stutters, the upload is `Submit` (of a document that is not gone,
since uploads to a deleted one are refused), activation is `Publish` by `OneActiveVersion`, the last failure is
`Reject`, and the delete's commit is `Withdraw`. `ServiceHasNoGap` is then read off `Publication`: a
published version stops being so only as another one of its document is published or with its document. So
a document that has an ACTIVE version has one after every step, whatever overlaps, until its delete commits.

### Uploads

`UploadIInv` says what a request knows at each step. From check to commit no other transaction and no
registered version has its content (`ContentLocked`); from placing to commit its number is the next one of
its document, and nobody else has placed a version there (`NumberReserved`). Only an upload to the document
could change that number, or a delete of the document, which waits for the same row and takes all its
versions at once. `RowsAreCommitted` and `MovedBeforeCommit` are the order of move, commit and unlink, from
which `AnsweredHasSource` and the inductive `NoStrayFiles` follow.

`UploadRefinement` needs `WithdrawnForGood` beside them: the request of a version that went is over, and so is
the one that made its document, so neither is inserted again. Then `Commit` and
`CommitUnknown` are `Submit`, with the document that was locked or inserted; `Delete` and `DeleteUnknown` are
`Withdraw`; what a request does before its commit, and with files, stutters (`RequestRefines`).

`SomebodyAdvances` is stated with `ENABLED`, which TLAPS cannot handle here. `LocksAreOrdered` proves its
content in terms of the guards: in every reachable state with requests in flight, one of them is not
waiting for a lock: a request that has placed its version waits for nothing, and one that holds the lock of
its content waits for a placed one at most.

### Chunks and vectors

`ChunkerIInv` adds to the checked properties that the chunks of the current block have every character
before the one its next window begins in (`CoveredSoFar`), that they end where the next window may still
reach beyond (`WindowsAdvance`), that a chunk has characters (`ChunksHaveContent`), and that blank blocks
are passed over. A window is analysed once (`WindowAdvances`: it ends behind its beginning after at least
half a window or with the block; `NextWindow`: the next one begins behind its first token and not behind its
end), for any tokens whose first characters ascend and wherever sentences end. `ClientIInv` adds that the
vectors so far are those of the texts sent so far and that the attempts of the current batch are its
failures.

Induction over data is out of the prover's reach, as its theorems take a predicate as a parameter. Where
the proofs need it (the largest or smallest of a set that has one; tokens that ascend step by step ascend
altogether) they use `LeastNatural`, that a non-empty set of naturals has a least
member, which follows from the library's `WFMin` and takes a set, not a predicate.

### Queries and the pool

`QueriesIInv` says what the reader knows between two statements: which of the documents that
were served when it began it has not yet shown and where they stand in the order of the list
(`PagingUnderWay`), what the first statement of a detail saw (`DetailUnderWay`), of which
version a search result is (`ChunkUnderWay`). For the tables: a document's title is that of one of
its uploads, a superseded version has a served successor, a version is withdrawn exactly if its document was
deleted (`WithdrawnWithDocument`). The heart of `PagesSkipNothing` is that ranks are
the numbers 1 to n (`RanksAreNumbers`), so that a full page has as many documents as its size
(`PageIsFull`) and a document that has not been shown lies behind the offset; new documents only push it
further back. `SearchFindsServed` is an action property: it compares the candidates with the tables of the
same statement, for every query. If the rows to be dropped are fewer than `EfSearch`, each list of `EfSearch` rows, or of all,
has a chunk that matches. For the pool, `ConnectionsCounted` needs to know that a connection is of a pool
that was opened (`UsesOpenPool`) and that a pool just opened is a new one, with none taken: opening counts up
(`LastPoolIsKept`), and pools opened plus requests that are opening one never exceed the requests
(`PoolsToCome`), as none begins once there is a pool.

### Only model-checked

Liveness, which TLAPS does not handle under fairness: `EveryJobSettles`, `SettledOrOrphaned`,
 `DocumentSettles`, `RequestsEnd`. `SomebodyAdvances` in its form with `ENABLED`. The six
findings are counterexamples, for which a run is the proof.

## 6. Not modelled

* The text extractor: third-party parsers without state or control of their own; a failure of it is
  `Raise` in `WorkerDaemon`.
* Vectors, ranking, `top_k` and the conditions of a search on metadata (`min_similarity` is any set of chunks that
  reach it); categories, tags and dates of documents. Titles are modelled in `Queries` only, file types in `Upload` only.
* `check_embedding_service`, `disconnect`, the validation of parameters and the form of answers.
* Configuration, data classes, logging; the scripts and migrations, which are run by hand. (The demo
  asserts that version 1 is still served right after the upload of version 2, which a quick
  worker may break; that is a race of the script.)
* Row locks of delete and activation: PostgreSQL's deadlock abort may end either side (`DeleteAborts`,
  `Raise`), at any time.

Uploads are a single step beside the workers (`ChangeLog`), which `Upload` justifies: the version number is
read and used under the document's row lock. The reasons are with the components in `PROJECT.json`.

## 7. Plan

Every passing run's safety property is a theorem, except `SomebodyAdvances`. What could be added: the row
locks of delete and activation as state, to show where PostgreSQL's deadlock detection is needed instead
of letting it strike at any time; a run with `max_retries = 0`; and liveness with deletes without the
exception of orphans, which finding 4 rules out for the code as it is.
