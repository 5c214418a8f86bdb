------------------------------ MODULE ChangeLog ------------------------------
(***************************************************************************)
(* The rows of doc_search.change_log and doc_search.document_versions that  *)
(* one upload creates, and every transaction that writes them after the     *)
(* upload: the SQL of src/worker/daemon.py, the status-guarded writes of    *)
(* src/pipeline/runner.py and src/embedding/store.py, and the stored        *)
(* function activate_version of sql/05_functions.sql.                       *)
(*                                                                          *)
(* An upload inserts one version row and one job row in one transaction,    *)
(* so a job and its version share an identifier.  Identifiers are naturals  *)
(* and their order is the claim order (created_at, id).                     *)
(*                                                                          *)
(* Every operator below is one whole transaction.  Each of them locks the   *)
(* rows it decides on (FOR UPDATE, or the row lock of a guarded UPDATE)     *)
(* before it writes, and holds those locks to its commit, so its effect is  *)
(* that of an atomic step taken when the last of those locks is granted.    *)
(***************************************************************************)
EXTENDS Integers, FiniteSets

CONSTANTS
    Jobs,        \* identifiers of uploads: a job row and its version row
    Docs,        \* documents
    NoDoc,       \* placeholder of document_id before the row exists
    Workers,     \* worker_id values: one fresh uuid4 per worker process
    NoWorker,    \* the SQL NULL of change_log.worker_id
    MaxRetries,  \* change_log.max_retries, copied from settings.MAX_RETRIES
    Chunks,      \* chunk_index values chunk_text gives for an uploaded file
    BatchSize    \* settings.EMBEDDING_BATCH_SIZE

ASSUME JobsAssumption == Jobs \subseteq Nat /\ IsFiniteSet(Jobs)
ASSUME DocsAssumption == NoDoc \notin Docs
ASSUME WorkersAssumption == NoWorker \notin Workers
ASSUME MaxRetriesAssumption == MaxRetries \in Nat
ASSUME ChunksAssumption == Chunks \subseteq Nat /\ Chunks # {}
ASSUME BatchSizeAssumption == BatchSize \in Nat \ {0}

VARIABLES
    status,    \* change_log.status, "NONE" before the row exists
    owner,     \* change_log.worker_id
    retry,     \* change_log.retry_count
    lapsed,    \* locked_at is older than the lock timeout
    cooling,   \* updated_at is more recent than the backoff of retry_count
    version,   \* document_versions.status, "NONE" before the row exists
    doc,       \* document_versions.document_id
    number,    \* document_versions.version_number
    stored,    \* the version's chunks have their rows
    embedded,  \* its chunks that have an embedding row and is_embedded
    switches   \* number of VERSION_SWITCH rows of the version in change_log

jobVars == <<status, owner, retry, lapsed, cooling>>
versionVars == <<version, doc, number, stored, embedded, switches>>
tableVars == <<status, owner, retry, lapsed, cooling,
               version, doc, number, stored, embedded, switches>>

\* job_status; the code never writes its fifth value, FAILED.
JobStatus == {"NONE", "PENDING", "PROCESSING", "COMPLETED", "DEAD_LETTER"}
VersionStatus == {"NONE", "PENDING", "PROCESSING", "ACTIVE", "ARCHIVED", "FAILED"}

Published == {"ACTIVE", "ARCHIVED"}

TablesTypeOK ==
    /\ status \in [Jobs -> JobStatus]
    /\ owner \in [Jobs -> Workers \cup {NoWorker}]
    /\ retry \in [Jobs -> Nat]
    /\ lapsed \in [Jobs -> BOOLEAN]
    /\ cooling \in [Jobs -> BOOLEAN]
    /\ version \in [Jobs -> VersionStatus]
    /\ doc \in [Jobs -> Docs \cup {NoDoc}]
    /\ number \in [Jobs -> Nat]
    /\ stored \in [Jobs -> BOOLEAN]
    /\ embedded \in [Jobs -> SUBSET Chunks]
    /\ switches \in [Jobs -> Nat]

\* Before an upload the row does not exist; the values of its columns are
\* placeholders that Register overwrites.
TablesInit ==
    /\ status = [j \in Jobs |-> "NONE"]
    /\ owner = [j \in Jobs |-> NoWorker]
    /\ retry = [j \in Jobs |-> 0]
    /\ lapsed = [j \in Jobs |-> FALSE]
    /\ cooling = [j \in Jobs |-> FALSE]
    /\ version = [j \in Jobs |-> "NONE"]
    /\ doc = [j \in Jobs |-> NoDoc]
    /\ number = [j \in Jobs |-> 0]
    /\ stored = [j \in Jobs |-> FALSE]
    /\ embedded = [j \in Jobs |-> {}]
    /\ switches = [j \in Jobs |-> 0]

-----------------------------------------------------------------------------
\* _register_upload's rows.  The version takes COALESCE(MAX(version_number), 0)
\* + 1 of its document, whose row stays locked meanwhile; both rows start
\* PENDING.  Identifiers are taken in any order: created_at is the start of the
\* transaction, so a row may commit after one that sorts behind it.
NextNumber(d, n) ==
    LET taken == {number[k] : k \in {i \in Jobs : doc[i] = d}}
    IN  /\ n - 1 \in taken \cup {0}
        /\ \A m \in taken : m < n

Register(j, d) ==
    /\ status[j] = "NONE"
    /\ status' = [status EXCEPT ![j] = "PENDING"]
    /\ version' = [version EXCEPT ![j] = "PENDING"]
    /\ doc' = [doc EXCEPT ![j] = d]
    /\ \E n \in 1 .. Cardinality(Jobs) :
          /\ NextNumber(d, n)
          /\ number' = [number EXCEPT ![j] = n]
    /\ retry' = [retry EXCEPT ![j] = 0]
    /\ UNCHANGED <<owner, lapsed, cooling, stored, embedded, switches>>

-----------------------------------------------------------------------------
\* CLAIM_JOB_SQL's WHERE clause.
Eligible(j) ==
    /\ status[j] = "PENDING"
    /\ retry[j] < MaxRetries
    /\ ~cooling[j]

\* claim_job on a version that is PENDING: MARK_VERSION_PROCESSING_SQL finds it.
ClaimTx(w, j) ==
    /\ Eligible(j)
    /\ version[j] = "PENDING"
    /\ status' = [status EXCEPT ![j] = "PROCESSING"]
    /\ owner' = [owner EXCEPT ![j] = w]
    /\ lapsed' = [lapsed EXCEPT ![j] = FALSE]
    /\ version' = [version EXCEPT ![j] = "PROCESSING"]
    /\ UNCHANGED <<retry, cooling, doc, number, stored, embedded, switches>>

\* claim_job on a version an earlier attempt published: the claim and the
\* completion commit together, so no other transaction sees the job PROCESSING.
CloseTx(j) ==
    /\ Eligible(j)
    /\ version[j] \in Published
    /\ status' = [status EXCEPT ![j] = "COMPLETED"]
    /\ owner' = [owner EXCEPT ![j] = NoWorker]
    /\ UNCHANGED <<retry, lapsed, cooling, versionVars>>

\* The guard shared by HEARTBEAT_SQL, MARK_COMPLETED_SQL and MARK_FAILED_SQL.
OwnsIgnoringWorkerId(w, j) == status[j] = "PROCESSING"
Owns(w, j) ==
    /\ status[j] = "PROCESSING"
    /\ owner[j] = w

HeartbeatTx(w, j) ==
    /\ Owns(w, j)
    /\ lapsed' = [lapsed EXCEPT ![j] = FALSE]
    /\ UNCHANGED <<status, owner, retry, cooling, versionVars>>

CompleteTx(w, j) ==
    /\ Owns(w, j)
    /\ status' = [status EXCEPT ![j] = "COMPLETED"]
    /\ owner' = [owner EXCEPT ![j] = NoWorker]
    /\ lapsed' = [lapsed EXCEPT ![j] = FALSE]
    /\ UNCHANGED <<retry, cooling, versionVars>>

\* UPDATE_VERSION_AFTER_FAILURE_SQL and RESET_VERSION_AFTER_LEASE_SQL write a
\* version only while it is PROCESSING.
MovedOnUnguarded(j, s) == s
MovedOnNever(j, s) == version[j]
MovedOn(j, s) == IF version[j] = "PROCESSING" THEN s ELSE version[j]

\* mark_failed: `attempts' is computed by the caller from the claimed row.
ExhaustedOffByOne(attempts) == attempts > MaxRetries
Exhausted(attempts) == attempts >= MaxRetries

AfterFailureNamedFailed(attempts) == IF Exhausted(attempts) THEN "FAILED" ELSE "PENDING"
AfterFailure(attempts) == IF Exhausted(attempts) THEN "DEAD_LETTER" ELSE "PENDING"

FailTx(w, j, attempts) ==
    /\ Owns(w, j)
    /\ status' = [status EXCEPT ![j] = AfterFailure(attempts)]
    /\ retry' = [retry EXCEPT ![j] = attempts]
    /\ owner' = [owner EXCEPT ![j] = NoWorker]
    /\ lapsed' = [lapsed EXCEPT ![j] = FALSE]
    /\ cooling' = [cooling EXCEPT ![j] = ~Exhausted(attempts)]
    /\ version' = [version EXCEPT ![j] =
                     MovedOn(j, IF Exhausted(attempts) THEN "FAILED" ELSE "PENDING")]
    /\ UNCHANGED <<doc, number, stored, embedded, switches>>

\* recover_stale_jobs: every expired lease is released in one transaction.  The
\* retry count stays; updated_at = NOW() restarts the backoff of that count.
Stale == {j \in Jobs : status[j] = "PROCESSING" /\ lapsed[j]}

RecoverTx ==
    /\ status' = [j \in Jobs |-> IF j \in Stale THEN "PENDING" ELSE status[j]]
    /\ owner' = [j \in Jobs |-> IF j \in Stale THEN NoWorker ELSE owner[j]]
    /\ lapsed' = [j \in Jobs |-> IF j \in Stale THEN FALSE ELSE lapsed[j]]
    /\ cooling' = [j \in Jobs |-> IF j \in Stale THEN retry[j] > 0 ELSE cooling[j]]
    /\ version' = [j \in Jobs |->
                      IF j \in Stale THEN MovedOn(j, "PENDING") ELSE version[j]]
    /\ UNCHANGED <<retry, doc, number, stored, embedded, switches>>

-----------------------------------------------------------------------------
\* _persist_chunks: all chunks of the file, ON CONFLICT DO NOTHING, committed
\* only if the version is PROCESSING.  Chunking the same file again gives the
\* same chunks, so a row that exists is the row that would be inserted.  Without
\* the foreign keys of chunks the insert would not notice that its version is
\* gone (as change_log, which has none, does not).
PersistTxUnkeyed(j) ==
    /\ version[j] \in {"PROCESSING", "NONE"}
    /\ stored' = [stored EXCEPT ![j] = TRUE]
    /\ UNCHANGED <<jobVars, version, doc, number, embedded, switches>>

PersistTx(j) ==
    /\ version[j] = "PROCESSING"
    /\ stored' = [stored EXCEPT ![j] = TRUE]
    /\ UNCHANGED <<jobVars, version, doc, number, embedded, switches>>

\* PENDING_CHUNKS_SQL: the stored chunks without an embedding.
PendingChunksIfNoneYet(j) == IF stored[j] /\ embedded[j] = {} THEN Chunks ELSE {}
PendingChunks(j) == IF stored[j] THEN Chunks \ embedded[j] ELSE {}

\* save_embedding_batch: the version row is locked, its status is not read.
SaveBatchTx(j, batch) ==
    /\ version[j] # "NONE"
    /\ stored[j]
    /\ embedded' = [embedded EXCEPT ![j] = @ \cup batch]
    /\ UNCHANGED <<jobVars, version, doc, number, stored, switches>>

\* VERSION_COMPLETENESS_SQL: there are chunks and each has its embedding.
Complete(j) == stored[j] /\ embedded[j] = Chunks

ActiveOf(d) == {k \in Jobs : doc[k] = d /\ version[k] = "ACTIVE"}

NothingSuperseded(j) == {}
Superseded(j) == ActiveOf(doc[j])

ActivatableTwice(j) == version[j] \in {"PROCESSING", "ACTIVE"}
ActivatableUntilPublished(j) == version[j] \notin {"NONE"} \cup Published
Activatable(j) == version[j] = "PROCESSING"

\* activate_version, Python and SQL, in one transaction: completeness, the
\* previous ACTIVE version archived, this one ACTIVE, one VERSION_SWITCH row.
ActivateTx(j) ==
    /\ Activatable(j)
    /\ Complete(j)
    /\ version' = [k \in Jobs |-> IF k = j THEN "ACTIVE"
                                  ELSE IF k \in Superseded(j) THEN "ARCHIVED"
                                  ELSE version[k]]
    /\ switches' = [switches EXCEPT ![j] = @ + 1]
    /\ UNCHANGED <<jobVars, doc, number, stored, embedded>>

-----------------------------------------------------------------------------
\* Time.  A lease runs out when locked_at falls behind the lock timeout, a
\* backoff ends when updated_at falls behind the delay of the retry count.
LeaseRunsOut(j) ==
    /\ status[j] = "PROCESSING"
    /\ ~lapsed[j]
    /\ lapsed' = [lapsed EXCEPT ![j] = TRUE]
    /\ UNCHANGED <<status, owner, retry, cooling, versionVars>>

BackoffEnds(j) ==
    /\ status[j] = "PENDING"
    /\ cooling[j]
    /\ cooling' = [cooling EXCEPT ![j] = FALSE]
    /\ UNCHANGED <<status, owner, retry, lapsed, versionVars>>
=============================================================================
