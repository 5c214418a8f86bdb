---------------------------- MODULE WorkerDaemon -----------------------------
(***************************************************************************)
(* Worker processes over the tables of ChangeLog: Worker.run, run_once and  *)
(* _heartbeat_loop of src/worker/daemon.py, and the database steps of       *)
(* process_document_job (src/pipeline/runner.py), which is the job handler  *)
(* that run_worker installs.                                                *)
(*                                                                          *)
(* A worker is one process with its own worker_id.  A crashed process never *)
(* comes back: systemd starts a new one, which draws a new worker_id, so a  *)
(* restart is the start of another member of Workers.                       *)
(*                                                                          *)
(* Losing the lease stops the heartbeat task only.  The handler runs on, as *)
(* a "zombie", while another worker may run the same job.                   *)
(***************************************************************************)
EXTENDS ChangeLog

CONSTANTS
    NoJob,      \* value of a worker's job while it holds none
    MaxFaults   \* bound on crashes, stalls and database errors in a behaviour

ASSUME NoJobAssumption == NoJob \notin Jobs
ASSUME MaxFaultsAssumption == MaxFaults \in Nat

VARIABLES
    pc,       \* where each worker is in run_once
    held,     \* the job each worker's handler runs
    attempt,  \* retry_count of the row that claim_job returned
    todo,     \* rows _pending_chunks returned whose batch is not saved yet
    faults    \* environment faults so far

workerVars == <<pc, held, attempt, todo>>
vars == <<tableVars, workerVars, faults>>

\* Awaits of process_document_job.
Handler == {"load", "persist", "pending", "embed", "activate"}
\* From create_task(_heartbeat_loop) to the finally of run_once: the handler,
\* then mark_completed ("finish") or mark_failed ("fail").
Busy == Handler \cup {"finish", "fail"}
Steps == {"off", "recover", "claim", "dead"} \cup Busy

TypeOK ==
    /\ TablesTypeOK
    /\ pc \in [Workers -> Steps]
    /\ held \in [Workers -> Jobs \cup {NoJob}]
    /\ attempt \in [Workers -> Nat]
    /\ todo \in [Workers -> SUBSET Chunks]
    /\ faults \in 0 .. MaxFaults

Init ==
    /\ TablesInit
    /\ pc = [w \in Workers |-> "off"]
    /\ held = [w \in Workers |-> NoJob]
    /\ attempt = [w \in Workers |-> 0]
    /\ todo = [w \in Workers |-> {}]
    /\ faults = 0

Goto(w, step) == pc' = [pc EXCEPT ![w] = step]

\* run_once ends, and with it its local variables.
Leave(w, step) ==
    /\ Goto(w, step)
    /\ held' = [held EXCEPT ![w] = NoJob]
    /\ attempt' = [attempt EXCEPT ![w] = 0]
    /\ todo' = [todo EXCEPT ![w] = {}]

\* Back to the top of the poll loop of run.
Poll(w) == Leave(w, "recover")

\* One more fault of the environment, within the bound.
Fault ==
    /\ faults < MaxFaults
    /\ faults' = faults + 1

-----------------------------------------------------------------------------
\* The API's upload of a new version.
Upload(j, d) ==
    /\ Register(j, d)
    /\ UNCHANGED <<workerVars, faults>>

Start(w) ==
    /\ pc[w] = "off"
    /\ Goto(w, "recover")
    /\ UNCHANGED <<tableVars, held, attempt, todo, faults>>

\* First statement of run_once.
Recover(w) ==
    /\ pc[w] = "recover"
    /\ RecoverTx
    /\ Goto(w, "claim")
    /\ UNCHANGED <<held, attempt, todo, faults>>

\* ORDER BY created_at, id with SKIP LOCKED: a row older than the one taken is
\* locked by another worker's open claim, and each such claim locks one row.
Older(j) == {i \in Jobs : i < j /\ Eligible(i)}
OthersClaiming(w) == {v \in Workers \ {w} : pc[v] = "claim"}
NextInLine(w, j) == Cardinality(Older(j)) <= Cardinality(OthersClaiming(w))

\* mark_failed computes from job.get("retry_count") or 0, the row claim_job
\* returned.
SnapshotWithoutColumn(j) == 0
Snapshot(j) == retry[j]

\* claim_job returns the row.
Take(w, j) ==
    /\ pc[w] = "claim"
    /\ ClaimTx(w, j)
    /\ Goto(w, "load")
    /\ held' = [held EXCEPT ![w] = j]
    /\ attempt' = [attempt EXCEPT ![w] = Snapshot(j)]
    /\ UNCHANGED <<todo, faults>>

Claim(w, j) == NextInLine(w, j) /\ Take(w, j)

\* claim_job closes the job of a published version and returns None.
TakePublished(w, j) ==
    /\ pc[w] = "claim"
    /\ CloseTx(j)
    /\ Poll(w)
    /\ UNCHANGED faults

Close(w, j) == NextInLine(w, j) /\ TakePublished(w, j)

ClaimNothing(w) ==
    /\ pc[w] = "claim"
    /\ ~\E j \in Jobs : Eligible(j)
    /\ Poll(w)
    /\ UNCHANGED <<tableVars, faults>>

\* The claim commits, but the connection breaks before the worker knows: run
\* logs the exception and polls again, nobody heartbeats the lease.
TakeUnacknowledged(w, j) ==
    /\ pc[w] = "claim"
    /\ ClaimTx(w, j)
    /\ Poll(w)
    /\ Fault

ClaimUnacknowledged(w, j) == NextInLine(w, j) /\ TakeUnacknowledged(w, j)

\* claim_job is rolled back by a database error.
ClaimFails(w) ==
    /\ pc[w] = "claim"
    /\ Poll(w)
    /\ Fault
    /\ UNCHANGED tableVars

-----------------------------------------------------------------------------
\* _load_context; an ACTIVE version goes straight to activate_version.  Every
\* other status than PROCESSING is an error, as is a missing source file.
Load(w) ==
    /\ pc[w] = "load"
    /\ \/ version[held[w]] = "PROCESSING" /\ Goto(w, "persist")
       \/ version[held[w]] = "ACTIVE" /\ Goto(w, "activate")
    /\ UNCHANGED <<tableVars, held, attempt, todo, faults>>

Persist(w) ==
    /\ pc[w] = "persist"
    /\ PersistTx(held[w])
    /\ Goto(w, "pending")
    /\ UNCHANGED <<held, attempt, todo, faults>>

ReadPending(w) ==
    /\ pc[w] = "pending"
    /\ todo' = [todo EXCEPT ![w] = PendingChunks(held[w])]
    /\ Goto(w, "embed")
    /\ UNCHANGED <<tableVars, held, attempt, faults>>

\* The next batch in chunk_index order: embed it, then save it.
NextBatch(S) == {c \in S : Cardinality({b \in S : b < c}) < BatchSize}

EmbedBatch(w) ==
    /\ pc[w] = "embed"
    /\ todo[w] # {}
    /\ SaveBatchTx(held[w], NextBatch(todo[w]))
    /\ todo' = [todo EXCEPT ![w] = @ \ NextBatch(@)]
    /\ UNCHANGED <<pc, held, attempt, faults>>

AllBatchesSaved(w) ==
    /\ pc[w] = "embed"
    /\ todo[w] = {}
    /\ Goto(w, "activate")
    /\ UNCHANGED <<tableVars, held, attempt, todo, faults>>

Activate(w) ==
    /\ pc[w] = "activate"
    /\ ActivateTx(held[w])
    /\ Goto(w, "finish")
    /\ UNCHANGED <<held, attempt, todo, faults>>

\* activate_version of an ACTIVE version returns already_active.
AlreadyActive(w) ==
    /\ pc[w] = "activate"
    /\ version[held[w]] = "ACTIVE"
    /\ Goto(w, "finish")
    /\ UNCHANGED <<tableVars, held, attempt, todo, faults>>

\* The activation commits and its acknowledgement is lost: the handler raises.
ActivateUnacknowledged(w) ==
    /\ pc[w] = "activate"
    /\ ActivateTx(held[w])
    /\ Goto(w, "fail")
    /\ Fault
    /\ UNCHANGED <<held, attempt, todo>>

\* Any step of the handler raises: extraction, the embedding service, the
\* database, or a status or completeness check of the step.
Raise(w) ==
    /\ pc[w] \in Handler
    /\ Goto(w, "fail")
    /\ UNCHANGED <<tableVars, held, attempt, todo, faults>>

-----------------------------------------------------------------------------
Heartbeat(w) ==
    /\ pc[w] \in Busy
    /\ HeartbeatTx(w, held[w])
    /\ UNCHANGED <<workerVars, faults>>

Finish(w) ==
    /\ pc[w] = "finish"
    /\ CompleteTx(w, held[w])
    /\ Poll(w)
    /\ UNCHANGED faults

\* mark_failed: retry_count is written from the claimed row, not read again.
Fail(w) ==
    /\ pc[w] = "fail"
    /\ FailTx(w, held[w], attempt[w] + 1)
    /\ Poll(w)
    /\ UNCHANGED faults

\* mark_completed or mark_failed finds that the lease is gone: nothing is
\* written, WorkerLeaseLostError ends run_once.
LeaseLost(w) ==
    /\ pc[w] \in {"finish", "fail"}
    /\ ~Owns(w, held[w])
    /\ Poll(w)
    /\ UNCHANGED <<tableVars, faults>>

\* mark_completed or mark_failed cannot reach the database: the exception ends
\* run_once, the row stays PROCESSING without a handler.
ReportFails(w) ==
    /\ pc[w] \in {"finish", "fail"}
    /\ Poll(w)
    /\ Fault
    /\ UNCHANGED tableVars

Crash(w) ==
    /\ pc[w] \notin {"off", "dead"}
    /\ Leave(w, "dead")
    /\ Fault
    /\ UNCHANGED tableVars

-----------------------------------------------------------------------------
Tended(j) == \E w \in Workers : pc[w] \in Busy /\ held[w] = j /\ owner[j] = w

\* Nobody refreshes locked_at.
LeaseExpires(j) ==
    /\ ~Tended(j)
    /\ LeaseRunsOut(j)
    /\ UNCHANGED <<workerVars, faults>>

\* The worker is alive but its heartbeats do not get through for the whole lock
\* timeout: a stalled host, a database outage, an exhausted pool.
LeaseOverrun(j) ==
    /\ Tended(j)
    /\ LeaseRunsOut(j)
    /\ Fault
    /\ UNCHANGED workerVars

Cool(j) ==
    /\ BackoffEnds(j)
    /\ UNCHANGED <<workerVars, faults>>

\* What a worker does by itself, as opposed to what happens to it.
Run(w) ==
    \/ Recover(w) \/ ClaimNothing(w)
    \/ \E j \in Jobs : Claim(w, j) \/ Close(w, j)
    \/ Load(w) \/ Persist(w) \/ ReadPending(w) \/ EmbedBatch(w) \/ AllBatchesSaved(w)
    \/ Activate(w) \/ AlreadyActive(w)
    \/ Raise(w) \/ Finish(w) \/ Fail(w) \/ LeaseLost(w)

Next ==
    \/ \E j \in Jobs, d \in Docs : Upload(j, d)
    \/ \E w \in Workers :
          \/ Start(w) \/ Run(w) \/ Heartbeat(w)
          \/ ClaimFails(w) \/ ActivateUnacknowledged(w) \/ ReportFails(w)
          \/ Crash(w)
          \/ \E j \in Jobs : ClaimUnacknowledged(w, j)
    \/ \E j \in Jobs : LeaseExpires(j) \/ LeaseOverrun(j) \/ Cool(j)

Spec == Init /\ [][Next]_vars

\* run_worker polls for ever and every await of a cycle ends: asyncpg and httpx
\* calls return or time out, and run swallows every exception.  systemd starts
\* the workers.  Time passes, so a lease nobody refreshes and a backoff run out.
Fairness ==
    /\ \A w \in Workers : WF_vars(Start(w)) /\ WF_vars(Run(w))
    /\ \A j \in Jobs : WF_vars(LeaseExpires(j)) /\ WF_vars(Cool(j))

FairSpec == Spec /\ Fairness

-----------------------------------------------------------------------------
\* processing_status shows the latest change_log row of a version: the
\* VERSION_SWITCH row, inserted COMPLETED, hides the row of the job.
ReportedJobRow(j) == status[j]
Reported(j) == IF switches[j] > 0 THEN "COMPLETED" ELSE status[j]

\* A job and its version never contradict each other at a commit: the status
\* of one bounds the status of the other, an expired lease, a zombie or a lost
\* acknowledgement included.  (mark_failed, recover_stale_jobs, claim_job and
\* activate_version write the two rows in different orders and transactions.)
JobAndVersionAgree ==
    \A j \in Jobs :
        /\ status[j] = "NONE" <=> version[j] = "NONE"
        /\ status[j] = "PENDING" => version[j] \in {"PENDING"} \cup Published
        /\ status[j] = "PROCESSING" => version[j] \in {"PROCESSING"} \cup Published
        /\ status[j] = "COMPLETED" => version[j] \in Published
        /\ status[j] = "DEAD_LETTER" => version[j] \in {"FAILED"} \cup Published

\* The worker that owns a job still knows its retry count, although it read it
\* when it claimed the job: mark_failed writes an absolute count, so a count
\* that moved in between would be overwritten.
OwnerKnowsRetryCount ==
    \A w \in Workers, j \in Jobs :
        (pc[w] \in Busy /\ held[w] = j /\ Owns(w, j)) => attempt[w] = retry[j]

\* The retry budget ends exactly at the dead letter: a job that waits or runs
\* can be claimed again, so none is left PENDING beyond the reach of
\* CLAIM_JOB_SQL, and no dead letter had attempts left.
BudgetDecidesDeadLetter ==
    \A j \in Jobs :
        /\ status[j] = "DEAD_LETTER" => retry[j] = MaxRetries
        /\ (status[j] \in {"PENDING", "PROCESSING"} /\ MaxRetries > 0)
               => retry[j] < MaxRetries

\* Search serves at most one version of a document (uq_one_active_version).
OneActiveVersion ==
    \A i, j \in Jobs :
        (version[i] = "ACTIVE" /\ version[j] = "ACTIVE" /\ doc[i] = doc[j]) => i = j

\* A handler that reaches activate_version finds the version complete, whichever
\* attempts and zombies stored and embedded its chunks: VersionNotReadyError is
\* never raised and nothing incomplete is published.
ReadyToActivate ==
    \A w \in Workers :
        (pc[w] = "activate" /\ version[held[w]] = "PROCESSING") => Complete(held[w])

\* change_log has exactly one VERSION_SWITCH row for each version that was ever
\* published, however many attempts, zombies and lost acknowledgements it took.
OneSwitchPerPublication ==
    \A j \in Jobs : switches[j] = IF version[j] \in Published THEN 1 ELSE 0

\* What GET /documents/{id}/status reports of a version, processing_status of
\* sql/07_views.sql, never contradicts itself: the job is reported finished
\* exactly while its version is or was served, and given up exactly while it is
\* FAILED, although the two rows are written by different transactions.  (The
\* demo polls it for either outcome.)
StatusIsConsistent ==
    \A j \in Jobs :
        /\ Reported(j) = "COMPLETED" <=> version[j] \in Published
        /\ Reported(j) = "DEAD_LETTER" <=> version[j] = "FAILED"

\* No attempt is lost or counted twice: a job that is given back while its
\* lease runs has exactly one attempt more, and nothing else moves the count.
RetryCountsAttempts ==
    [][\A j \in Jobs :
          /\ (status[j] = "PROCESSING" /\ ~lapsed[j]
                  /\ status'[j] \in {"PENDING", "DEAD_LETTER"})
                => retry'[j] = retry[j] + 1
          /\ (status[j] # "NONE" /\ retry'[j] # retry[j])
                => retry'[j] = retry[j] + 1 /\ status[j] = "PROCESSING"]_vars

\* Once a job is given up its version is never published any more, not even by
\* a zombie that still runs its pipeline.
GivenUpStaysGivenUp ==
    [][\A j \in Jobs :
          status[j] = "DEAD_LETTER" =>
              /\ status'[j] = "DEAD_LETTER"
              /\ version'[j] = "ACTIVE" => version[j] = "ACTIVE"]_vars

\* Every uploaded job is completed or dead-lettered in the end, as long as the
\* environment's faults do not go on for ever.
EveryJobSettles ==
    \A j \in Jobs :
        status[j] # "NONE" ~> status[j] \in {"COMPLETED", "DEAD_LETTER"}

-----------------------------------------------------------------------------
\* What the invariants above rest on; their conjunction with these is inductive.

\* worker_id is set exactly while the job is PROCESSING.
OwnedWhileProcessing ==
    \A j \in Jobs : status[j] = "PROCESSING" <=> owner[j] \in Workers

\* A claimed job had attempts left, whatever MaxRetries is.
AttemptsLeftWhileProcessing ==
    \A j \in Jobs : status[j] = "PROCESSING" => retry[j] < MaxRetries

\* What search serves, or served, has all its chunks and embeddings.
PublishedIsComplete ==
    \A j \in Jobs : version[j] \in Published => Complete(j)

\* A worker runs the handler on an uploaded job, or holds none.
HoldsUploadedJob ==
    \A w \in Workers :
        IF pc[w] \in Busy THEN held[w] \in Jobs /\ version[held[w]] # "NONE"
                          ELSE held[w] = NoJob

\* How far a handler is tells what the tables hold, for good: chunks and
\* embeddings are never removed, and a published version stays published.
HandlerProgress ==
    \A w \in Workers :
        LET j == held[w] IN
        /\ pc[w] = "pending" => stored[j]
        /\ pc[w] = "embed" => stored[j] /\ Chunks \ embedded[j] \subseteq todo[w]
        /\ pc[w] = "activate" => Complete(j)
        /\ pc[w] = "finish" => version[j] \in Published

TableInv ==
    /\ TablesTypeOK
    /\ OwnedWhileProcessing
    /\ AttemptsLeftWhileProcessing
    /\ JobAndVersionAgree
    /\ BudgetDecidesDeadLetter
    /\ OneActiveVersion
    /\ OneSwitchPerPublication
    /\ PublishedIsComplete

IInv ==
    /\ TypeOK
    /\ TableInv
    /\ HoldsUploadedJob
    /\ HandlerProgress
    /\ OwnerKnowsRetryCount

-----------------------------------------------------------------------------
\* The daemon implements Publication; Deletion adds the deletes.
StageOf(s) ==
    CASE s = "NONE" -> "absent"
      [] s \in {"PENDING", "PROCESSING"} -> "waiting"
      [] s = "ACTIVE" -> "published"
      [] s = "ARCHIVED" -> "superseded"
      [] s = "FAILED" -> "rejected"

stageBar == [j \in Jobs |-> StageOf(version[j])]

Pub == INSTANCE Publication
          WITH Versions <- Jobs, Documents <- Docs, Nothing <- NoDoc,
               stage <- stageBar, of <- doc, deleted <- {}

\* Whatever workers, leases and retries do, versions are published, superseded
\* and rejected as Publication says.
ImplementsPublication == Pub!Spec

-----------------------------------------------------------------------------
\* docs/04_non_functional_requirements.md:52: no change_log entry is processed
\* by two workers at the same time.
OneWorkerPerJob ==
    \A v, w \in Workers :
        (pc[v] \in Handler /\ pc[w] \in Handler /\ held[v] = held[w]) => v = w

\* docs/08_team_implementation_guide.md:406: the newest version is ACTIVE and
\* the previous ones are ARCHIVED, among the versions that were published.
NewestPublishedIsActive ==
    \A i, j \in Jobs :
        (version[i] = "ACTIVE" /\ version[j] \in Published /\ doc[i] = doc[j])
            => number[j] <= number[i]

\* docs/developer_A/phase6_async_worker_daemon.md:49: a dead-lettered job has a
\* FAILED version.
DeadLetterMeansFailed ==
    \A j \in Jobs : status[j] = "DEAD_LETTER" => version[j] = "FAILED"
=============================================================================
