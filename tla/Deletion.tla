------------------------------ MODULE Deletion -------------------------------
(***************************************************************************)
(* _delete_document of src/api/routes.py against the workers of             *)
(* WorkerDaemon.  The delete is one transaction, but at READ COMMITTED each *)
(* of its statements sees what other transactions have committed by then,   *)
(* and it locks job rows only as it updates them.  So it is modelled        *)
(* statement by statement:                                                  *)
(*                                                                          *)
(*    mark    lock the document row, set its PENDING jobs to DEAD_LETTER    *)
(*    check   look for a PROCESSING job of the document: then roll back     *)
(*    commit  delete the document, which cascades to versions, chunks and   *)
(*            embeddings, and make all of it visible                        *)
(*                                                                          *)
(* The document row stays locked from mark to commit.  An upload to the     *)
(* document locks the same row, activate_version does, and the foreign keys *)
(* of chunks and embeddings need it: these wait.  Heartbeats, reports and   *)
(* the release of stale leases do not touch the document row.               *)
(*                                                                          *)
(* change_log has no foreign key: job rows outlive their document.  A       *)
(* deleted version has the status "NONE" of a row that does not exist.      *)
(***************************************************************************)
EXTENDS WorkerDaemon

VARIABLES
    deleting,  \* the document whose delete is in progress, or NoDoc
    checked,   \* the delete has found no PROCESSING job
    marked,    \* job rows the delete has set to DEAD_LETTER, not committed
    gone,      \* deleted documents
    slipped    \* jobs given back since their document's delete marked

deleteVars == <<deleting, checked, marked, gone>>
allVars == <<vars, deleteVars, slipped>>

DeletionTypeOK ==
    /\ TypeOK
    /\ deleting \in Docs \cup {NoDoc}
    /\ checked \in BOOLEAN
    /\ marked \in SUBSET Jobs
    /\ gone \in SUBSET Docs
    /\ slipped \in SUBSET Jobs

DeletionInit ==
    /\ Init
    /\ deleting = NoDoc
    /\ checked = FALSE
    /\ marked = {}
    /\ gone = {}
    /\ slipped = {}

JobsOf(d) == {j \in Jobs : status[j] # "NONE" /\ doc[j] = d}

\* The document row is locked by the delete.
DocLocked(d) == deleting = d

-----------------------------------------------------------------------------
\* SELECT ... FOR UPDATE, the version ids, and the UPDATE of the jobs.
MarkedNothing(d) == {}
Markable(d) == {j \in JobsOf(d) : status[j] = "PENDING"}

DeleteMarks(d) ==
    /\ deleting = NoDoc
    /\ d \notin gone
    /\ JobsOf(d) # {}
    /\ deleting' = d
    /\ marked' = Markable(d)
    /\ checked' = FALSE
    /\ UNCHANGED <<vars, gone, slipped>>

DeleteEnds ==
    /\ deleting' = NoDoc
    /\ marked' = {}
    /\ checked' = FALSE

\* The EXISTS query.
InProgressUnchecked(d) == FALSE
InProgress(d) == \E j \in JobsOf(d) : status[j] = "PROCESSING"

DeleteChecks ==
    /\ deleting # NoDoc
    /\ ~checked
    /\ ~InProgress(deleting)
    /\ checked' = TRUE
    /\ UNCHANGED <<vars, deleting, marked, gone, slipped>>

\* DocumentBusyError: everything is rolled back.
DeleteFindsBusy ==
    /\ deleting # NoDoc
    /\ ~checked
    /\ InProgress(deleting)
    /\ DeleteEnds
    /\ UNCHANGED <<vars, gone, slipped>>

\* A database error, or the deadlock of the cascade with a handler that holds
\* a version row and waits for the document row: everything is rolled back.
DeleteAborts ==
    /\ deleting # NoDoc
    /\ Fault
    /\ DeleteEnds
    /\ UNCHANGED <<tableVars, workerVars, gone, slipped>>

DeleteCommits ==
    /\ deleting # NoDoc
    /\ checked
    /\ LET old == JobsOf(deleting) IN
       /\ status' = [j \in Jobs |-> IF j \in marked THEN "DEAD_LETTER" ELSE status[j]]
       /\ version' = [j \in Jobs |-> IF j \in old THEN "NONE" ELSE version[j]]
       /\ stored' = [j \in Jobs |-> IF j \in old THEN FALSE ELSE stored[j]]
       /\ embedded' = [j \in Jobs |-> IF j \in old THEN {} ELSE embedded[j]]
    /\ gone' = gone \cup {deleting}
    /\ DeleteEnds
    /\ UNCHANGED <<owner, retry, lapsed, cooling, doc, number, switches,
                   workerVars, faults, slipped>>

-----------------------------------------------------------------------------
\* CLAIM_JOB_SQL skips the rows the delete has updated, which are locked.
UnmarkedUnlocked(w, j) == Cardinality(Older(j)) <= Cardinality(OthersClaiming(w))
Unmarked(w, j) ==
    /\ j \notin marked
    /\ Cardinality(Older(j) \ marked) <= Cardinality(OthersClaiming(w))

\* claim_job of a job whose version is gone: MARK_VERSION_PROCESSING_SQL and
\* LOCKED_VERSION_STATUS_SQL find no row, WorkerLeaseLostError rolls the claim
\* back, and the job is PENDING as before.
ClaimRaises(w, j) ==
    /\ pc[w] = "claim"
    /\ Unmarked(w, j)
    /\ Eligible(j)
    /\ version[j] = "NONE"
    /\ Poll(w)
    /\ UNCHANGED <<tableVars, faults>>

NothingUnmarked(w) ==
    /\ pc[w] = "claim"
    /\ \A j \in Jobs : Eligible(j) => j \in marked
    /\ Poll(w)
    /\ UNCHANGED <<tableVars, faults>>

\* The steps of a handler that need the document row, and wait for it: chunks
\* and embeddings that are inserted, not those that are there already, and
\* activate_version.
NeedsDocument(w) ==
    \/ pc[w] = "persist" /\ ~stored[held[w]]
    \/ pc[w] = "embed" /\ ~(NextBatch(todo[w]) \subseteq embedded[held[w]])
    \/ pc[w] = "activate" /\ version[held[w]] = "PROCESSING"

Waiting(w) == NeedsDocument(w) /\ DocLocked(doc[held[w]])

Proceed(w) == Persist(w) \/ EmbedBatch(w) \/ Activate(w)

RunBesideDelete(w) ==
    \/ Recover(w) \/ NothingUnmarked(w)
    \/ \E j \in Jobs : Unmarked(w, j) /\ (Take(w, j) \/ TakePublished(w, j))
    \/ \E j \in Jobs : ClaimRaises(w, j)
    \/ Load(w) \/ ReadPending(w) \/ AllBatchesSaved(w) \/ AlreadyActive(w) \/ Raise(w)
    \/ ~Waiting(w) /\ Proceed(w)
    \/ Finish(w) \/ Fail(w) \/ LeaseLost(w)

\* The fresh document of an upload without document_id is one never used.
UploadBesideDelete(j, d) == ~DocLocked(d) /\ d \notin gone /\ Upload(j, d)

\* What a step of the daemon adds to slipped.
GivenBack ==
    {j \in Jobs : /\ DocLocked(doc[j])
                  /\ status[j] = "PROCESSING"
                  /\ status'[j] = "PENDING"}

Beside(A) == A /\ slipped' = slipped \cup GivenBack /\ UNCHANGED deleteVars

DaemonStep ==
    \/ \E j \in Jobs, d \in Docs : UploadBesideDelete(j, d)
    \/ \E w \in Workers :
          \/ Start(w) \/ RunBesideDelete(w) \/ Heartbeat(w)
          \/ ClaimFails(w) \/ ReportFails(w) \/ Crash(w)
          \/ ~Waiting(w) /\ ActivateUnacknowledged(w)
          \/ \E j \in Jobs : Unmarked(w, j) /\ TakeUnacknowledged(w, j)
    \/ \E j \in Jobs : LeaseExpires(j) \/ LeaseOverrun(j) \/ Cool(j)

DeleteStep ==
    \/ \E d \in Docs : DeleteMarks(d)
    \/ DeleteChecks \/ DeleteFindsBusy \/ DeleteCommits \/ DeleteAborts

DeletionNext == Beside(DaemonStep) \/ DeleteStep

DeletionSpec == DeletionInit /\ [][DeletionNext]_allVars

\* As for the daemon; a delete that has begun runs to its end, and nobody has
\* to ask for one.
DeletionFairness ==
    /\ \A w \in Workers : /\ WF_allVars(Beside(Start(w)))
                          /\ WF_allVars(Beside(RunBesideDelete(w)))
    /\ \A j \in Jobs : /\ WF_allVars(Beside(LeaseExpires(j)))
                       /\ WF_allVars(Beside(Cool(j)))
    /\ WF_allVars(DeleteChecks \/ DeleteFindsBusy \/ DeleteCommits)

DeletionFairSpec == DeletionSpec /\ DeletionFairness

-----------------------------------------------------------------------------
\* Jobs left waiting or running although their version is deleted.
Orphans == {j \in Jobs : status[j] \in {"PENDING", "PROCESSING"} /\ version[j] = "NONE"}

\* The jobs a delete leaves behind alive are those that were given back between
\* its UPDATE and its commit, by mark_failed or by recover_stale_jobs; a job
\* that waited before the UPDATE, or ran throughout, is never orphaned.
OrphansSlippedThrough == Orphans \subseteq slipped

\* Nothing of a deleted document is left or comes back: a handler that was at
\* work on it, a retry or an expired lease brings none of its versions, chunks
\* or embeddings back, each of which they write by the version's id alone.
DeletedLeavesNothing ==
    \A j \in Jobs :
        doc[j] \in gone => version[j] = "NONE" /\ ~stored[j] /\ embedded[j] = {}

\* With deletes going on, every uploaded job still settles in the end, unless
\* some delete has orphaned a job.
SettledOrOrphaned ==
    \A j \in Jobs :
        status[j] # "NONE" ~>
            status[j] \in {"COMPLETED", "DEAD_LETTER"} \/ Orphans # {}

-----------------------------------------------------------------------------
\* With deletes the daemon still implements Publication: an upload whose version
\* row is gone has been withdrawn.
stageBesideDelete ==
    [j \in Jobs |-> IF status[j] # "NONE" /\ version[j] = "NONE" THEN "withdrawn"
                                                               ELSE StageOf(version[j])]

Catalogue == INSTANCE Publication
                WITH Versions <- Jobs, Documents <- Docs, Nothing <- NoDoc,
                     stage <- stageBesideDelete, of <- doc, deleted <- gone

\* The commit of a delete withdraws every version of the document in one step,
\* whatever workers and zombies do meanwhile; none of them is published again
\* and no version of another document is touched.
ImplementsPublicationWithDeletes == Catalogue!Spec

-----------------------------------------------------------------------------
\* What the invariants above rest on; their conjunction with these is inductive.

\* A delete in progress is one of a document that is there; only one that is in
\* progress has checked.
DeleteUnderWay ==
    IF deleting = NoDoc THEN ~checked ELSE deleting \notin gone /\ JobsOf(deleting) # {}

\* A version goes with its document only.
VersionGoneWithDocument ==
    \A j \in Jobs : (status[j] # "NONE" /\ version[j] = "NONE") => doc[j] \in gone

\* A job has a document from its upload on, and no version before.
UploadedHasDocument ==
    \A j \in Jobs :
        IF status[j] = "NONE" THEN doc[j] = NoDoc /\ version[j] = "NONE"
                              ELSE doc[j] \in Docs

\* The rows the delete has updated wait, as the claim skips them.
MarkedStillWait ==
    \A j \in marked : status[j] = "PENDING" /\ doc[j] = deleting

\* The jobs of the document that the delete will not end: those that wait have
\* slipped, and so have, once it has looked for them, those that run.
MissedHaveSlipped ==
    deleting # NoDoc =>
        \A j \in JobsOf(deleting) \ marked :
            /\ status[j] = "PENDING" => j \in slipped
            /\ checked /\ status[j] = "PROCESSING" => j \in slipped

DeletionIInv ==
    /\ DeletionTypeOK
    /\ DeleteUnderWay
    /\ UploadedHasDocument
    /\ VersionGoneWithDocument
    /\ MarkedStillWait
    /\ MissedHaveSlipped
    /\ OrphansSlippedThrough
    /\ DeletedLeavesNothing
    /\ OneActiveVersion

\* What a delete leaves of the daemon's invariants: job and version agree, and a
\* handler has got as far as its position says, until the version is deleted.
AgreeUntilDeleted ==
    \A j \in Jobs : version[j] # "NONE" =>
        /\ status[j] = "PENDING" => version[j] \in {"PENDING"} \cup Published
        /\ status[j] = "PROCESSING" => version[j] \in {"PROCESSING"} \cup Published
        /\ status[j] = "COMPLETED" => version[j] \in Published
        /\ status[j] = "DEAD_LETTER" => version[j] \in {"FAILED"} \cup Published

HoldsJob ==
    \A w \in Workers : pc[w] \in Busy => held[w] \in Jobs /\ status[held[w]] # "NONE"

ProgressUntilDeleted ==
    \A w \in Workers :
        LET j == held[w] IN
        (pc[w] \in Busy /\ version[j] # "NONE") =>
            /\ pc[w] = "pending" => stored[j]
            /\ pc[w] = "embed" => stored[j] /\ Chunks \ embedded[j] \subseteq todo[w]
            /\ pc[w] = "activate" => Complete(j)
            /\ pc[w] = "finish" => version[j] \in Published

HandlersIInv ==
    /\ DeletionIInv
    /\ OwnedWhileProcessing
    /\ AgreeUntilDeleted
    /\ PublishedIsComplete
    /\ HoldsJob
    /\ ProgressUntilDeleted
    /\ OwnerKnowsRetryCount

-----------------------------------------------------------------------------
\* docs/04_non_functional_requirements.md:37: unprocessed jobs are resumed from
\* the change log.  A job whose document is kept is completed or dead-lettered
\* in the end, whatever other documents are deleted.
KeptJobsSettle ==
    \A j \in Jobs :
        status[j] # "NONE" ~>
            status[j] \in {"COMPLETED", "DEAD_LETTER"} \/ doc[j] \in gone
=============================================================================
