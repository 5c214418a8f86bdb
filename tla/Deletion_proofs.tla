--------------------------- MODULE Deletion_proofs ---------------------------
(***************************************************************************)
(* Proofs about Deletion for any uploads, documents, workers and chunks,    *)
(* any retry limit and number of faults.                                    *)
(*                                                                          *)
(* What a step of the daemon does to a job beside a delete is summed up in  *)
(* JobEffect; the invariants of the delete follow from that, whichever      *)
(* step it was.                                                             *)
(***************************************************************************)
EXTENDS Deletion, FiniteSetTheorems, TLAPS

USE DEF JobStatus, VersionStatus, Published

\* Beside a delete, a job's rows appear only for a document that is neither
\* deleted nor being deleted, a marked job is not claimed, and a version that
\* was deleted stays so.
JobEffect(j) ==
    /\ status'[j] # status[j] =>
          \/ /\ status[j] = "NONE" /\ status'[j] = "PENDING"
             /\ version'[j] = "PENDING"
             /\ doc'[j] \in Docs \ (gone \cup {deleting})
          \/ status[j] = "PENDING" /\ status'[j] # "NONE" /\ j \notin marked
          \/ status[j] = "PROCESSING" /\ status'[j] # "NONE"
    /\ status'[j] = status[j] \/ status[j] # "NONE" => doc'[j] = doc[j]
    /\ (status[j] = "NONE" /\ status'[j] = "NONE") => version'[j] = version[j]
    /\ (status[j] # "NONE" /\ version[j] = "NONE") =>
          version'[j] = "NONE" /\ stored'[j] = stored[j] /\ embedded'[j] = embedded[j]
    /\ (version[j] # "NONE" => version'[j] # "NONE")

\* At most one version becomes ACTIVE, and then the only one of its document.
ActiveEffect ==
    \/ \A i \in Jobs : version'[i] = "ACTIVE" => version[i] = "ACTIVE"
    \/ \E k \in Jobs :
          /\ version[k] = "PROCESSING"
          /\ \A i \in Jobs \ {k} :
                version'[i] = "ACTIVE" => version[i] = "ACTIVE" /\ doc[i] # doc[k]

\* The environment's faults stay within their bound.
LEMMA FaultBound ==
  ASSUME TypeOK, Fault
  PROVE  faults' \in 0 .. MaxFaults
BY MaxFaultsAssumption DEF TypeOK, Fault

\* An upload keeps the types.
LEMMA UploadTypes ==
  ASSUME TypeOK, NEW j \in Jobs, NEW d \in Docs, Upload(j, d)
  PROVE  TypeOK'
BY DEF TypeOK, TablesTypeOK, Upload, Register, workerVars

\* So does a worker, whatever it does.
LEMMA WorkerTypes ==
  ASSUME TypeOK, NEW w \in Workers,
         \/ Start(w) \/ RunBesideDelete(w) \/ Heartbeat(w)
         \/ ClaimFails(w) \/ ReportFails(w) \/ Crash(w)
         \/ ActivateUnacknowledged(w)
         \/ \E j \in Jobs : TakeUnacknowledged(w, j)
  PROVE  TypeOK'
<1> USE DEF TypeOK, TablesTypeOK, Goto, Leave, Poll, Steps, Busy, Handler
<1>1. CASE Start(w) \/ ClaimFails(w) \/ ReportFails(w) \/ Crash(w)
  BY <1>1, FaultBound DEF Start, ClaimFails, ReportFails, Crash, tableVars
<1>2. CASE Recover(w)
  <2>1. version' \in [Jobs -> VersionStatus]
    BY <1>2 DEF Recover, RecoverTx, MovedOn
  <2>2. /\ status' \in [Jobs -> JobStatus]
        /\ owner' \in [Jobs -> Workers \cup {NoWorker}]
        /\ lapsed' \in [Jobs -> BOOLEAN]
    BY <1>2 DEF Recover, RecoverTx
  <2>3. \A j \in Jobs : (retry[j] > 0) \in BOOLEAN
    OBVIOUS
  <2>4. cooling' \in [Jobs -> BOOLEAN]
    BY <1>2, <2>3 DEF Recover, RecoverTx
  <2>5. pc' \in [Workers -> Steps] /\ UNCHANGED <<held, attempt, todo, faults>>
    BY <1>2 DEF Recover
  <2>6. UNCHANGED <<retry, doc, number, stored, embedded, switches>>
    BY <1>2 DEF Recover, RecoverTx
  <2> QED
    BY <2>1, <2>2, <2>4, <2>5, <2>6
<1>3. CASE NothingUnmarked(w) \/ LeaseLost(w) \/ (\E j \in Jobs : ClaimRaises(w, j))
  BY <1>3 DEF NothingUnmarked, ClaimRaises, LeaseLost, tableVars
<1>4. ASSUME NEW j \in Jobs, Take(w, j) \/ TakeUnacknowledged(w, j)
      PROVE  TypeOK'
  <2>1. ClaimTx(w, j)
    BY <1>4 DEF Take, TakeUnacknowledged
  <2>2. /\ status' \in [Jobs -> JobStatus] /\ version' \in [Jobs -> VersionStatus]
        /\ owner' \in [Jobs -> Workers \cup {NoWorker}] /\ lapsed' \in [Jobs -> BOOLEAN]
        /\ UNCHANGED <<retry, cooling, doc, number, stored, embedded, switches>>
    BY <2>1 DEF ClaimTx
  <2>3. /\ pc' \in [Workers -> Steps] /\ held' \in [Workers -> Jobs \cup {NoJob}]
        /\ attempt' \in [Workers -> Nat] /\ todo' \in [Workers -> SUBSET Chunks]
    BY <1>4 DEF Take, TakeUnacknowledged, Snapshot
  <2>4. faults' \in 0 .. MaxFaults
    BY <1>4, FaultBound DEF Take, TakeUnacknowledged
  <2> QED
    BY <2>2, <2>3, <2>4
<1>5. ASSUME NEW j \in Jobs, TakePublished(w, j)
      PROVE  TypeOK'
  BY <1>5 DEF TakePublished, CloseTx, versionVars
<1>6. CASE Load(w) \/ AllBatchesSaved(w) \/ AlreadyActive(w) \/ Raise(w)
  BY <1>6 DEF Load, AllBatchesSaved, AlreadyActive, Raise, tableVars
<1>7. CASE ReadPending(w)
  BY <1>7 DEF ReadPending, PendingChunks, tableVars
<1>8. CASE Persist(w)
  BY <1>8 DEF Persist, PersistTx, jobVars
<1>9. CASE EmbedBatch(w)
  <2>1. NextBatch(todo[w]) \in SUBSET Chunks
    BY DEF NextBatch
  <2> QED
    BY <1>9, <2>1 DEF EmbedBatch, SaveBatchTx, jobVars
<1>10. CASE Activate(w) \/ ActivateUnacknowledged(w)
  BY <1>10, FaultBound DEF Activate, ActivateUnacknowledged, ActivateTx, jobVars
<1>11. CASE Heartbeat(w)
  BY <1>11 DEF Heartbeat, HeartbeatTx, workerVars, versionVars
<1>12. CASE Finish(w)
  BY <1>12 DEF Finish, CompleteTx, versionVars
<1>13. CASE Fail(w)
  <2>1. version' \in [Jobs -> VersionStatus]
    BY <1>13 DEF Fail, FailTx, MovedOn
  <2>2. status' \in [Jobs -> JobStatus]
    BY <1>13 DEF Fail, FailTx, AfterFailure
  <2>3. cooling' \in [Jobs -> BOOLEAN]
    BY <1>13 DEF Fail, FailTx
  <2>4. attempt[w] + 1 \in Nat
    OBVIOUS
  <2>5. retry' \in [Jobs -> Nat]
    BY <1>13, <2>4 DEF Fail, FailTx
  <2>6. owner' \in [Jobs -> Workers \cup {NoWorker}] /\ lapsed' \in [Jobs -> BOOLEAN]
    BY <1>13 DEF Fail, FailTx
  <2>7. UNCHANGED <<doc, number, stored, embedded, switches, faults>>
    BY <1>13 DEF Fail, FailTx
  <2>8. /\ pc' \in [Workers -> Steps] /\ held' \in [Workers -> Jobs \cup {NoJob}]
        /\ attempt' \in [Workers -> Nat] /\ todo' \in [Workers -> SUBSET Chunks]
    BY <1>13 DEF Fail
  <2> QED
    BY <2>1, <2>2, <2>5, <2>3, <2>6, <2>7, <2>8
<1> QED
  BY <1>1, <1>2, <1>3, <1>4, <1>5, <1>6, <1>7, <1>8, <1>9, <1>10, <1>11, <1>12, <1>13
     DEF RunBesideDelete, Proceed

\* So does the passing of time.
LEMMA TimeTypes ==
  ASSUME TypeOK, NEW j \in Jobs, LeaseExpires(j) \/ LeaseOverrun(j) \/ Cool(j)
  PROVE  TypeOK'
BY FaultBound
   DEF TypeOK, TablesTypeOK, LeaseExpires, LeaseOverrun, Cool, LeaseRunsOut, BackoffEnds,
       versionVars, workerVars

\* Together: every step of the daemon beside a delete does.
LEMMA DaemonStepTypes ==
  ASSUME TypeOK, DaemonStep
  PROVE  TypeOK'
BY UploadTypes, WorkerTypes, TimeTypes DEF DaemonStep, UploadBesideDelete

\* Every step of the daemon beside a delete has one of the effects on each job.
LEMMA DaemonStepEffects ==
  ASSUME TypeOK, UploadedHasDocument, DaemonStep, NEW i \in Jobs
  PROVE  JobEffect(i)
<1> USE DEF TypeOK, TablesTypeOK, JobEffect
<1>1. ASSUME UNCHANGED tableVars PROVE JobEffect(i)
  BY <1>1 DEF tableVars
<1>2. ASSUME NEW j \in Jobs, NEW d \in Docs, UploadBesideDelete(j, d)
      PROVE  JobEffect(i)
  BY <1>2 DEF UploadBesideDelete, DocLocked, Upload, Register
<1>3. ASSUME NEW w \in Workers, Recover(w) PROVE JobEffect(i)
  BY <1>3 DEF Recover, RecoverTx, Stale, MovedOn
<1>4. ASSUME NEW w \in Workers, NEW j \in Jobs, Unmarked(w, j),
             Take(w, j) \/ TakeUnacknowledged(w, j)
      PROVE  JobEffect(i)
  BY <1>4 DEF Unmarked, Take, TakeUnacknowledged, ClaimTx, Eligible
<1>5. ASSUME NEW w \in Workers, NEW j \in Jobs, Unmarked(w, j), TakePublished(w, j)
      PROVE  JobEffect(i)
  BY <1>5 DEF Unmarked, TakePublished, CloseTx, Eligible, versionVars
<1>6. ASSUME NEW w \in Workers, Persist(w) PROVE JobEffect(i)
  BY <1>6 DEF Persist, PersistTx, jobVars
<1>7. ASSUME NEW w \in Workers, EmbedBatch(w) PROVE JobEffect(i)
  BY <1>7 DEF EmbedBatch, SaveBatchTx, jobVars
<1>8. ASSUME NEW w \in Workers, Activate(w) \/ ActivateUnacknowledged(w)
      PROVE  JobEffect(i)
  BY <1>8 DEF Activate, ActivateUnacknowledged, ActivateTx, Activatable, Superseded,
              ActiveOf, jobVars, UploadedHasDocument
<1>9. ASSUME NEW w \in Workers, Heartbeat(w) PROVE JobEffect(i)
  BY <1>9 DEF Heartbeat, HeartbeatTx, versionVars
<1>10. ASSUME NEW w \in Workers, Finish(w) PROVE JobEffect(i)
  BY <1>10 DEF Finish, CompleteTx, Owns, versionVars
<1>11. ASSUME NEW w \in Workers, Fail(w) PROVE JobEffect(i)
  BY <1>11 DEF Fail, FailTx, Owns, AfterFailure, MovedOn
<1>12. ASSUME NEW j \in Jobs, LeaseExpires(j) \/ LeaseOverrun(j) PROVE JobEffect(i)
  BY <1>12 DEF LeaseExpires, LeaseOverrun, LeaseRunsOut, versionVars
<1>13. ASSUME NEW j \in Jobs, Cool(j) PROVE JobEffect(i)
  BY <1>13 DEF Cool, BackoffEnds, versionVars
<1>14. ASSUME NEW w \in Workers,
              \/ Start(w) \/ NothingUnmarked(w) \/ (\E j \in Jobs : ClaimRaises(w, j))
              \/ Load(w) \/ ReadPending(w) \/ AllBatchesSaved(w) \/ AlreadyActive(w)
              \/ Raise(w) \/ LeaseLost(w) \/ ClaimFails(w) \/ ReportFails(w) \/ Crash(w)
       PROVE  JobEffect(i)
  <2>1. UNCHANGED tableVars
    BY <1>14 DEF Start, NothingUnmarked, ClaimRaises, Load, ReadPending, AllBatchesSaved,
                 AlreadyActive, Raise, LeaseLost, ClaimFails, ReportFails, Crash
  <2> QED
    BY <1>1, <2>1
<1> QED
  BY <1>2, <1>3, <1>4, <1>5, <1>6, <1>7, <1>8, <1>9, <1>10, <1>11, <1>12, <1>13, <1>14
     DEF DaemonStep, RunBesideDelete, Proceed

\* Every step of the daemon makes at most one version ACTIVE, in the place of
\* the one of its document that was.
LEMMA DaemonStepActives ==
  ASSUME TypeOK, DaemonStep
  PROVE  ActiveEffect
<1> USE DEF TypeOK, TablesTypeOK, ActiveEffect
<1>1. ASSUME NEW w \in Workers, Activate(w) \/ ActivateUnacknowledged(w)
      PROVE  ActiveEffect
  BY <1>1 DEF Activate, ActivateUnacknowledged, ActivateTx, Activatable, Superseded,
              ActiveOf
<1>2. ASSUME NEW w \in Workers, Recover(w) PROVE ActiveEffect
  BY <1>2 DEF Recover, RecoverTx, MovedOn
<1>3. ASSUME NEW w \in Workers, Fail(w) PROVE ActiveEffect
  BY <1>3 DEF Fail, FailTx, MovedOn
<1>4. ASSUME NEW w \in Workers, NEW j \in Jobs, Take(w, j) \/ TakeUnacknowledged(w, j)
      PROVE  ActiveEffect
  BY <1>4 DEF Take, TakeUnacknowledged, ClaimTx
<1>5. ASSUME NEW j \in Jobs, NEW d \in Docs, UploadBesideDelete(j, d)
      PROVE  ActiveEffect
  BY <1>5 DEF UploadBesideDelete, Upload, Register
<1>6. ASSUME NEW w \in Workers,
             \/ Start(w) \/ NothingUnmarked(w)
             \/ (\E j \in Jobs : ClaimRaises(w, j) \/ TakePublished(w, j))
             \/ Load(w) \/ ReadPending(w) \/ AllBatchesSaved(w) \/ AlreadyActive(w)
             \/ Raise(w) \/ LeaseLost(w) \/ ClaimFails(w) \/ ReportFails(w) \/ Crash(w)
             \/ Persist(w) \/ EmbedBatch(w) \/ Heartbeat(w) \/ Finish(w)
       PROVE  version' = version
    BY <1>6 DEF Start, NothingUnmarked, ClaimRaises, TakePublished, CloseTx, Load,
                ReadPending, AllBatchesSaved, AlreadyActive, Raise, LeaseLost, ClaimFails,
                ReportFails, Crash, Persist, PersistTx, EmbedBatch, SaveBatchTx,
                Heartbeat, HeartbeatTx, Finish, CompleteTx, tableVars, versionVars
<1>7. ASSUME NEW j \in Jobs, LeaseExpires(j) \/ LeaseOverrun(j) \/ Cool(j)
      PROVE  version' = version
  BY <1>7 DEF LeaseExpires, LeaseOverrun, LeaseRunsOut, Cool, BackoffEnds, versionVars
<1> QED
  BY <1>1, <1>2, <1>3, <1>4, <1>5, <1>6, <1>7 DEF DaemonStep, RunBesideDelete, Proceed

-----------------------------------------------------------------------------
\* What the steps of the daemon do beside a delete.
LEMMA BesideKeeps ==
  ASSUME DeletionIInv, Beside(DaemonStep)
  PROVE  DeletionIInv'
<1> USE DEF DeletionIInv
<1>1. \A j \in Jobs : JobEffect(j)
  BY DaemonStepEffects DEF DeletionTypeOK, Beside
<1>2. UNCHANGED deleteVars /\ slipped' = slipped \cup GivenBack
  BY DEF Beside
<1>3. DeletionTypeOK' /\ DeleteUnderWay'
  <2>1. DeletionTypeOK'
    BY DaemonStepTypes DEF DeletionTypeOK, deleteVars, GivenBack, Beside
  <2>2. DeleteUnderWay'
    BY <1>1, <1>2 DEF DeleteUnderWay, JobsOf, JobEffect, deleteVars
  <2> QED
    BY <2>1, <2>2
<1>4. UploadedHasDocument' /\ VersionGoneWithDocument'
  BY <1>1, <1>2 DEF UploadedHasDocument, VersionGoneWithDocument, JobEffect, deleteVars
<1>5. MarkedStillWait'
  BY <1>1, <1>2 DEF DeletionTypeOK, MarkedStillWait, JobEffect, deleteVars
<1>6. MissedHaveSlipped'
  BY <1>1, <1>2
     DEF MissedHaveSlipped, JobsOf, JobEffect, deleteVars, GivenBack, DocLocked
<1>7. OrphansSlippedThrough'
  BY <1>1, <1>2 DEF OrphansSlippedThrough, Orphans, JobEffect
<1>8. DeletedLeavesNothing'
  BY <1>1, <1>2, DocsAssumption
     DEF DeletionTypeOK, DeletedLeavesNothing, UploadedHasDocument, JobEffect, deleteVars
<1>9. OneActiveVersion'
  <2>1. ActiveEffect
    BY DaemonStepActives DEF DeletionTypeOK, Beside
  <2>2. \A j \in Jobs : version[j] # "NONE" => doc'[j] = doc[j]
    BY <1>1 DEF UploadedHasDocument, JobEffect
  <2> QED
    BY <2>1, <2>2 DEF ActiveEffect, OneActiveVersion
<1> QED
  BY <1>3, <1>4, <1>5, <1>6, <1>7, <1>8, <1>9

\* The steps of a delete before its commit, and its rollbacks, move no table.
LEMMA DeleteWaitsKeeps ==
  ASSUME DeletionIInv,
         \/ \E d \in Docs : DeleteMarks(d)
         \/ DeleteChecks \/ DeleteFindsBusy \/ DeleteAborts
  PROVE  DeletionIInv'
<1> USE DEF DeletionIInv, DeletionTypeOK, DeleteEnds
<1>1. UNCHANGED <<tableVars, workerVars>> /\ UNCHANGED <<gone, slipped>>
  BY DEF DeleteMarks, DeleteChecks, DeleteFindsBusy, DeleteAborts, vars
<1>2. faults' \in 0 .. MaxFaults
  BY FaultBound DEF DeleteMarks, DeleteChecks, DeleteFindsBusy, DeleteAborts, vars, TypeOK
<1>3. TypeOK'
  BY <1>1, <1>2 DEF TypeOK, TablesTypeOK, tableVars, workerVars
<1>4. /\ UploadedHasDocument' /\ VersionGoneWithDocument' /\ OrphansSlippedThrough'
      /\ DeletedLeavesNothing' /\ OneActiveVersion'
  BY <1>1 DEF UploadedHasDocument, VersionGoneWithDocument, OrphansSlippedThrough, Orphans,
              DeletedLeavesNothing, OneActiveVersion, tableVars
<1>5. ASSUME NEW d \in Docs, DeleteMarks(d)
      PROVE  DeletionIInv'
  <2>1. DeletionTypeOK' /\ DeleteUnderWay'
    BY <1>1, <1>3, <1>5, DocsAssumption
       DEF DeleteMarks, DeleteUnderWay, Markable, JobsOf, tableVars
  <2>2. MarkedStillWait' /\ MissedHaveSlipped'
    BY <1>1, <1>5 DEF DeleteMarks, Markable, JobsOf, MarkedStillWait, MissedHaveSlipped,
                      tableVars
  <2> QED
    BY <1>4, <2>1, <2>2
<1>6. CASE DeleteChecks
  <2>1. DeletionTypeOK' /\ DeleteUnderWay'
    BY <1>1, <1>3, <1>6 DEF DeleteChecks, DeleteUnderWay, JobsOf, tableVars
  <2>2. MarkedStillWait' /\ MissedHaveSlipped'
    BY <1>1, <1>6 DEF DeleteChecks, InProgress, JobsOf, MarkedStillWait,
                      MissedHaveSlipped, tableVars
  <2> QED
    BY <1>4, <2>1, <2>2
<1>7. CASE DeleteFindsBusy \/ DeleteAborts
  <2>1. DeletionTypeOK' /\ DeleteUnderWay'
    BY <1>3, <1>7 DEF DeleteFindsBusy, DeleteAborts, DeleteUnderWay
  <2>2. MarkedStillWait' /\ MissedHaveSlipped'
    BY <1>7 DEF DeleteFindsBusy, DeleteAborts, MarkedStillWait, MissedHaveSlipped
  <2> QED
    BY <1>4, <2>1, <2>2
<1> QED
  BY <1>5, <1>6, <1>7

\* The commit of a delete: what it leaves alive has slipped.
LEMMA DeleteCommitsKeeps ==
  ASSUME DeletionIInv, DeleteCommits
  PROVE  DeletionIInv'
<1> USE DEF DeletionIInv, DeletionTypeOK, DeleteEnds, DeleteCommits
<1>1. TypeOK'
  BY DEF TypeOK, TablesTypeOK, workerVars
<1>2. DeletionTypeOK' /\ DeleteUnderWay'
  BY <1>1 DEF DeleteUnderWay
<1>3. UploadedHasDocument' /\ VersionGoneWithDocument'
  BY DEF UploadedHasDocument, VersionGoneWithDocument, MarkedStillWait, JobsOf
<1>4. MarkedStillWait' /\ MissedHaveSlipped'
  BY DEF MarkedStillWait, MissedHaveSlipped
<1>5. OrphansSlippedThrough'
  BY DEF OrphansSlippedThrough, Orphans, MissedHaveSlipped
<1>6. DeletedLeavesNothing'
  BY DEF DeletedLeavesNothing, UploadedHasDocument, JobsOf
<1>7. OneActiveVersion'
  BY DEF OneActiveVersion
<1> QED
  BY <1>2, <1>3, <1>4, <1>5, <1>6, <1>7

-----------------------------------------------------------------------------
\* DeletionIInv is an inductive invariant of workers and deletes.
THEOREM DeletionInvariance == DeletionSpec => []DeletionIInv
<1>1. DeletionInit => DeletionIInv
  <2> SUFFICES ASSUME DeletionInit PROVE DeletionIInv
    OBVIOUS
  <2> USE DEF DeletionInit, Init, TablesInit
  <2>1. TypeOK
    BY MaxFaultsAssumption DEF TypeOK, TablesTypeOK, Steps
  <2>2. /\ DeleteUnderWay /\ UploadedHasDocument /\ VersionGoneWithDocument
        /\ MarkedStillWait /\ MissedHaveSlipped
    BY DEF DeleteUnderWay, UploadedHasDocument, VersionGoneWithDocument, MarkedStillWait,
           MissedHaveSlipped
  <2>3. OrphansSlippedThrough
    BY DEF OrphansSlippedThrough, Orphans
  <2>4. DeletedLeavesNothing /\ OneActiveVersion
    BY DEF DeletedLeavesNothing, OneActiveVersion
  <2> QED
    BY <2>1, <2>2, <2>3, <2>4 DEF DeletionIInv, DeletionTypeOK
<1>2. DeletionIInv /\ [DeletionNext]_allVars => DeletionIInv'
  <2> SUFFICES ASSUME DeletionIInv, [DeletionNext]_allVars PROVE DeletionIInv'
    OBVIOUS
  <2>1. CASE UNCHANGED allVars
    BY <2>1
       DEF allVars, vars, tableVars, workerVars, deleteVars, DeletionIInv,
           DeletionTypeOK, TypeOK, TablesTypeOK, DeleteUnderWay, UploadedHasDocument,
           VersionGoneWithDocument, MarkedStillWait, MissedHaveSlipped, JobsOf,
           OrphansSlippedThrough, Orphans, DeletedLeavesNothing, OneActiveVersion
  <2> QED
    BY <2>1, BesideKeeps, DeleteWaitsKeeps, DeleteCommitsKeeps DEF DeletionNext, DeleteStep
<1> QED
  BY <1>1, <1>2, PTL DEF DeletionSpec

\* Type correctness with deletes.
THEOREM DeletionTypeCorrect == DeletionSpec => []DeletionTypeOK
BY DeletionInvariance, PTL DEF DeletionIInv

\* The jobs left behind without a version are those given back under a delete.
THEOREM OrphansHaveSlipped == DeletionSpec => []OrphansSlippedThrough
BY DeletionInvariance, PTL DEF DeletionIInv

\* Nothing of a deleted document is left, or written after its delete.
THEOREM DeletedForGood == DeletionSpec => []DeletedLeavesNothing
BY DeletionInvariance, PTL DEF DeletionIInv

\* Search serves at most one version of a document, also with deletes.
THEOREM OneActiveBesideDeletes == DeletionSpec => []OneActiveVersion
BY DeletionInvariance, PTL DEF DeletionIInv
=============================================================================
