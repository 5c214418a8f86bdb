----------------------- MODULE DeletionHandlers_proofs -----------------------
(***************************************************************************)
(* What the daemon promises beside deletes, for any uploads, documents,     *)
(* workers and chunks, any retry limit and number of faults.                *)
(*                                                                          *)
(* A delete takes versions, chunks and embeddings back, on which the proofs *)
(* of WorkerDaemon_proofs rest that they stay.  Here a row of the tables    *)
(* and a handler are bound to each other only until the version is gone:    *)
(* RowFits is what holds of an upload, WorkerFits what holds of a handler,  *)
(* Lasts and LeaseLasts are what no step takes back.                        *)
(*                                                                          *)
(* From these invariants every step of workers and deletes is a step of     *)
(* Publication, or shows nothing there.                                     *)
(***************************************************************************)
EXTENDS Deletion_proofs

USE DEF JobStatus, VersionStatus, Published

\* The two rows of an upload, as long as there are two.
RowFits(i) ==
    /\ status[i] = "PROCESSING" <=> owner[i] \in Workers
    /\ version[i] # "NONE" =>
          /\ status[i] = "PENDING" => version[i] \in {"PENDING"} \cup Published
          /\ status[i] = "PROCESSING" => version[i] \in {"PROCESSING"} \cup Published
          /\ status[i] = "COMPLETED" => version[i] \in Published
          /\ status[i] = "DEAD_LETTER" => version[i] \in {"FAILED"} \cup Published
    /\ version[i] \in Published => Complete(i)

\* What a step never takes back, unless it deletes the version.
Lasts(i) ==
    status[i] # "NONE" =>
        /\ status'[i] # "NONE"
        /\ version'[i] # "NONE" =>
              /\ version[i] # "NONE"
              /\ version[i] \in Published => version'[i] \in Published
              /\ stored[i] => stored'[i]
              /\ embedded[i] \subseteq embedded'[i]

\* Who owns a job after a step owned it before, with the same retry count.
LeaseLasts(v, i) ==
    Owns(v, i)' => Owns(v, i) /\ retry'[i] = retry[i]

\* A worker in the middle of run_once, its job and its place.
WorkerFits(v) ==
    pc[v] \in Busy =>
        /\ held[v] \in Jobs /\ status[held[v]] # "NONE"
        /\ Owns(v, held[v]) => attempt[v] = retry[held[v]]
        /\ version[held[v]] # "NONE" =>
              /\ pc[v] = "pending" => stored[held[v]]
              /\ pc[v] = "embed" =>
                    stored[held[v]] /\ Chunks \ embedded[held[v]] \subseteq todo[v]
              /\ pc[v] = "activate" => Complete(held[v])
              /\ pc[v] = "finish" => version[held[v]] \in Published

Fits == (\A i \in Jobs : RowFits(i)) /\ (\A v \in Workers : WorkerFits(v))

\* The named invariants say the same, upload by upload and worker by worker.
LEMMA HandlersSplit == HandlersIInv <=> DeletionIInv /\ Fits
<1>1. (\A i \in Jobs : RowFits(i))
         <=> OwnedWhileProcessing /\ AgreeUntilDeleted /\ PublishedIsComplete
  BY DEF RowFits, OwnedWhileProcessing, AgreeUntilDeleted, PublishedIsComplete
<1>2. (\A v \in Workers : WorkerFits(v))
         <=> HoldsJob /\ ProgressUntilDeleted /\ OwnerKnowsRetryCount
  BY DEF WorkerFits, HoldsJob, ProgressUntilDeleted, OwnerKnowsRetryCount
<1> QED
  BY <1>1, <1>2 DEF HandlersIInv, Fits

\* The same of the state after a step.
LEMMA HandlersSplitNext == HandlersIInv' <=> DeletionIInv' /\ Fits'
<1>1. (\A i \in Jobs : RowFits(i)')
         <=> OwnedWhileProcessing' /\ AgreeUntilDeleted' /\ PublishedIsComplete'
  BY DEF RowFits, OwnedWhileProcessing, AgreeUntilDeleted, PublishedIsComplete
<1>2. (\A v \in Workers : WorkerFits(v)')
         <=> HoldsJob' /\ ProgressUntilDeleted' /\ OwnerKnowsRetryCount'
  BY DEF WorkerFits, HoldsJob, ProgressUntilDeleted, OwnerKnowsRetryCount
<1> QED
  BY <1>1, <1>2 DEF HandlersIInv, Fits

-----------------------------------------------------------------------------
\* A step during which a worker does not move, and loses nothing it relies on.
LEMMA StillWorkerFits ==
  ASSUME TypeOK, NEW v \in Workers, WorkerFits(v),
         \A i \in Jobs : Lasts(i), \A i \in Jobs : LeaseLasts(v, i),
         \A i \in Jobs : RowFits(i)', TypeOK',
         pc'[v] = pc[v], held'[v] = held[v], attempt'[v] = attempt[v], todo'[v] = todo[v]
  PROVE  WorkerFits(v)'
<1> SUFFICES ASSUME pc[v] \in Busy PROVE WorkerFits(v)'
  BY DEF WorkerFits
<1> DEFINE j == held[v]
<1>1. j \in Jobs /\ status[j] # "NONE" /\ held'[v] = j
  BY DEF WorkerFits
<1>2. Lasts(j) /\ LeaseLasts(v, j)
  BY <1>1
<1>3. status'[j] # "NONE" /\ (Owns(v, j)' => attempt'[v] = retry'[j])
  BY <1>1, <1>2 DEF WorkerFits, Lasts, LeaseLasts
<1>4. ASSUME version'[j] # "NONE"
      PROVE  /\ pc[v] = "pending" => stored'[j]
             /\ pc[v] = "embed" => stored'[j] /\ Chunks \ embedded'[j] \subseteq todo[v]
             /\ pc[v] = "activate" => stored'[j] /\ Chunks \subseteq embedded'[j]
             /\ pc[v] = "finish" => version'[j] \in Published
  BY <1>1, <1>2, <1>4 DEF WorkerFits, Lasts, Complete
<1>5. embedded'[j] \in SUBSET Chunks
  BY <1>1 DEF TypeOK, TablesTypeOK
<1>6. version'[j] # "NONE" /\ pc[v] = "activate" => stored'[j] /\ embedded'[j] = Chunks
  BY <1>4, <1>5
<1>7. Owns(v, held[v])' => attempt'[v] = retry'[held'[v]]
  BY <1>1, <1>3
<1>8. version'[held'[v]] # "NONE" /\ pc[v] = "activate" => Complete(held[v])'
  BY <1>1, <1>6 DEF Complete
<1> QED
  BY <1>1, <1>3, <1>4, <1>7, <1>8 DEF WorkerFits

\* What a step of the daemon does to a row, whichever it is.
LEMMA DaemonStepRows ==
  ASSUME TypeOK, UploadedHasDocument, Fits, DaemonStep, NEW i \in Jobs
  PROVE  RowFits(i)' /\ Lasts(i)
<1> USE DEF TypeOK, TablesTypeOK, RowFits, Lasts, Complete
<1>1. RowFits(i) /\ NoWorker \notin Workers
  BY WorkersAssumption DEF Fits
<1>2. ASSUME UNCHANGED tableVars PROVE RowFits(i)' /\ Lasts(i)
  BY <1>1, <1>2 DEF tableVars
<1>3. ASSUME NEW j \in Jobs, NEW d \in Docs, UploadBesideDelete(j, d)
      PROVE  RowFits(i)' /\ Lasts(i)
  BY <1>1, <1>3 DEF UploadBesideDelete, Upload, Register
<1>4. ASSUME NEW w \in Workers, Recover(w) PROVE RowFits(i)' /\ Lasts(i)
  BY <1>1, <1>4 DEF Recover, RecoverTx, Stale, MovedOn
<1>5. ASSUME NEW w \in Workers, NEW j \in Jobs, Take(w, j) \/ TakeUnacknowledged(w, j)
      PROVE  RowFits(i)' /\ Lasts(i)
  BY <1>1, <1>5 DEF Take, TakeUnacknowledged, ClaimTx, Eligible
<1>6. ASSUME NEW w \in Workers, NEW j \in Jobs, TakePublished(w, j)
      PROVE  RowFits(i)' /\ Lasts(i)
  BY <1>1, <1>6 DEF TakePublished, CloseTx, Eligible, versionVars
<1>7. ASSUME NEW w \in Workers, Persist(w) PROVE RowFits(i)' /\ Lasts(i)
  BY <1>1, <1>7 DEF Persist, PersistTx, jobVars
<1>8. ASSUME NEW w \in Workers, EmbedBatch(w) PROVE RowFits(i)' /\ Lasts(i)
  <2>1. NextBatch(todo[w]) \in SUBSET Chunks
    BY DEF NextBatch
  <2> QED
    BY <1>1, <1>8, <2>1 DEF EmbedBatch, SaveBatchTx, jobVars
<1>9. ASSUME NEW w \in Workers, Activate(w) \/ ActivateUnacknowledged(w)
      PROVE  RowFits(i)' /\ Lasts(i)
  BY <1>1, <1>9 DEF Activate, ActivateUnacknowledged, ActivateTx, Activatable, Superseded,
                    ActiveOf, jobVars
<1>10. ASSUME NEW w \in Workers, Heartbeat(w) PROVE RowFits(i)' /\ Lasts(i)
  BY <1>1, <1>10 DEF Heartbeat, HeartbeatTx, versionVars
<1>11. ASSUME NEW w \in Workers, Finish(w) PROVE RowFits(i)' /\ Lasts(i)
  <2>1. version[held[w]] # "NONE" => version[held[w]] \in Published
    BY <1>11 DEF Fits, WorkerFits, Finish, Busy
  <2> QED
    BY <1>1, <1>11, <2>1 DEF Finish, CompleteTx, Owns, versionVars
<1>12. ASSUME NEW w \in Workers, Fail(w) PROVE RowFits(i)' /\ Lasts(i)
  BY <1>1, <1>12 DEF Fail, FailTx, Owns, AfterFailure, MovedOn
<1>13. ASSUME NEW j \in Jobs, LeaseExpires(j) \/ LeaseOverrun(j)
       PROVE  RowFits(i)' /\ Lasts(i)
  BY <1>1, <1>13 DEF LeaseExpires, LeaseOverrun, LeaseRunsOut, versionVars
<1>14. ASSUME NEW j \in Jobs, Cool(j) PROVE RowFits(i)' /\ Lasts(i)
  BY <1>1, <1>14 DEF Cool, BackoffEnds, versionVars
<1>15. ASSUME NEW w \in Workers,
              \/ Start(w) \/ NothingUnmarked(w) \/ (\E j \in Jobs : ClaimRaises(w, j))
              \/ Load(w) \/ ReadPending(w) \/ AllBatchesSaved(w) \/ AlreadyActive(w)
              \/ Raise(w) \/ LeaseLost(w) \/ ClaimFails(w) \/ ReportFails(w) \/ Crash(w)
       PROVE  RowFits(i)' /\ Lasts(i)
  <2>1. UNCHANGED tableVars
    BY <1>15 DEF Start, NothingUnmarked, ClaimRaises, Load, ReadPending, AllBatchesSaved,
                 AlreadyActive, Raise, LeaseLost, ClaimFails, ReportFails, Crash
  <2> QED
    BY <1>2, <2>1
<1> QED
  BY <1>3, <1>4, <1>5, <1>6, <1>7, <1>8, <1>9, <1>10, <1>11, <1>12, <1>13, <1>14, <1>15
     DEF DaemonStep, RunBesideDelete, Proceed

\* A worker gets a lease by its own claim only, and the retry count of a job
\* moves only as its lease ends.
LEMMA DaemonStepLeases ==
  ASSUME TypeOK, DaemonStep, NEW v \in Workers, NEW i \in Jobs
  PROVE  LeaseLasts(v, i) \/ \E j \in Jobs : Take(v, j) \/ TakeUnacknowledged(v, j)
<1> USE DEF TypeOK, TablesTypeOK, LeaseLasts, Owns
<1>1. NoWorker \notin Workers
  BY WorkersAssumption
<1>2. ASSUME UNCHANGED jobVars PROVE LeaseLasts(v, i)
  BY <1>2 DEF jobVars
<1>3. ASSUME NEW j \in Jobs, NEW d \in Docs, UploadBesideDelete(j, d)
      PROVE  LeaseLasts(v, i)
  BY <1>3 DEF UploadBesideDelete, Upload, Register
<1>4. ASSUME NEW w \in Workers, Recover(w) PROVE LeaseLasts(v, i)
  BY <1>4 DEF Recover, RecoverTx, Stale
<1>5. ASSUME NEW w \in Workers \ {v}, NEW j \in Jobs, Take(w, j) \/ TakeUnacknowledged(w, j)
      PROVE  LeaseLasts(v, i)
  BY <1>5 DEF Take, TakeUnacknowledged, ClaimTx
<1>6. ASSUME NEW w \in Workers, NEW j \in Jobs, TakePublished(w, j)
      PROVE  LeaseLasts(v, i)
  BY <1>6 DEF TakePublished, CloseTx
<1>7. ASSUME NEW w \in Workers, Heartbeat(w) \/ Finish(w) PROVE LeaseLasts(v, i)
  BY <1>7 DEF Heartbeat, HeartbeatTx, Finish, CompleteTx
<1>8. ASSUME NEW w \in Workers, Fail(w) PROVE LeaseLasts(v, i)
  BY <1>1, <1>8 DEF Fail, FailTx, AfterFailure
<1>9. ASSUME NEW j \in Jobs, LeaseExpires(j) \/ LeaseOverrun(j) \/ Cool(j)
      PROVE  LeaseLasts(v, i)
  BY <1>9 DEF LeaseExpires, LeaseOverrun, LeaseRunsOut, Cool, BackoffEnds
<1>10. ASSUME NEW w \in Workers,
             \/ Start(w) \/ NothingUnmarked(w) \/ (\E j \in Jobs : ClaimRaises(w, j))
             \/ Load(w) \/ ReadPending(w) \/ AllBatchesSaved(w) \/ AlreadyActive(w)
             \/ Raise(w) \/ LeaseLost(w) \/ ClaimFails(w) \/ ReportFails(w) \/ Crash(w)
             \/ Persist(w) \/ EmbedBatch(w) \/ Activate(w) \/ ActivateUnacknowledged(w)
      PROVE  LeaseLasts(v, i)
  <2>1. UNCHANGED jobVars
    BY <1>10 DEF Start, NothingUnmarked, ClaimRaises, Load, ReadPending, AllBatchesSaved,
                AlreadyActive, Raise, LeaseLost, ClaimFails, ReportFails, Crash, Persist,
                PersistTx, EmbedBatch, SaveBatchTx, Activate, ActivateUnacknowledged,
                ActivateTx, tableVars, jobVars
  <2> QED
    BY <1>2, <2>1
<1> QED
  BY <1>3, <1>4, <1>5, <1>6, <1>7, <1>8, <1>9, <1>10
     DEF DaemonStep, RunBesideDelete, Proceed

\* Whoever does not take the step stands still.
StandsStill(v) ==
    pc'[v] = pc[v] /\ held'[v] = held[v] /\ attempt'[v] = attempt[v] /\ todo'[v] = todo[v]

Acts(w) ==
    \/ Start(w) \/ RunBesideDelete(w)
    \/ ClaimFails(w) \/ ReportFails(w) \/ Crash(w) \/ ActivateUnacknowledged(w)
    \/ \E j \in Jobs : Take(w, j) \/ TakeUnacknowledged(w, j)

\* A step is one of some worker's, and the others have no part in it.
LEMMA OthersStandStill ==
  ASSUME TypeOK, DaemonStep, NEW v \in Workers, ~Acts(v)
  PROVE  StandsStill(v)
<1> USE DEF TypeOK, StandsStill
<1>1. ASSUME UNCHANGED workerVars PROVE StandsStill(v)
  BY <1>1 DEF workerVars
<1>2. ASSUME NEW w \in Workers \ {v}, Acts(w) PROVE StandsStill(v)
  BY <1>2 DEF Acts, Start, RunBesideDelete, Recover, NothingUnmarked, Take, TakePublished,
       ClaimRaises, Load, ReadPending, AllBatchesSaved, AlreadyActive, Raise, Proceed,
       Persist, EmbedBatch, Activate, Finish, Fail, LeaseLost, ClaimFails, ReportFails,
       Crash, ActivateUnacknowledged, TakeUnacknowledged, Goto, Leave, Poll
<1>3. ASSUME NEW w \in Workers, Heartbeat(w) PROVE StandsStill(v)
  BY <1>1, <1>3 DEF Heartbeat
<1> QED
  BY <1>1, <1>2, <1>3
     DEF DaemonStep, UploadBesideDelete, Upload, LeaseExpires, LeaseOverrun, Cool, Acts

\* A worker that moves on has done what its new place says.
LEMMA MovingWorkerFits ==
  ASSUME TypeOK, TypeOK', Fits, NEW v \in Workers, Acts(v),
         \A i \in Jobs : RowFits(i)' /\ Lasts(i),
         \A i \in Jobs :
            LeaseLasts(v, i) \/ \E j \in Jobs : Take(v, j) \/ TakeUnacknowledged(v, j)
  PROVE  WorkerFits(v)'
<1> USE DEF TypeOK, TablesTypeOK, Goto, Leave, Poll, Busy, Handler
<1> DEFINE j == held[v]
<1>1. WorkerFits(v)
  BY DEF Fits
<1>2. ASSUME pc'[v] \notin Busy PROVE WorkerFits(v)'
  BY <1>2 DEF WorkerFits
<1>3. CASE \/ Start(v) \/ Recover(v) \/ NothingUnmarked(v)
           \/ (\E k \in Jobs : \/ ClaimRaises(v, k) \/ TakePublished(v, k)
                               \/ TakeUnacknowledged(v, k))
           \/ Finish(v) \/ Fail(v) \/ LeaseLost(v)
           \/ ClaimFails(v) \/ ReportFails(v) \/ Crash(v)
  <2>1. pc'[v] \in {"off", "recover", "claim", "dead"}
    BY <1>3 DEF Start, Recover, NothingUnmarked, ClaimRaises, TakePublished, Finish, Fail,
                TakeUnacknowledged, LeaseLost, ClaimFails, ReportFails, Crash
  <2> QED
    BY <1>2, <2>1
<1>4. ASSUME NEW k \in Jobs, Take(v, k) PROVE WorkerFits(v)'
  BY <1>4 DEF Take, ClaimTx, Snapshot, WorkerFits
<1>5. ASSUME pc[v] \in Handler, UNCHANGED <<held, attempt>>,
             version'[j] # "NONE" =>
                 /\ pc'[v] = "pending" => stored'[j]
                 /\ pc'[v] = "embed" => stored'[j] /\ Chunks \ embedded'[j] \subseteq todo'[v]
                 /\ pc'[v] = "activate" => Complete(j)'
                 /\ pc'[v] = "finish" => version'[j] \in Published
      PROVE  WorkerFits(v)'
  <2>1. j \in Jobs /\ status[j] # "NONE" /\ (Owns(v, j) => attempt[v] = retry[j])
    BY <1>1, <1>5 DEF WorkerFits
  <2>2. ~\E k \in Jobs : Take(v, k) \/ TakeUnacknowledged(v, k)
    BY <1>5 DEF Take, TakeUnacknowledged
  <2>3. status'[j] # "NONE" /\ (Owns(v, j)' => attempt'[v] = retry'[j])
    BY <1>5, <2>1, <2>2 DEF Lasts, LeaseLasts
  <2> QED
    BY <1>5, <2>1, <2>3 DEF WorkerFits, Complete
<1>6. CASE Load(v)
  <2>1. pc'[v] = "persist" \/ (pc'[v] = "activate" /\ version[j] = "ACTIVE")
    BY <1>6 DEF Load
  <2>2. j \in Jobs /\ (version[j] = "ACTIVE" => Complete(j))
    BY <1>1, <1>6 DEF Load, WorkerFits, Fits, RowFits
  <2> QED
    BY <1>5, <1>6, <2>1, <2>2 DEF Load, tableVars, Complete
<1>7. CASE Persist(v)
  <2>1. pc'[v] = "pending" /\ stored'[j]
    BY <1>1, <1>7 DEF Persist, PersistTx, WorkerFits
  <2> QED
    BY <1>5, <1>7, <2>1 DEF Persist
<1>8. CASE ReadPending(v)
  <2>1. pc'[v] = "embed" /\ todo'[v] = PendingChunks(j)
    BY <1>8 DEF ReadPending
  <2>2. version[j] # "NONE" => stored[j]
    BY <1>1, <1>8 DEF ReadPending, WorkerFits
  <2> QED
    BY <1>5, <1>8, <2>1, <2>2 DEF ReadPending, PendingChunks, tableVars
<1>9. CASE EmbedBatch(v)
  <2> DEFINE batch == NextBatch(todo[v])
  <2>1. pc'[v] = "embed" /\ todo'[v] = todo[v] \ batch /\ j \in Jobs
    BY <1>1, <1>9 DEF EmbedBatch, WorkerFits
  <2>2. /\ version'[j] = version[j] /\ version[j] # "NONE"
        /\ stored'[j] = stored[j] /\ embedded'[j] = embedded[j] \cup batch
    BY <1>9, <2>1 DEF EmbedBatch, SaveBatchTx
  <2>3. stored[j] /\ Chunks \ embedded[j] \subseteq todo[v]
    BY <1>1, <1>9, <2>2 DEF EmbedBatch, WorkerFits
  <2> HIDE DEF batch
  <2> QED
    BY <1>5, <1>9, <2>1, <2>2, <2>3 DEF EmbedBatch
<1>10. CASE AllBatchesSaved(v)
  <2>1. pc'[v] = "activate" /\ todo[v] = {} /\ j \in Jobs
    BY <1>1, <1>10 DEF AllBatchesSaved, WorkerFits
  <2>2. version[j] # "NONE" => stored[j] /\ Chunks \subseteq embedded[j]
    BY <1>1, <1>10, <2>1 DEF AllBatchesSaved, WorkerFits
  <2>3. embedded[j] \in SUBSET Chunks
    BY <2>1
  <2> QED
    BY <1>5, <1>10, <2>1, <2>2, <2>3 DEF AllBatchesSaved, Complete, tableVars
<1>11. CASE Activate(v) \/ ActivateUnacknowledged(v)
  <2>1. pc'[v] \in {"finish", "fail"} /\ version'[j] = "ACTIVE"
    BY <1>1, <1>11 DEF Activate, ActivateUnacknowledged, ActivateTx, WorkerFits
  <2> QED
    BY <1>5, <1>11, <2>1 DEF Activate, ActivateUnacknowledged
<1>12. CASE AlreadyActive(v)
  <2>1. pc'[v] = "finish" /\ version'[j] = "ACTIVE"
    BY <1>12 DEF AlreadyActive, tableVars, versionVars
  <2> QED
    BY <1>5, <1>12, <2>1 DEF AlreadyActive
<1>13. CASE Raise(v)
  <2>1. pc'[v] = "fail"
    BY <1>13 DEF Raise
  <2> QED
    BY <1>5, <1>13, <2>1 DEF Raise
<1> QED
  BY <1>3, <1>4, <1>6, <1>7, <1>8, <1>9, <1>10, <1>11, <1>12, <1>13
     DEF Acts, RunBesideDelete, Proceed

-----------------------------------------------------------------------------
\* The daemon's steps keep rows and handlers together.
LEMMA DaemonStepFits ==
  ASSUME DeletionIInv, DeletionIInv', Fits, DaemonStep
  PROVE  Fits'
<1>1. TypeOK /\ TypeOK' /\ UploadedHasDocument
  BY DEF DeletionIInv, DeletionTypeOK
<1>2. \A i \in Jobs : RowFits(i)' /\ Lasts(i)
  BY <1>1, DaemonStepRows
<1>3. ASSUME NEW v \in Workers PROVE WorkerFits(v)'
  <2>1. \A i \in Jobs :
           LeaseLasts(v, i) \/ \E j \in Jobs : Take(v, j) \/ TakeUnacknowledged(v, j)
    BY <1>1, DaemonStepLeases
  <2>2. CASE Acts(v)
    BY <1>1, <1>2, <2>1, <2>2, MovingWorkerFits
  <2>3. CASE ~Acts(v) /\ \A i \in Jobs : LeaseLasts(v, i)
    BY <1>1, <1>2, <2>3, OthersStandStill, StillWorkerFits DEF Fits, StandsStill
  <2> QED
    BY <2>1, <2>2, <2>3 DEF Acts
<1> QED
  BY <1>2, <1>3 DEF Fits

\* A delete loosens rows from handlers only where it takes the version.
LEMMA DeleteStepFits ==
  ASSUME DeletionIInv, Fits, DeleteStep
  PROVE  Fits'
<1> USE DEF DeletionIInv, DeletionTypeOK, TypeOK, TablesTypeOK
<1>1. CASE DeleteCommits
  <2>1. \A i \in Jobs : RowFits(i)'
    BY <1>1 DEF DeleteCommits, MarkedStillWait, JobsOf, Fits, RowFits, Complete
  <2>2. ASSUME NEW v \in Workers PROVE WorkerFits(v)'
    <3>1. WorkerFits(v) /\ StandsStill(v)
      BY <1>1 DEF Fits, StandsStill, DeleteCommits, workerVars
    <3>2. ASSUME NEW i \in Jobs, status[i] # "NONE"
          PROVE  /\ status'[i] # "NONE"
                 /\ Owns(v, i)' => Owns(v, i) /\ retry'[i] = retry[i]
                 /\ version'[i] # "NONE" =>
                       /\ version'[i] = version[i]
                       /\ stored'[i] = stored[i] /\ embedded'[i] = embedded[i]
      BY <1>1, <3>2 DEF DeleteCommits, MarkedStillWait, Owns
    <3> QED
      BY <3>1, <3>2 DEF StandsStill, WorkerFits, Complete
  <2> QED
    BY <2>1, <2>2 DEF Fits
<1>2. ASSUME UNCHANGED <<tableVars, workerVars>> PROVE Fits'
  BY <1>2 DEF Fits, RowFits, WorkerFits, Complete, Owns, tableVars, workerVars
<1> QED
  BY <1>1, <1>2 DEF DeleteStep, DeleteMarks, DeleteChecks, DeleteFindsBusy, DeleteAborts, vars

-----------------------------------------------------------------------------
\* HandlersIInv is an inductive invariant of workers and deletes.
THEOREM HandlersInvariance == DeletionSpec => []HandlersIInv
<1>1. DeletionInit => Fits
  <2> SUFFICES ASSUME DeletionInit PROVE Fits
    OBVIOUS
  <2>1. \A i \in Jobs : RowFits(i)
    BY WorkersAssumption DEF DeletionInit, Init, TablesInit, RowFits
  <2>2. \A v \in Workers : WorkerFits(v)
    BY DEF DeletionInit, Init, WorkerFits, Busy, Handler
  <2> QED
    BY <2>1, <2>2 DEF Fits
<1>2. DeletionIInv /\ DeletionIInv' /\ Fits /\ [DeletionNext]_allVars => Fits'
  <2> SUFFICES ASSUME DeletionIInv, DeletionIInv', Fits, [DeletionNext]_allVars
               PROVE  Fits'
    OBVIOUS
  <2>1. CASE UNCHANGED allVars
    BY <2>1 DEF allVars, vars, tableVars, workerVars, Fits, RowFits, WorkerFits, Complete,
                Owns
  <2> QED
    BY <2>1, DaemonStepFits, DeleteStepFits DEF DeletionNext, Beside
<1>3. DeletionSpec => []Fits
  BY <1>1, <1>2, DeletionInvariance, PTL DEF DeletionSpec
<1> QED
  BY <1>3, DeletionInvariance, HandlersSplit, PTL

\* A handler that reaches activate_version finds the version complete or gone.
THEOREM ReadyBesideDeletes == DeletionSpec => []ReadyToActivate
<1>1. HandlersIInv => ReadyToActivate
  BY DEF HandlersIInv, ProgressUntilDeleted, ReadyToActivate, Busy, Handler
<1> QED
  BY <1>1, HandlersInvariance, PTL

\* A failed attempt is counted exactly once, also while a delete is about: it
\* ends no job that runs, and no retry count moves but by a report.
THEOREM AttemptsCountedBesideDeletes == DeletionSpec => RetryCountsAttempts
<1> DEFINE Counted(j) ==
      /\ (status[j] = "PROCESSING" /\ ~lapsed[j] /\ status'[j] \in {"PENDING", "DEAD_LETTER"})
            => retry'[j] = retry[j] + 1
      /\ (status[j] # "NONE" /\ retry'[j] # retry[j])
            => retry'[j] = retry[j] + 1 /\ status[j] = "PROCESSING"
<1>1. ASSUME HandlersIInv, [DeletionNext]_allVars, NEW i \in Jobs
      PROVE  Counted(i)
  <2> USE DEF TypeOK, TablesTypeOK
  <2>1. TypeOK /\ MarkedStillWait /\ Fits
    BY <1>1, HandlersSplit DEF DeletionIInv, DeletionTypeOK
  <2>2. ASSUME status' = status \/ (status'[i] # "PENDING" /\ status'[i] # "DEAD_LETTER"),
               retry' = retry
        PROVE  Counted(i)
    BY <2>2
  <2>3. ASSUME NEW j \in Jobs, NEW d \in Docs, Upload(j, d) PROVE Counted(i)
    BY <2>1, <2>3 DEF Upload, Register
  <2>4. ASSUME NEW w \in Workers, Recover(w) PROVE Counted(i)
    BY <2>1, <2>4 DEF Recover, RecoverTx, Stale
  <2>5. ASSUME NEW w \in Workers, NEW j \in Jobs,
               Take(w, j) \/ TakeUnacknowledged(w, j) \/ TakePublished(w, j)
        PROVE  Counted(i)
    BY <2>1, <2>5 DEF Take, TakeUnacknowledged, TakePublished, ClaimTx, CloseTx
  <2>6. ASSUME NEW w \in Workers, Finish(w) PROVE Counted(i)
    BY <2>1, <2>6 DEF Finish, CompleteTx
  <2>7. ASSUME NEW w \in Workers, Fail(w) PROVE Counted(i)
    <3>1. attempt[w] = retry[held[w]] /\ held[w] \in Jobs
      BY <2>1, <2>7 DEF Fits, WorkerFits, Fail, FailTx, Busy
    <3> QED
      BY <2>1, <2>7, <3>1 DEF Fail, FailTx, Owns
  <2>8. CASE DeleteCommits
    BY <2>1, <2>8 DEF DeleteCommits, MarkedStillWait
  <2>9. ASSUME UNCHANGED <<status, retry>> PROVE Counted(i)
    BY <2>9
  <2>10. CASE DaemonStep
    <3>1. ASSUME NEW w \in Workers,
                 \/ Start(w) \/ NothingUnmarked(w) \/ (\E j \in Jobs : ClaimRaises(w, j))
                 \/ Load(w) \/ ReadPending(w) \/ AllBatchesSaved(w) \/ AlreadyActive(w)
                 \/ Raise(w) \/ LeaseLost(w) \/ ClaimFails(w) \/ ReportFails(w) \/ Crash(w)
                 \/ Persist(w) \/ EmbedBatch(w) \/ Activate(w) \/ ActivateUnacknowledged(w)
                 \/ Heartbeat(w)
          PROVE  UNCHANGED <<status, retry>>
      BY <3>1 DEF Start, NothingUnmarked, ClaimRaises, Load, ReadPending, AllBatchesSaved,
                  AlreadyActive, Raise, LeaseLost, ClaimFails, ReportFails, Crash, Persist,
                  PersistTx, EmbedBatch, SaveBatchTx, Activate, ActivateUnacknowledged,
                  ActivateTx, Heartbeat, HeartbeatTx, tableVars, jobVars
    <3>2. ASSUME NEW j \in Jobs, LeaseExpires(j) \/ LeaseOverrun(j) \/ Cool(j)
          PROVE  UNCHANGED <<status, retry>>
      BY <3>2 DEF LeaseExpires, LeaseOverrun, LeaseRunsOut, Cool, BackoffEnds
    <3> QED
      BY <2>10, <2>3, <2>4, <2>5, <2>6, <2>7, <2>9, <3>1, <3>2
         DEF DaemonStep, UploadBesideDelete, RunBesideDelete, Proceed
  <2>11. CASE DeleteStep \/ UNCHANGED allVars
    BY <2>8, <2>9, <2>11
       DEF DeleteStep, DeleteMarks, DeleteChecks, DeleteFindsBusy, DeleteAborts, allVars,
           vars, tableVars, jobVars
  <2> QED
    BY <1>1, <2>10, <2>11 DEF DeletionNext, Beside
<1>2. HandlersIInv /\ [DeletionNext]_allVars => [\A j \in Jobs : Counted(j)]_vars
  BY <1>1
<1> QED
  BY <1>2, HandlersInvariance, PTL DEF DeletionSpec, RetryCountsAttempts

\* A dead letter stays one, and no handler that still runs publishes its version.
THEOREM GivenUpBesideDeletes == DeletionSpec => GivenUpStaysGivenUp
<1> DEFINE Stays(j) ==
      status[j] = "DEAD_LETTER" =>
          /\ status'[j] = "DEAD_LETTER"
          /\ version'[j] = "ACTIVE" => version[j] = "ACTIVE"
<1>1. ASSUME HandlersIInv, [DeletionNext]_allVars, NEW i \in Jobs
      PROVE  Stays(i)
  <2> USE DEF TypeOK, TablesTypeOK
  <2>1. DeletionIInv /\ TypeOK /\ UploadedHasDocument /\ MarkedStillWait /\ RowFits(i)
    BY <1>1, HandlersSplit DEF DeletionIInv, DeletionTypeOK, Fits
  <2>2. CASE DaemonStep
    <3>1. JobEffect(i)
      BY <2>1, <2>2, DaemonStepEffects
    <3>2. version'[i] = "ACTIVE" => version[i] \in {"ACTIVE", "PROCESSING"}
      BY <2>1, <2>2, DaemonStepActives DEF ActiveEffect
    <3> QED
      BY <2>1, <3>1, <3>2 DEF JobEffect, RowFits
  <2>3. CASE DeleteCommits
    BY <2>1, <2>3 DEF DeleteCommits, MarkedStillWait
  <2>4. CASE DeleteStep \/ UNCHANGED allVars
    BY <2>3, <2>4
       DEF DeleteStep, DeleteMarks, DeleteChecks, DeleteFindsBusy, DeleteAborts, allVars,
           vars, tableVars, versionVars, jobVars
  <2> QED
    BY <1>1, <2>2, <2>4 DEF DeletionNext, Beside
<1>2. HandlersIInv /\ [DeletionNext]_allVars => [\A j \in Jobs : Stays(j)]_vars
  BY <1>1
<1> QED
  BY <1>2, HandlersInvariance, PTL DEF DeletionSpec, GivenUpStaysGivenUp

-----------------------------------------------------------------------------
\* Workers beside deletes implement Publication with its Withdraw: DeletionIInv
\* says that a version whose row is gone belongs to a deleted document, and that
\* the delete that commits is of a document nobody deleted before.
Unmoved == UNCHANGED <<stageBesideDelete, doc, gone>>

\* A version that is published or rejected is a step of Publication.
LEMMA SettlingIsAStep ==
  ASSUME NEW j \in Jobs, Catalogue!Publish(j) \/ Catalogue!Reject(j)
  PROVE  Catalogue!Next
BY DEF Catalogue!Next, Catalogue!Settle

\* What a worker does is a step of Publication on one upload, or a stutter.
LEMMA WorkerStepRefines ==
  ASSUME DeletionIInv, HoldsJob, Beside(DaemonStep), NEW w \in Workers,
         \/ Start(w) \/ RunBesideDelete(w) \/ Heartbeat(w)
         \/ ClaimFails(w) \/ ReportFails(w) \/ Crash(w)
         \/ ActivateUnacknowledged(w)
         \/ \E j \in Jobs : TakeUnacknowledged(w, j)
  PROVE  Catalogue!Next \/ Unmoved
<1> USE DEF DeletionIInv, DeletionTypeOK, TypeOK, TablesTypeOK, UploadedHasDocument,
            stageBesideDelete, StageOf, Unmoved
<1>1. gone' = gone
  BY DEF Beside, deleteVars
<1>2. ASSUME UNCHANGED <<status, version, doc>> PROVE Unmoved
  BY <1>1, <1>2
<1>3. CASE Recover(w)
  BY <1>1, <1>3 DEF Recover, RecoverTx, Stale, MovedOn
<1>4. ASSUME NEW j \in Jobs, Take(w, j) \/ TakeUnacknowledged(w, j) \/ TakePublished(w, j)
      PROVE  Unmoved
  BY <1>1, <1>4
     DEF Take, TakeUnacknowledged, TakePublished, ClaimTx, CloseTx, versionVars
<1>5. CASE Activate(w) \/ ActivateUnacknowledged(w)
  <2>1. held[w] \in Jobs /\ ActivateTx(held[w])
    BY <1>5 DEF Activate, ActivateUnacknowledged, HoldsJob, Busy, Handler
  <2>2. ASSUME NEW j \in Jobs, ActivateTx(j) PROVE Catalogue!Publish(j)
    BY <1>1, <2>2 DEF ActivateTx, Activatable, Superseded, ActiveOf, jobVars,
                      Catalogue!Publish
  <2> QED
    BY <2>1, <2>2, SettlingIsAStep
<1>6. CASE Fail(w)
  <2>1. held[w] \in Jobs /\ FailTx(w, held[w], attempt[w] + 1)
    BY <1>6 DEF Fail, HoldsJob, Busy
  <2>2. ASSUME NEW j \in Jobs, NEW n, FailTx(w, j, n) PROVE Catalogue!Reject(j) \/ Unmoved
    <3>1. CASE version[j] = "PROCESSING" /\ Exhausted(n)
      BY <1>1, <2>2, <3>1 DEF FailTx, Owns, MovedOn, Catalogue!Reject
    <3>2. CASE ~(version[j] = "PROCESSING" /\ Exhausted(n))
      BY <1>1, <2>2, <3>2 DEF FailTx, Owns, AfterFailure, MovedOn
    <3> QED
      BY <3>1, <3>2
  <2> QED
    BY <2>1, <2>2, SettlingIsAStep
<1>7. CASE Finish(w)
  BY <1>1, <1>7 DEF Finish, CompleteTx, Owns, versionVars
<1>8. CASE \/ Persist(w) \/ EmbedBatch(w) \/ Heartbeat(w)
           \/ Start(w) \/ NothingUnmarked(w) \/ (\E j \in Jobs : ClaimRaises(w, j))
           \/ Load(w) \/ ReadPending(w) \/ AllBatchesSaved(w) \/ AlreadyActive(w)
           \/ Raise(w) \/ LeaseLost(w) \/ ClaimFails(w) \/ ReportFails(w) \/ Crash(w)
  <2>1. UNCHANGED <<status, version, doc>>
    BY <1>8
       DEF Persist, PersistTx, EmbedBatch, SaveBatchTx, Heartbeat, HeartbeatTx, Start,
           NothingUnmarked, ClaimRaises, Load, ReadPending, AllBatchesSaved, AlreadyActive,
           Raise, LeaseLost, ClaimFails, ReportFails, Crash, tableVars, jobVars, versionVars
  <2> QED
    BY <1>2, <2>1
<1> QED
  BY <1>3, <1>4, <1>5, <1>6, <1>7, <1>8 DEF RunBesideDelete, Proceed

\* So is an upload beside a delete: it is no upload to a deleted document.
LEMMA UploadRefines ==
  ASSUME DeletionIInv, Beside(DaemonStep), NEW j \in Jobs, NEW d \in Docs,
         UploadBesideDelete(j, d)
  PROVE  Catalogue!Next
<1>1. /\ Register(j, d) /\ d \notin gone /\ gone' = gone
      /\ status \in [Jobs -> JobStatus] /\ version \in [Jobs -> VersionStatus]
      /\ doc \in [Jobs -> Docs \cup {NoDoc}]
      /\ status[j] = "NONE" => version[j] = "NONE"
  BY DEF DeletionIInv, DeletionTypeOK, TypeOK, TablesTypeOK, UploadedHasDocument, Beside,
         deleteVars, UploadBesideDelete, Upload
<1>2. /\ stageBesideDelete[j] = "absent"
      /\ stageBesideDelete' = [stageBesideDelete EXCEPT ![j] = "waiting"]
  BY <1>1 DEF Register, stageBesideDelete, StageOf
<1>3. Catalogue!Submit(j, d)
  BY <1>1, <1>2 DEF Register, Catalogue!Submit
<1> QED
  BY <1>3 DEF Catalogue!Next

\* The commit of a delete withdraws the document; nothing before it shows.
LEMMA DeleteStepRefines ==
  ASSUME DeletionIInv, DeleteStep
  PROVE  Catalogue!Next \/ Unmoved
<1> USE DEF DeletionIInv, DeletionTypeOK, TypeOK, TablesTypeOK
<1>1. CASE DeleteCommits
  <2>1. deleting \in Docs \ gone /\ JobsOf(deleting) # {}
    BY <1>1 DEF DeleteCommits, DeleteUnderWay
  <2>2. \A i \in Jobs : status'[i] = "NONE" <=> status[i] = "NONE"
    BY <1>1 DEF DeleteCommits, MarkedStillWait
  <2>3. \A i \in Jobs : i \in JobsOf(deleting) <=> doc[i] = deleting
    BY <2>1, DocsAssumption DEF JobsOf, UploadedHasDocument
  <2>4. \A i \in Jobs : stageBesideDelete'[i] =
                          IF doc[i] = deleting THEN "withdrawn" ELSE stageBesideDelete[i]
    BY <1>1, <2>2, <2>3 DEF DeleteCommits, stageBesideDelete, UploadedHasDocument
  <2>5. stageBesideDelete' =
           [i \in Jobs |-> IF doc[i] = deleting THEN "withdrawn" ELSE stageBesideDelete[i]]
    BY <2>4 DEF stageBesideDelete
  <2>6. gone' = gone \cup {deleting} /\ doc' = doc /\ \E i \in Jobs : doc[i] = deleting
    BY <1>1, <2>1 DEF DeleteCommits, JobsOf
  <2>7. Catalogue!Withdraw(deleting)
    BY <2>1, <2>5, <2>6 DEF Catalogue!Withdraw
  <2> QED
    BY <2>1, <2>7 DEF Catalogue!Next
<1>2. ASSUME UNCHANGED <<tableVars, gone>> PROVE Unmoved
  BY <1>2 DEF Unmoved, stageBesideDelete, tableVars
<1> QED
  BY <1>1, <1>2 DEF DeleteStep, DeleteMarks, DeleteChecks, DeleteFindsBusy, DeleteAborts, vars

\* Together: every step is a step of Publication or a stutter.
LEMMA DeletionStepRefines ==
  ASSUME HandlersIInv, [DeletionNext]_allVars
  PROVE  [Catalogue!Next]_(Catalogue!pubVars)
<1>1. DeletionIInv /\ HoldsJob
  BY DEF HandlersIInv
<1>2. CASE Beside(DaemonStep)
  <2>1. ASSUME NEW j \in Jobs, LeaseExpires(j) \/ LeaseOverrun(j) \/ Cool(j)
        PROVE  Unmoved
    BY <1>2, <2>1
       DEF LeaseExpires, LeaseOverrun, LeaseRunsOut, Cool, BackoffEnds, versionVars,
           Unmoved, stageBesideDelete, Beside, deleteVars
  <2> QED
    BY <1>1, <1>2, <2>1, WorkerStepRefines, UploadRefines
       DEF Beside, DaemonStep, Unmoved, Catalogue!pubVars
<1>3. CASE UNCHANGED allVars
  BY <1>3 DEF allVars, vars, tableVars, deleteVars, stageBesideDelete, Catalogue!pubVars
<1> QED
  BY <1>1, <1>2, <1>3, DeleteStepRefines
     DEF DeletionNext, Unmoved, Catalogue!pubVars

\* Workers, leases, retries and deletes together implement Publication: a delete
\* is one withdrawal of all versions of its document, and nothing brings them,
\* or a new version of it, back.
THEOREM RefinementBesideDeletes == DeletionSpec => ImplementsPublicationWithDeletes
<1>1. DeletionInit => Catalogue!Init
  BY DEF DeletionInit, Init, TablesInit, stageBesideDelete, StageOf, Catalogue!Init
<1>2. HandlersIInv /\ [DeletionNext]_allVars => [Catalogue!Next]_(Catalogue!pubVars)
  BY DeletionStepRefines
<1> QED
  BY <1>1, <1>2, HandlersInvariance, PTL
     DEF DeletionSpec, ImplementsPublicationWithDeletes, Catalogue!Spec

-----------------------------------------------------------------------------
\* A document that search finds does not drop out of it, neither as a version
\* takes the place of another nor by anything that fails, until it is deleted.
ServedUntilDeleted ==
    [][\A d \in Docs : ActiveOf(d) # {} => (ActiveOf(d) # {})' \/ d \in gone']_allVars

\* What search serves is what Publication calls published, and there a version
\* stops being published only as another one of its document is, or with it.
THEOREM ServiceHasNoGap == DeletionSpec => ServedUntilDeleted
<1> DEFINE Served(d) == \E i \in Jobs : doc[i] = d /\ stageBesideDelete[i] = "published"
<1>1. ASSUME DeletionIInv, NEW d PROVE ActiveOf(d) # {} <=> Served(d)
  BY <1>1 DEF DeletionIInv, DeletionTypeOK, TypeOK, TablesTypeOK, ActiveOf,
              stageBesideDelete, StageOf
<1>2. ASSUME DeletionIInv', NEW d PROVE (ActiveOf(d) # {})' <=> Served(d)'
  BY <1>2 DEF DeletionIInv, DeletionTypeOK, TypeOK, TablesTypeOK, ActiveOf,
              stageBesideDelete, StageOf
<1>3. ASSUME [Catalogue!Next]_(Catalogue!pubVars), doc \in [Jobs -> Docs \cup {NoDoc}],
             NEW k \in Jobs, NEW d \in Docs,
             doc[k] = d, stageBesideDelete[k] = "published"
      PROVE  Served(d)' \/ d \in gone'
  <2> HIDE DEF Served
  <2>1. ASSUME doc'[k] = d, stageBesideDelete'[k] = "published"
        PROVE  Served(d)'
    BY <2>1 DEF Served
  <2>2. ASSUME NEW v \in Jobs, Catalogue!Publish(v) PROVE Served(d)'
    <3>1. CASE doc[v] = d
      BY <2>2, <3>1 DEF Catalogue!Publish, Served
    <3>2. CASE doc[v] # d
      BY <1>3, <2>1, <2>2, <3>2 DEF Catalogue!Publish
    <3> QED
      BY <3>1, <3>2
  <2>3. ASSUME NEW v \in Jobs, Catalogue!Reject(v) PROVE Served(d)'
    BY <1>3, <2>1, <2>3 DEF Catalogue!Reject
  <2>4. ASSUME NEW v \in Jobs, NEW e \in Docs, Catalogue!Submit(v, e)
        PROVE  Served(d)'
    BY <1>3, <2>1, <2>4 DEF Catalogue!Submit
  <2>5. ASSUME NEW e \in Docs, Catalogue!Withdraw(e)
        PROVE  Served(d)' \/ d \in gone'
    BY <1>3, <2>1, <2>5 DEF Catalogue!Withdraw
  <2>6. CASE UNCHANGED Catalogue!pubVars
    BY <1>3, <2>1, <2>6 DEF Catalogue!pubVars
  <2> QED
    BY <1>3, <2>2, <2>3, <2>4, <2>5, <2>6 DEF Catalogue!Next, Catalogue!Settle
<1>4. ASSUME HandlersIInv, DeletionIInv', [DeletionNext]_allVars,
             NEW d \in Docs, ActiveOf(d) # {}
      PROVE  (ActiveOf(d) # {})' \/ d \in gone'
  <2>1. DeletionIInv /\ doc \in [Jobs -> Docs \cup {NoDoc}]
    BY <1>4 DEF HandlersIInv, DeletionIInv, DeletionTypeOK, TypeOK, TablesTypeOK
  <2>2. PICK k \in Jobs : doc[k] = d /\ stageBesideDelete[k] = "published"
    BY <1>1, <1>4, <2>1
  <2>3. [Catalogue!Next]_(Catalogue!pubVars)
    BY <1>4, DeletionStepRefines
  <2> QED
    BY <1>2, <1>3, <1>4, <2>1, <2>2, <2>3
<1>5. HandlersIInv /\ DeletionIInv' /\ [DeletionNext]_allVars
         => [\A d \in Docs : ActiveOf(d) # {} => (ActiveOf(d) # {})' \/ d \in gone']_allVars
  BY <1>4
<1> QED
  BY <1>5, HandlersInvariance, DeletionInvariance, PTL DEF DeletionSpec, ServedUntilDeleted
=============================================================================
