------------------------- MODULE WorkerDaemon_proofs -------------------------
(***************************************************************************)
(* Proofs about WorkerDaemon for every set of uploads, documents, workers   *)
(* and chunks, every retry limit and every number of faults.                *)
(*                                                                          *)
(* The argument has two layers.  Each transaction of ChangeLog keeps the    *)
(* table invariant, loses nothing a handler relies on (Grows) and takes no  *)
(* lease over (LeasesKept).  Each action of a worker is one transaction and *)
(* a move of that worker, so the worker invariants follow from these three  *)
(* facts and from the move.                                                 *)
(***************************************************************************)
EXTENDS WorkerDaemon, FiniteSetTheorems, TLAPS

\* What a step never takes back from the tables.
Grows ==
    \A j \in Jobs :
        /\ version[j] # "NONE" => version'[j] # "NONE"
        /\ version[j] \in Published => version'[j] \in Published
        /\ stored[j] => stored'[j]
        /\ embedded[j] \subseteq embedded'[j]

\* Who owns a job after a step owned it before, with the same retry count.
LeasesKept(W) ==
    \A v \in W, j \in Jobs :
        (status'[j] = "PROCESSING" /\ owner'[j] = v) =>
            status[j] = "PROCESSING" /\ owner[j] = v /\ retry'[j] = retry[j]

\* What every transaction guarantees, W being the workers it gives no lease.
Sound(W) == TableInv' /\ Grows /\ LeasesKept(W)

USE DEF JobStatus, VersionStatus, Published

-----------------------------------------------------------------------------
\* The initial tables.
LEMMA TablesInitSound == TablesInit => TableInv
  BY WorkersAssumption
     DEF TablesInit, TableInv, TablesTypeOK, OwnedWhileProcessing,
         AttemptsLeftWhileProcessing, JobAndVersionAgree, BudgetDecidesDeadLetter,
         OneActiveVersion, OneSwitchPerPublication, PublishedIsComplete

\* An upload adds a PENDING pair of rows and touches no other row.
LEMMA RegisterSound ==
  ASSUME TableInv, NEW j \in Jobs, NEW d \in Docs, Register(j, d)
  PROVE  Sound(Workers)
<1>1. TablesTypeOK'
  <2>1. Cardinality(Jobs) \in Nat
    BY JobsAssumption, FS_CardinalityType
  <2> QED
    BY <2>1 DEF TableInv, TablesTypeOK, Register
<1>2. OwnedWhileProcessing' /\ AttemptsLeftWhileProcessing'
  BY DEF TableInv, TablesTypeOK, Register, OwnedWhileProcessing,
         AttemptsLeftWhileProcessing
<1>3. JobAndVersionAgree' /\ BudgetDecidesDeadLetter'
  BY DEF TableInv, TablesTypeOK, Register, JobAndVersionAgree, BudgetDecidesDeadLetter
<1>4. OneActiveVersion'
  BY DEF TableInv, TablesTypeOK, Register, OneActiveVersion
<1>5. OneSwitchPerPublication' /\ PublishedIsComplete'
  BY DEF TableInv, TablesTypeOK, Register, OneSwitchPerPublication, PublishedIsComplete,
         JobAndVersionAgree, Complete
<1>6. Grows
  BY DEF TableInv, TablesTypeOK, Register, Grows, JobAndVersionAgree
<1>7. LeasesKept(Workers)
  BY DEF TableInv, TablesTypeOK, Register, LeasesKept
<1> QED
  BY <1>1, <1>2, <1>3, <1>4, <1>5, <1>6, <1>7 DEF TableInv, Sound

\* Claiming gives a lease to one worker and publishes nothing.
LEMMA ClaimSound ==
  ASSUME TableInv, NEW w \in Workers, NEW j \in Jobs,
         ClaimTx(w, j)
  PROVE  Sound(Workers \ {w})
<1>1. TablesTypeOK'
  BY DEF TableInv, TablesTypeOK, ClaimTx, Eligible, versionVars
<1>2. OwnedWhileProcessing' /\ AttemptsLeftWhileProcessing'
  BY WorkersAssumption DEF TableInv, TablesTypeOK, ClaimTx, Eligible, versionVars,
                           OwnedWhileProcessing, AttemptsLeftWhileProcessing
<1>3. JobAndVersionAgree'
  BY DEF TableInv, TablesTypeOK, ClaimTx, Eligible, versionVars, JobAndVersionAgree
<1>4. BudgetDecidesDeadLetter'
  BY DEF TableInv, TablesTypeOK, ClaimTx, Eligible, versionVars,
         BudgetDecidesDeadLetter, AttemptsLeftWhileProcessing
<1>5. OneActiveVersion'
  BY DEF TableInv, TablesTypeOK, ClaimTx, Eligible, versionVars, OneActiveVersion
<1>6. OneSwitchPerPublication' /\ PublishedIsComplete'
  BY DEF TableInv, TablesTypeOK, ClaimTx, Eligible, versionVars,
         OneSwitchPerPublication, PublishedIsComplete,
         Complete
<1>7. Grows
  BY DEF TableInv, TablesTypeOK, ClaimTx, Eligible, versionVars, Grows
<1>8. LeasesKept(Workers \ {w})
  BY DEF TableInv, TablesTypeOK, ClaimTx, Eligible, versionVars, LeasesKept
<1> QED
  BY <1>1, <1>2, <1>3, <1>4, <1>5, <1>6, <1>7, <1>8 DEF TableInv, Sound

\* Closing the job of a published version.
LEMMA CloseSound ==
  ASSUME TableInv, NEW j \in Jobs, CloseTx(j)
  PROVE  Sound(Workers)
<1>1. TablesTypeOK'
  BY DEF TableInv, TablesTypeOK, CloseTx, Eligible, versionVars
<1>2. OwnedWhileProcessing' /\ AttemptsLeftWhileProcessing'
  BY WorkersAssumption DEF TableInv, TablesTypeOK, CloseTx, Eligible, versionVars,
                           OwnedWhileProcessing, AttemptsLeftWhileProcessing
<1>3. JobAndVersionAgree'
  BY DEF TableInv, TablesTypeOK, CloseTx, Eligible, versionVars, JobAndVersionAgree
<1>4. BudgetDecidesDeadLetter'
  BY DEF TableInv, TablesTypeOK, CloseTx, Eligible, versionVars,
         BudgetDecidesDeadLetter, AttemptsLeftWhileProcessing
<1>5. OneActiveVersion'
  BY DEF TableInv, TablesTypeOK, CloseTx, Eligible, versionVars, OneActiveVersion
<1>6. OneSwitchPerPublication' /\ PublishedIsComplete'
  BY DEF TableInv, TablesTypeOK, CloseTx, Eligible, versionVars,
         OneSwitchPerPublication, PublishedIsComplete,
         Complete
<1>7. Grows
  BY DEF TableInv, TablesTypeOK, CloseTx, Eligible, versionVars, Grows
<1>8. LeasesKept(Workers)
  BY DEF TableInv, TablesTypeOK, CloseTx, Eligible, versionVars, LeasesKept
<1> QED
  BY <1>1, <1>2, <1>3, <1>4, <1>5, <1>6, <1>7, <1>8 DEF TableInv, Sound

\* A heartbeat moves no status.
LEMMA HeartbeatSound ==
  ASSUME TableInv, NEW w \in Workers, NEW j \in Jobs,
         HeartbeatTx(w, j)
  PROVE  Sound(Workers)
<1>1. TablesTypeOK'
  BY DEF TableInv, TablesTypeOK, HeartbeatTx, Owns, versionVars
<1>2. OwnedWhileProcessing' /\ AttemptsLeftWhileProcessing'
  BY DEF TableInv, TablesTypeOK, HeartbeatTx, Owns, versionVars, OwnedWhileProcessing,
         AttemptsLeftWhileProcessing
<1>3. JobAndVersionAgree'
  BY DEF TableInv, TablesTypeOK, HeartbeatTx, Owns, versionVars, JobAndVersionAgree
<1>4. BudgetDecidesDeadLetter'
  BY DEF TableInv, TablesTypeOK, HeartbeatTx, Owns, versionVars,
         BudgetDecidesDeadLetter, AttemptsLeftWhileProcessing
<1>5. OneActiveVersion'
  BY DEF TableInv, TablesTypeOK, HeartbeatTx, Owns, versionVars, OneActiveVersion
<1>6. OneSwitchPerPublication' /\ PublishedIsComplete'
  BY DEF TableInv, TablesTypeOK, HeartbeatTx, Owns, versionVars,
         OneSwitchPerPublication, PublishedIsComplete,
         Complete
<1>7. Grows
  BY DEF TableInv, TablesTypeOK, HeartbeatTx, Owns, versionVars, Grows
<1>8. LeasesKept(Workers)
  BY DEF TableInv, TablesTypeOK, HeartbeatTx, Owns, versionVars, LeasesKept
<1> QED
  BY <1>1, <1>2, <1>3, <1>4, <1>5, <1>6, <1>7, <1>8 DEF TableInv, Sound

\* Completing needs the version published before.
LEMMA CompleteSound ==
  ASSUME TableInv, NEW w \in Workers, NEW j \in Jobs,
         CompleteTx(w, j),
         version[j] \in Published
  PROVE  Sound(Workers)
<1>1. TablesTypeOK'
  BY DEF TableInv, TablesTypeOK, CompleteTx, Owns, versionVars
<1>2. OwnedWhileProcessing' /\ AttemptsLeftWhileProcessing'
  BY WorkersAssumption DEF TableInv, TablesTypeOK, CompleteTx, Owns, versionVars,
                           OwnedWhileProcessing, AttemptsLeftWhileProcessing
<1>3. JobAndVersionAgree'
  BY DEF TableInv, TablesTypeOK, CompleteTx, Owns, versionVars, JobAndVersionAgree
<1>4. BudgetDecidesDeadLetter'
  BY DEF TableInv, TablesTypeOK, CompleteTx, Owns, versionVars,
         BudgetDecidesDeadLetter, AttemptsLeftWhileProcessing
<1>5. OneActiveVersion'
  BY DEF TableInv, TablesTypeOK, CompleteTx, Owns, versionVars, OneActiveVersion
<1>6. OneSwitchPerPublication' /\ PublishedIsComplete'
  BY DEF TableInv, TablesTypeOK, CompleteTx, Owns, versionVars,
         OneSwitchPerPublication, PublishedIsComplete,
         Complete
<1>7. Grows
  BY DEF TableInv, TablesTypeOK, CompleteTx, Owns, versionVars, Grows
<1>8. LeasesKept(Workers)
  BY DEF TableInv, TablesTypeOK, CompleteTx, Owns, versionVars, LeasesKept
<1> QED
  BY <1>1, <1>2, <1>3, <1>4, <1>5, <1>6, <1>7, <1>8 DEF TableInv, Sound

\* Failing ends at the dead letter exactly when the attempts are used up,
\* provided the caller counts from the retry count of the row.
LEMMA FailSound ==
  ASSUME TableInv, NEW w \in Workers, NEW j \in Jobs,
         FailTx(w, j, retry[j] + 1)
  PROVE  Sound(Workers)
<1>1. TablesTypeOK'
  BY DEF TableInv, TablesTypeOK, FailTx, Owns, MovedOn, AfterFailure, Exhausted
<1>2. OwnedWhileProcessing' /\ AttemptsLeftWhileProcessing'
  BY WorkersAssumption DEF TableInv, TablesTypeOK, FailTx, Owns, MovedOn,
                           AfterFailure, Exhausted, OwnedWhileProcessing,
                           AttemptsLeftWhileProcessing
<1>3. JobAndVersionAgree'
  BY DEF TableInv, TablesTypeOK, FailTx, Owns, MovedOn, AfterFailure, Exhausted,
         JobAndVersionAgree
<1>4. BudgetDecidesDeadLetter'
  <2>1. status[j] = "PROCESSING" /\ retry[j] < MaxRetries /\ retry[j] \in Nat
    BY DEF TableInv, TablesTypeOK, FailTx, Owns, AttemptsLeftWhileProcessing
  <2>2. Exhausted(retry[j] + 1) <=> retry[j] + 1 = MaxRetries
    BY <2>1, MaxRetriesAssumption DEF Exhausted
  <2>3. retry'[j] = retry[j] + 1 /\ status'[j] = AfterFailure(retry[j] + 1)
    BY DEF TableInv, TablesTypeOK, FailTx
  <2>4. \A i \in Jobs : i # j => status'[i] = status[i] /\ retry'[i] = retry[i]
    BY DEF TableInv, TablesTypeOK, FailTx
  <2>5. /\ status'[j] = "DEAD_LETTER" => retry'[j] = MaxRetries
        /\ status'[j] \in {"PENDING", "PROCESSING"} => retry'[j] < MaxRetries
    BY <2>1, <2>2, <2>3, MaxRetriesAssumption DEF AfterFailure
  <2> QED
    BY <2>4, <2>5 DEF TableInv, BudgetDecidesDeadLetter
<1>5. OneActiveVersion'
  BY DEF TableInv, TablesTypeOK, FailTx, Owns, MovedOn, AfterFailure, Exhausted,
         OneActiveVersion
<1>6. OneSwitchPerPublication' /\ PublishedIsComplete'
  BY DEF TableInv, TablesTypeOK, FailTx, Owns, MovedOn, AfterFailure, Exhausted,
         OneSwitchPerPublication, PublishedIsComplete,
         Complete
<1>7. Grows
  BY DEF TableInv, TablesTypeOK, FailTx, Owns, MovedOn, AfterFailure, Exhausted, Grows
<1>8. LeasesKept(Workers)
  BY DEF TableInv, TablesTypeOK, FailTx, Owns, MovedOn, AfterFailure, Exhausted,
         LeasesKept
<1> QED
  BY <1>1, <1>2, <1>3, <1>4, <1>5, <1>6, <1>7, <1>8 DEF TableInv, Sound

\* Releasing expired leases pulls PROCESSING versions back and no other.
LEMMA RecoverSound ==
  ASSUME TableInv, RecoverTx
  PROVE  Sound(Workers)
<1>1. TablesTypeOK'
  <2>1. \A j \in Jobs : (retry[j] > 0) \in BOOLEAN
    OBVIOUS
  <2>2. cooling' \in [Jobs -> BOOLEAN]
    BY <2>1 DEF TableInv, TablesTypeOK, RecoverTx
  <2> QED
    BY <2>2 DEF TableInv, TablesTypeOK, RecoverTx, Stale, MovedOn
<1>2. OwnedWhileProcessing' /\ AttemptsLeftWhileProcessing'
  BY WorkersAssumption DEF TableInv, TablesTypeOK, RecoverTx, Stale, MovedOn,
                           OwnedWhileProcessing, AttemptsLeftWhileProcessing
<1>3. JobAndVersionAgree'
  BY DEF TableInv, TablesTypeOK, RecoverTx, Stale, MovedOn, JobAndVersionAgree
<1>4. BudgetDecidesDeadLetter'
  BY DEF TableInv, TablesTypeOK, RecoverTx, Stale, MovedOn, BudgetDecidesDeadLetter,
         AttemptsLeftWhileProcessing
<1>5. OneActiveVersion'
  BY DEF TableInv, TablesTypeOK, RecoverTx, Stale, MovedOn, OneActiveVersion
<1>6. OneSwitchPerPublication' /\ PublishedIsComplete'
  BY DEF TableInv, TablesTypeOK, RecoverTx, Stale, MovedOn, OneSwitchPerPublication,
         PublishedIsComplete,
         Complete
<1>7. Grows
  BY DEF TableInv, TablesTypeOK, RecoverTx, Stale, MovedOn, Grows
<1>8. LeasesKept(Workers)
  BY WorkersAssumption DEF TableInv, TablesTypeOK, RecoverTx, Stale, MovedOn, LeasesKept
<1> QED
  BY <1>1, <1>2, <1>3, <1>4, <1>5, <1>6, <1>7, <1>8 DEF TableInv, Sound

\* Storing chunks.
LEMMA PersistSound ==
  ASSUME TableInv, NEW j \in Jobs, PersistTx(j)
  PROVE  Sound(Workers)
<1>1. TablesTypeOK'
  BY DEF TableInv, TablesTypeOK, PersistTx, jobVars
<1>2. OwnedWhileProcessing' /\ AttemptsLeftWhileProcessing'
  BY DEF TableInv, TablesTypeOK, PersistTx, jobVars, OwnedWhileProcessing,
         AttemptsLeftWhileProcessing
<1>3. JobAndVersionAgree'
  BY DEF TableInv, TablesTypeOK, PersistTx, jobVars, JobAndVersionAgree
<1>4. BudgetDecidesDeadLetter'
  BY DEF TableInv, TablesTypeOK, PersistTx, jobVars, BudgetDecidesDeadLetter,
         AttemptsLeftWhileProcessing
<1>5. OneActiveVersion'
  BY DEF TableInv, TablesTypeOK, PersistTx, jobVars, OneActiveVersion
<1>6. OneSwitchPerPublication' /\ PublishedIsComplete'
  BY DEF TableInv, TablesTypeOK, PersistTx, jobVars, OneSwitchPerPublication,
         PublishedIsComplete,
         Complete
<1>7. Grows
  BY DEF TableInv, TablesTypeOK, PersistTx, jobVars, Grows
<1>8. LeasesKept(Workers)
  BY DEF TableInv, TablesTypeOK, PersistTx, jobVars, LeasesKept
<1> QED
  BY <1>1, <1>2, <1>3, <1>4, <1>5, <1>6, <1>7, <1>8 DEF TableInv, Sound

\* Saving embeddings, whoever saves them.
LEMMA SaveBatchSound ==
  ASSUME TableInv, NEW j \in Jobs, NEW batch \in SUBSET Chunks,
         SaveBatchTx(j, batch)
  PROVE  Sound(Workers)
<1>1. TablesTypeOK'
  BY DEF TableInv, TablesTypeOK, SaveBatchTx, jobVars
<1>2. OwnedWhileProcessing' /\ AttemptsLeftWhileProcessing'
  BY DEF TableInv, TablesTypeOK, SaveBatchTx, jobVars, OwnedWhileProcessing,
         AttemptsLeftWhileProcessing
<1>3. JobAndVersionAgree'
  BY DEF TableInv, TablesTypeOK, SaveBatchTx, jobVars, JobAndVersionAgree
<1>4. BudgetDecidesDeadLetter'
  BY DEF TableInv, TablesTypeOK, SaveBatchTx, jobVars, BudgetDecidesDeadLetter,
         AttemptsLeftWhileProcessing
<1>5. OneActiveVersion'
  BY DEF TableInv, TablesTypeOK, SaveBatchTx, jobVars, OneActiveVersion
<1>6. OneSwitchPerPublication' /\ PublishedIsComplete'
  BY DEF TableInv, TablesTypeOK, SaveBatchTx, jobVars, OneSwitchPerPublication,
         PublishedIsComplete,
         Complete
<1>7. Grows
  BY DEF TableInv, TablesTypeOK, SaveBatchTx, jobVars, Grows
<1>8. LeasesKept(Workers)
  BY DEF TableInv, TablesTypeOK, SaveBatchTx, jobVars, LeasesKept
<1> QED
  BY <1>1, <1>2, <1>3, <1>4, <1>5, <1>6, <1>7, <1>8 DEF TableInv, Sound

\* Activation supersedes the ACTIVE version of the same document.
LEMMA ActivateSound ==
  ASSUME TableInv, NEW j \in Jobs, ActivateTx(j)
  PROVE  Sound(Workers)
<1>1. TablesTypeOK'
  BY DEF TableInv, TablesTypeOK, ActivateTx, Activatable, Superseded, ActiveOf, jobVars
<1>2. OwnedWhileProcessing' /\ AttemptsLeftWhileProcessing'
  BY DEF TableInv, TablesTypeOK, ActivateTx, Activatable, Superseded, ActiveOf,
         jobVars, OwnedWhileProcessing, AttemptsLeftWhileProcessing
<1>3. JobAndVersionAgree'
  BY DEF TableInv, TablesTypeOK, ActivateTx, Activatable, Superseded, ActiveOf,
         jobVars, JobAndVersionAgree
<1>4. BudgetDecidesDeadLetter'
  BY DEF TableInv, TablesTypeOK, ActivateTx, Activatable, Superseded, ActiveOf,
         jobVars, BudgetDecidesDeadLetter, AttemptsLeftWhileProcessing
<1>5. OneActiveVersion'
  BY DEF TableInv, TablesTypeOK, ActivateTx, Activatable, Superseded, ActiveOf,
         jobVars, OneActiveVersion
<1>6. OneSwitchPerPublication' /\ PublishedIsComplete'
  BY DEF TableInv, TablesTypeOK, ActivateTx, Activatable, Superseded, ActiveOf,
         jobVars, OneSwitchPerPublication, PublishedIsComplete,
         Complete
<1>7. Grows
  BY DEF TableInv, TablesTypeOK, ActivateTx, Activatable, Superseded, ActiveOf,
         jobVars, Grows
<1>8. LeasesKept(Workers)
  BY DEF TableInv, TablesTypeOK, ActivateTx, Activatable, Superseded, ActiveOf,
         jobVars, LeasesKept
<1> QED
  BY <1>1, <1>2, <1>3, <1>4, <1>5, <1>6, <1>7, <1>8 DEF TableInv, Sound

\* A lease running out.
LEMMA LeaseRunsOutSound ==
  ASSUME TableInv, NEW j \in Jobs, LeaseRunsOut(j)
  PROVE  Sound(Workers)
<1>1. TablesTypeOK'
  BY DEF TableInv, TablesTypeOK, LeaseRunsOut, versionVars
<1>2. OwnedWhileProcessing' /\ AttemptsLeftWhileProcessing'
  BY DEF TableInv, TablesTypeOK, LeaseRunsOut, versionVars, OwnedWhileProcessing,
         AttemptsLeftWhileProcessing
<1>3. JobAndVersionAgree'
  BY DEF TableInv, TablesTypeOK, LeaseRunsOut, versionVars, JobAndVersionAgree
<1>4. BudgetDecidesDeadLetter'
  BY DEF TableInv, TablesTypeOK, LeaseRunsOut, versionVars, BudgetDecidesDeadLetter,
         AttemptsLeftWhileProcessing
<1>5. OneActiveVersion'
  BY DEF TableInv, TablesTypeOK, LeaseRunsOut, versionVars, OneActiveVersion
<1>6. OneSwitchPerPublication' /\ PublishedIsComplete'
  BY DEF TableInv, TablesTypeOK, LeaseRunsOut, versionVars, OneSwitchPerPublication,
         PublishedIsComplete,
         Complete
<1>7. Grows
  BY DEF TableInv, TablesTypeOK, LeaseRunsOut, versionVars, Grows
<1>8. LeasesKept(Workers)
  BY DEF TableInv, TablesTypeOK, LeaseRunsOut, versionVars, LeasesKept
<1> QED
  BY <1>1, <1>2, <1>3, <1>4, <1>5, <1>6, <1>7, <1>8 DEF TableInv, Sound

\* A backoff ending.
LEMMA BackoffEndsSound ==
  ASSUME TableInv, NEW j \in Jobs, BackoffEnds(j)
  PROVE  Sound(Workers)
<1>1. TablesTypeOK'
  BY DEF TableInv, TablesTypeOK, BackoffEnds, versionVars
<1>2. OwnedWhileProcessing' /\ AttemptsLeftWhileProcessing'
  BY DEF TableInv, TablesTypeOK, BackoffEnds, versionVars, OwnedWhileProcessing,
         AttemptsLeftWhileProcessing
<1>3. JobAndVersionAgree'
  BY DEF TableInv, TablesTypeOK, BackoffEnds, versionVars, JobAndVersionAgree
<1>4. BudgetDecidesDeadLetter'
  BY DEF TableInv, TablesTypeOK, BackoffEnds, versionVars, BudgetDecidesDeadLetter,
         AttemptsLeftWhileProcessing
<1>5. OneActiveVersion'
  BY DEF TableInv, TablesTypeOK, BackoffEnds, versionVars, OneActiveVersion
<1>6. OneSwitchPerPublication' /\ PublishedIsComplete'
  BY DEF TableInv, TablesTypeOK, BackoffEnds, versionVars, OneSwitchPerPublication,
         PublishedIsComplete,
         Complete
<1>7. Grows
  BY DEF TableInv, TablesTypeOK, BackoffEnds, versionVars, Grows
<1>8. LeasesKept(Workers)
  BY DEF TableInv, TablesTypeOK, BackoffEnds, versionVars, LeasesKept
<1> QED
  BY <1>1, <1>2, <1>3, <1>4, <1>5, <1>6, <1>7, <1>8 DEF TableInv, Sound

-----------------------------------------------------------------------------
\* The part of the invariant that is about one worker.
WorkerInv(w) ==
    LET j == held[w] IN
    /\ IF pc[w] \in Busy THEN j \in Jobs /\ version[j] # "NONE" ELSE j = NoJob
    /\ pc[w] = "pending" => stored[j]
    /\ pc[w] = "embed" => stored[j] /\ Chunks \ embedded[j] \subseteq todo[w]
    /\ pc[w] = "activate" => Complete(j)
    /\ pc[w] = "finish" => version[j] \in Published
    /\ (pc[w] \in Busy /\ Owns(w, j)) => attempt[w] = retry[j]

WorkersTypeOK ==
    /\ pc \in [Workers -> Steps]
    /\ held \in [Workers -> Jobs \cup {NoJob}]
    /\ attempt \in [Workers -> Nat]
    /\ todo \in [Workers -> SUBSET Chunks]
    /\ faults \in 0 .. MaxFaults

Still(v) ==
    /\ pc'[v] = pc[v] /\ held'[v] = held[v]
    /\ attempt'[v] = attempt[v] /\ todo'[v] = todo[v]

\* The invariant is one about the tables and one about each worker.
LEMMA InvariantSplit ==
  IInv <=> TableInv /\ WorkersTypeOK /\ \A w \in Workers : WorkerInv(w)
<1>1. ASSUME IInv
      PROVE  TableInv /\ WorkersTypeOK /\ \A w \in Workers : WorkerInv(w)
  BY <1>1 DEF IInv, TypeOK, WorkersTypeOK, WorkerInv, HoldsUploadedJob, HandlerProgress,
              OwnerKnowsRetryCount
<1>2. ASSUME TableInv, WorkersTypeOK, \A w \in Workers : WorkerInv(w)
      PROVE  IInv
  BY <1>2 DEF IInv, TypeOK, TableInv, WorkersTypeOK, WorkerInv, HoldsUploadedJob,
              HandlerProgress, OwnerKnowsRetryCount
<1> QED
  BY <1>1, <1>2

\* The same for the next state.
LEMMA InvariantSplitNext ==
  ASSUME TableInv', WorkersTypeOK', \A w \in Workers : WorkerInv(w)'
  PROVE  IInv'
BY DEF IInv, TypeOK, TableInv, WorkersTypeOK, WorkerInv, HoldsUploadedJob,
       HandlerProgress, OwnerKnowsRetryCount

\* A worker that does not move keeps its part, whatever sound transaction runs.
LEMMA StillWorkerKeeps ==
  ASSUME TableInv, NEW W \in SUBSET Workers, Sound(W), NEW v \in W,
         WorkerInv(v), Still(v)
  PROVE  WorkerInv(v)'
<1> DEFINE j == held[v]
<1>1. pc[v] \in Busy => j \in Jobs /\ version'[j] # "NONE"
  BY DEF WorkerInv, Sound, Grows
<1>2. IF pc'[v] \in Busy THEN held'[v] \in Jobs /\ version'[j] # "NONE"
                         ELSE held'[v] = NoJob
  BY <1>1 DEF WorkerInv, Still
<1>3. pc[v] \in {"pending", "embed", "activate", "finish"} => j \in Jobs
  BY DEF WorkerInv, Busy, Handler
<1>4. pc[v] = "pending" => stored'[j]
  BY <1>3 DEF WorkerInv, Sound, Grows
<1>5. pc[v] = "embed" => stored'[j] /\ Chunks \ embedded'[j] \subseteq todo[v]
  BY <1>3 DEF WorkerInv, Sound, Grows
<1>6. pc[v] = "activate" => Complete(j)'
  <2>1. pc[v] = "activate" => embedded'[j] \in SUBSET Chunks
    BY <1>3 DEF Sound, TableInv, TablesTypeOK
  <2> QED
    BY <1>3, <2>1 DEF WorkerInv, Sound, Grows, Complete, Still
<1>7. pc[v] = "finish" => version'[j] \in Published
  BY <1>3 DEF WorkerInv, Sound, Grows
<1>8. (pc[v] \in Busy /\ Owns(v, j)') => attempt[v] = retry'[j]
  BY <1>1 DEF WorkerInv, Sound, LeasesKept, Owns, Still
<1> QED
  BY <1>2, <1>4, <1>5, <1>6, <1>7, <1>8 DEF WorkerInv, Still, Owns, Complete

\* A sound transaction during which one worker moves.
LEMMA WorkerMoveKeeps ==
  ASSUME IInv, NEW w \in Workers, Sound(Workers \ {w}), WorkersTypeOK',
         \A v \in Workers \ {w} : Still(v),
         WorkerInv(w)'
  PROVE  IInv'
<1>1. TableInv /\ \A v \in Workers : WorkerInv(v)
  BY InvariantSplit
<1>2. \A v \in Workers \ {w} : WorkerInv(v)'
  BY <1>1, StillWorkerKeeps
<1>3. TableInv'
  BY DEF Sound
<1> QED
  BY <1>2, <1>3, InvariantSplitNext

\* A sound transaction during which no worker moves.
LEMMA TableMoveKeeps ==
  ASSUME IInv, Sound(Workers), UNCHANGED workerVars, faults' \in 0 .. MaxFaults
  PROVE  IInv'
<1>1. TableInv /\ WorkersTypeOK /\ \A v \in Workers : WorkerInv(v)
  BY InvariantSplit
<1>2. \A v \in Workers : Still(v)
  BY DEF workerVars, Still
<1>3. \A v \in Workers : WorkerInv(v)'
  BY <1>1, <1>2, StillWorkerKeeps
<1>4. TableInv' /\ WorkersTypeOK'
  BY <1>1 DEF Sound, WorkersTypeOK, workerVars
<1> QED
  BY <1>3, <1>4, InvariantSplitNext

\* A step that leaves the tables alone is sound.
LEMMA UnchangedSound ==
  ASSUME TableInv, UNCHANGED tableVars
  PROVE  Sound(Workers)
<1>1. TableInv'
  BY DEF TableInv, TablesTypeOK, OwnedWhileProcessing, AttemptsLeftWhileProcessing,
         JobAndVersionAgree, BudgetDecidesDeadLetter, OneActiveVersion,
         OneSwitchPerPublication, PublishedIsComplete, Complete, tableVars
<1> QED
  BY <1>1 DEF Sound, Grows, LeasesKept, tableVars

\* A step that leaves the leases of all workers alone does so for fewer of them.
LEMMA SoundForFewer ==
  ASSUME Sound(Workers), NEW w \in Workers
  PROVE  Sound(Workers \ {w})
BY DEF Sound, LeasesKept

\* Counting a fault that was still allowed keeps the number within its bound.
LEMMA FaultBound ==
  ASSUME faults \in 0 .. MaxFaults, Fault
  PROVE  faults' \in 0 .. MaxFaults
BY MaxFaultsAssumption DEF Fault

\* A worker that leaves run_once: there is nothing left to know about it.
LEMMA LeaveKeeps ==
  ASSUME IInv, NEW w \in Workers, NEW step \in Steps \ Busy,
         Sound(Workers), Leave(w, step), faults' \in 0 .. MaxFaults
  PROVE  IInv'
<1>1. WorkersTypeOK
  BY InvariantSplit
<1>2. WorkersTypeOK'
  BY <1>1 DEF WorkersTypeOK, Leave, Goto
<1>3. \A v \in Workers \ {w} : Still(v)
  BY <1>1 DEF WorkersTypeOK, Leave, Goto, Still
<1>4. WorkerInv(w)'
  BY <1>1 DEF WorkersTypeOK, Leave, Goto, WorkerInv, Busy, Handler
<1> QED
  BY <1>2, <1>3, <1>4, SoundForFewer, WorkerMoveKeeps

\* A worker that goes on in run_once with the job it holds.
LEMMA GoOnKeeps ==
  ASSUME IInv, NEW w \in Workers, NEW step \in Busy, NEW rest \in SUBSET Chunks,
         pc[w] \in Busy, Sound(Workers), Goto(w, step), UNCHANGED <<held, attempt>>,
         todo' = [todo EXCEPT ![w] = rest], faults' \in 0 .. MaxFaults,
         step = "pending" => stored'[held[w]],
         step = "embed" => /\ stored'[held[w]]
                           /\ Chunks \ embedded'[held[w]] \subseteq rest,
         step = "activate" => Complete(held[w])',
         step = "finish" => version'[held[w]] \in Published
  PROVE  IInv'
<1>1. WorkersTypeOK /\ WorkerInv(w)
  BY InvariantSplit
<1>2. WorkersTypeOK'
  BY <1>1 DEF WorkersTypeOK, Goto, Steps
<1>3. \A v \in Workers \ {w} : Still(v)
  BY <1>1 DEF WorkersTypeOK, Goto, Still
<1>4. /\ pc'[w] = step /\ held'[w] = held[w] /\ attempt'[w] = attempt[w]
      /\ todo'[w] = rest /\ held[w] \in Jobs
  BY <1>1 DEF WorkersTypeOK, Goto, WorkerInv
<1>5. version'[held[w]] # "NONE"
  BY <1>1, <1>4 DEF WorkerInv, Sound, Grows
<1>6. Owns(w, held[w])' => attempt[w] = retry'[held[w]]
  BY <1>1, <1>4 DEF WorkerInv, Sound, LeasesKept, Owns
<1>7. WorkerInv(w)'
  BY <1>4, <1>5, <1>6 DEF WorkerInv, Owns, Complete
<1> QED
  BY <1>2, <1>3, <1>7, SoundForFewer, WorkerMoveKeeps

-----------------------------------------------------------------------------
\* The invariant is inductive.
LEMMA InitInvariant == Init => IInv
<1> SUFFICES ASSUME Init PROVE IInv
  OBVIOUS
<1>1. TableInv
  BY TablesInitSound DEF Init
<1>2. WorkersTypeOK
  BY MaxFaultsAssumption DEF Init, WorkersTypeOK, Steps, Busy, Handler
<1>3. \A w \in Workers : WorkerInv(w)
  BY DEF Init, WorkerInv, Busy, Handler
<1> QED
  BY <1>1, <1>2, <1>3, InvariantSplit

\* Outside the handler: polling, recovering, claiming, crashing.
LEMMA PollingKeeps ==
  ASSUME IInv, NEW w \in Workers,
         \/ Start(w) \/ Recover(w) \/ ClaimNothing(w) \/ ClaimFails(w) \/ Crash(w)
         \/ \E j \in Jobs : Claim(w, j) \/ Close(w, j) \/ ClaimUnacknowledged(w, j)
  PROVE  IInv'
<1> USE DEF Poll
<1>0. TableInv /\ WorkersTypeOK /\ WorkerInv(w) /\ faults \in 0 .. MaxFaults
  BY InvariantSplit DEF WorkersTypeOK
<1>a. {"off", "dead", "recover", "claim"} \subseteq Steps \ Busy
  BY DEF Steps, Busy, Handler
<1>1. ASSUME NEW step \in Steps \ Busy, pc[w] \notin Busy, Sound(Workers),
             Goto(w, step), UNCHANGED <<held, attempt, todo, faults>>
      PROVE  IInv'
  <2>1. WorkersTypeOK' /\ \A v \in Workers \ {w} : Still(v)
    BY <1>0, <1>1 DEF WorkersTypeOK, Goto, Still
  <2>2. WorkerInv(w)'
    BY <1>0, <1>1 DEF WorkersTypeOK, WorkerInv, Goto, Busy, Handler
  <2> QED
    BY <1>1, <2>1, <2>2, SoundForFewer, WorkerMoveKeeps
<1>2. CASE Start(w)
  BY <1>0, <1>1, <1>2, <1>a, UnchangedSound DEF Start, Busy, Handler
<1>3. CASE Recover(w)
  BY <1>0, <1>1, <1>3, <1>a, RecoverSound DEF Recover, Busy, Handler
<1>4. CASE ClaimNothing(w)
  BY <1>0, <1>4, <1>a, UnchangedSound, LeaveKeeps DEF ClaimNothing
<1>5. CASE ClaimFails(w)
  BY <1>0, <1>5, <1>a, UnchangedSound, LeaveKeeps, FaultBound DEF ClaimFails
<1>6. CASE Crash(w)
  BY <1>0, <1>6, <1>a, UnchangedSound, LeaveKeeps, FaultBound DEF Crash
<1>7. ASSUME NEW j \in Jobs, Claim(w, j) PROVE IInv'
  <2>1. Sound(Workers \ {w})
    BY <1>0, <1>7, ClaimSound DEF Claim, Take
  <2>2. WorkersTypeOK' /\ \A v \in Workers \ {w} : Still(v)
    BY <1>0, <1>7 DEF WorkersTypeOK, Claim, Take, Goto, Still, Snapshot, Steps, Busy,
                      Handler,
                      TableInv, TablesTypeOK
  <2>3. /\ pc'[w] = "load" /\ held'[w] = j /\ attempt'[w] = retry[j]
        /\ retry'[j] = retry[j] /\ version'[j] = "PROCESSING"
    BY <1>0, <1>7 DEF WorkersTypeOK, Claim, Take, ClaimTx, Goto, Snapshot, TableInv,
                      TablesTypeOK
  <2>4. WorkerInv(w)'
    BY <2>3 DEF WorkerInv, Busy, Handler
  <2> QED
    BY <2>1, <2>2, <2>4, WorkerMoveKeeps
<1>8. ASSUME NEW j \in Jobs, Close(w, j) PROVE IInv'
  BY <1>0, <1>8, <1>a, CloseSound, LeaveKeeps DEF Close, TakePublished
<1>9. ASSUME NEW j \in Jobs, ClaimUnacknowledged(w, j) PROVE IInv'
  <2>1. ClaimTx(w, j) /\ Leave(w, "recover") /\ Fault /\ pc[w] = "claim"
    BY <1>9 DEF ClaimUnacknowledged, TakeUnacknowledged
  <2>2. Sound(Workers \ {w}) /\ faults' \in 0 .. MaxFaults
    BY <1>0, <2>1, ClaimSound, FaultBound
  <2>3. WorkersTypeOK' /\ \A v \in Workers \ {w} : Still(v)
    BY <1>0, <2>1, <2>2 DEF WorkersTypeOK, Leave, Goto, Still, Steps
  <2>4. WorkerInv(w)'
    BY <1>0, <2>1 DEF WorkersTypeOK, Leave, Goto, WorkerInv, Busy, Handler
  <2> QED
    BY <2>2, <2>3, <2>4, WorkerMoveKeeps
<1> QED
  BY <1>2, <1>3, <1>4, <1>5, <1>6, <1>7, <1>8, <1>9

\* The steps of the handler.
LEMMA HandlerKeeps ==
  ASSUME IInv, NEW w \in Workers,
         \/ Load(w) \/ Persist(w) \/ ReadPending(w) \/ EmbedBatch(w)
         \/ AllBatchesSaved(w) \/ Activate(w) \/ AlreadyActive(w)
         \/ ActivateUnacknowledged(w) \/ Raise(w)
  PROVE  IInv'
<1> USE DEF Handler, Busy
<1>0. TableInv /\ WorkersTypeOK /\ WorkerInv(w) /\ faults \in 0 .. MaxFaults
  BY InvariantSplit DEF WorkersTypeOK
<1>a. pc[w] \in Handler /\ pc[w] \in Busy /\ held[w] \in Jobs
  BY <1>0 DEF WorkerInv, Load, Persist, ReadPending, EmbedBatch, AllBatchesSaved,
              Activate, AlreadyActive, ActivateUnacknowledged, Raise
<1>b. todo' = todo => todo' = [todo EXCEPT ![w] = todo[w]] /\ todo[w] \in SUBSET Chunks
  BY <1>0 DEF WorkersTypeOK
<1>1. CASE Load(w)
  <2>1. Sound(Workers)
    BY <1>0, <1>1, UnchangedSound DEF Load
  <2>2. CASE version[held[w]] = "PROCESSING" /\ Goto(w, "persist")
    BY <1>0, <1>1, <1>a, <1>b, <2>1, <2>2, GoOnKeeps DEF Load
  <2>3. CASE version[held[w]] = "ACTIVE" /\ Goto(w, "activate")
    <3>1. Complete(held[w])'
      BY <1>0, <1>1, <1>a, <2>3
         DEF Load, TableInv, PublishedIsComplete, Complete, tableVars
    <3> QED
      BY <1>0, <1>1, <1>a, <1>b, <2>1, <2>3, <3>1, GoOnKeeps DEF Load
  <2> QED
    BY <1>1, <2>2, <2>3 DEF Load
<1>2. CASE Persist(w)
  <2>1. Sound(Workers)
    BY <1>0, <1>2, <1>a, PersistSound DEF Persist
  <2>2. stored'[held[w]]
    BY <1>0, <1>2, <1>a DEF Persist, PersistTx, TableInv, TablesTypeOK
  <2> QED
    BY <1>0, <1>2, <1>a, <1>b, <2>1, <2>2, GoOnKeeps DEF Persist
<1>3. CASE ReadPending(w)
  <2>1. Sound(Workers)
    BY <1>0, <1>3, UnchangedSound DEF ReadPending
  <2>2. stored[held[w]]
    BY <1>0, <1>3 DEF ReadPending, WorkerInv
  <2>3. PendingChunks(held[w]) = Chunks \ embedded[held[w]]
    BY <2>2 DEF PendingChunks
  <2>4. stored'[held[w]] /\ Chunks \ embedded'[held[w]] \subseteq PendingChunks(held[w])
    BY <1>3, <2>2, <2>3 DEF ReadPending, tableVars
  <2> QED
    BY <1>0, <1>3, <1>a, <2>1, <2>3, <2>4, GoOnKeeps DEF ReadPending
<1>4. CASE EmbedBatch(w)
  <2> DEFINE batch == NextBatch(todo[w])
  <2>1. batch \in SUBSET Chunks
    BY <1>0 DEF WorkersTypeOK, NextBatch
  <2>2. SaveBatchTx(held[w], batch)
    BY <1>4 DEF EmbedBatch
  <2>3. Sound(Workers)
    BY <1>0, <1>a, <2>1, <2>2, SaveBatchSound
  <2>4. /\ stored'[held[w]]
        /\ Chunks \ embedded'[held[w]] \subseteq todo[w] \ batch
    BY <1>0, <1>4, <1>a, <2>1, <2>2
       DEF EmbedBatch, SaveBatchTx, WorkerInv, TableInv, TablesTypeOK
  <2>5. /\ Goto(w, "embed") /\ UNCHANGED <<held, attempt>>
        /\ todo' = [todo EXCEPT ![w] = todo[w] \ batch] /\ faults' = faults
    BY <1>0, <1>4 DEF EmbedBatch, Goto, WorkersTypeOK
  <2>6. todo[w] \ batch \in SUBSET Chunks
    BY <1>0 DEF WorkersTypeOK
  <2> QED
    BY <1>0, <1>a, <2>3, <2>4, <2>5, <2>6, GoOnKeeps
<1>5. CASE AllBatchesSaved(w)
  <2>1. Sound(Workers)
    BY <1>0, <1>5, UnchangedSound DEF AllBatchesSaved
  <2>2. /\ stored[held[w]]
        /\ Chunks \subseteq embedded[held[w]]
        /\ embedded[held[w]] \subseteq Chunks
    BY <1>0, <1>5, <1>a DEF AllBatchesSaved, WorkerInv, TableInv, TablesTypeOK
  <2>3. Complete(held[w])'
    BY <1>5, <2>2 DEF AllBatchesSaved, Complete, tableVars
  <2> QED
    BY <1>0, <1>5, <1>a, <1>b, <2>1, <2>3, GoOnKeeps DEF AllBatchesSaved
<1>6. ASSUME ActivateTx(held[w])
      PROVE  Sound(Workers) /\ version'[held[w]] \in Published
  BY <1>0, <1>6, <1>a, ActivateSound DEF ActivateTx
<1>7. CASE Activate(w)
  BY <1>0, <1>6, <1>7, <1>a, <1>b, GoOnKeeps DEF Activate
<1>8. CASE AlreadyActive(w)
  <2>1. Sound(Workers) /\ version'[held[w]] \in Published
    BY <1>0, <1>8, UnchangedSound DEF AlreadyActive, tableVars
  <2> QED
    BY <1>0, <1>8, <1>a, <1>b, <2>1, GoOnKeeps DEF AlreadyActive
<1>9. CASE ActivateUnacknowledged(w)
  BY <1>0, <1>6, <1>9, <1>a, <1>b, GoOnKeeps, FaultBound DEF ActivateUnacknowledged
<1>10. CASE Raise(w)
  BY <1>0, <1>10, <1>a, <1>b, UnchangedSound, GoOnKeeps DEF Raise
<1> QED
  BY <1>1, <1>2, <1>3, <1>4, <1>5, <1>7, <1>8, <1>9, <1>10

\* Reporting the outcome, and the heartbeats meanwhile.
LEMMA ReportingKeeps ==
  ASSUME IInv, NEW w \in Workers,
         Heartbeat(w) \/ Finish(w) \/ Fail(w) \/ LeaseLost(w) \/ ReportFails(w)
  PROVE  IInv'
<1> USE DEF Poll
<1>0. TableInv /\ WorkersTypeOK /\ WorkerInv(w) /\ faults \in 0 .. MaxFaults
  BY InvariantSplit DEF WorkersTypeOK
<1>a. "recover" \in Steps \ Busy
  BY DEF Steps, Busy, Handler
<1>b. held[w] \in Jobs
  BY <1>0 DEF WorkerInv, Heartbeat, Finish, Fail, LeaseLost, ReportFails, Busy
<1>1. CASE Heartbeat(w)
  BY <1>0, <1>1, <1>b, HeartbeatSound, TableMoveKeeps DEF Heartbeat
<1>2. CASE Finish(w)
  <2>1. version[held[w]] \in Published
    BY <1>0, <1>2 DEF Finish, WorkerInv
  <2> QED
    BY <1>0, <1>2, <1>a, <1>b, <2>1, CompleteSound, LeaveKeeps DEF Finish
<1>3. CASE Fail(w)
  <2>1. attempt[w] = retry[held[w]]
    BY <1>0, <1>3 DEF Fail, FailTx, WorkerInv, Busy
  <2>2. FailTx(w, held[w], retry[held[w]] + 1)
    BY <1>3, <2>1 DEF Fail
  <2> QED
    BY <1>0, <1>3, <1>a, <1>b, <2>2, FailSound, LeaveKeeps DEF Fail
<1>4. CASE LeaseLost(w)
  BY <1>0, <1>4, <1>a, UnchangedSound, LeaveKeeps DEF LeaseLost
<1>5. CASE ReportFails(w)
  BY <1>0, <1>5, <1>a, UnchangedSound, LeaveKeeps, FaultBound DEF ReportFails
<1> QED
  BY <1>1, <1>2, <1>3, <1>4, <1>5

\* Uploads and the passing of time.
LEMMA OutsideKeeps ==
  ASSUME IInv, NEW j \in Jobs,
         (\E d \in Docs : Upload(j, d)) \/ LeaseExpires(j) \/ LeaseOverrun(j) \/ Cool(j)
  PROVE  IInv'
<1>0. TableInv /\ faults \in 0 .. MaxFaults
  BY InvariantSplit DEF WorkersTypeOK
<1>1. ASSUME NEW d \in Docs, Upload(j, d) PROVE IInv'
  BY <1>0, <1>1, RegisterSound, TableMoveKeeps DEF Upload
<1>2. CASE LeaseExpires(j)
  BY <1>0, <1>2, LeaseRunsOutSound, TableMoveKeeps DEF LeaseExpires
<1>3. CASE LeaseOverrun(j)
  BY <1>0, <1>3, LeaseRunsOutSound, TableMoveKeeps, FaultBound DEF LeaseOverrun
<1>4. CASE Cool(j)
  BY <1>0, <1>4, BackoffEndsSound, TableMoveKeeps DEF Cool
<1> QED
  BY <1>1, <1>2, <1>3, <1>4

\* Every step of the daemon keeps the invariant: one lemma per kind of action.
LEMMA NextInvariant == IInv /\ [Next]_vars => IInv'
<1> SUFFICES ASSUME IInv, [Next]_vars PROVE IInv'
  OBVIOUS
<1>1. CASE UNCHANGED vars
  <2>1. TableInv /\ faults \in 0 .. MaxFaults
    BY InvariantSplit DEF WorkersTypeOK
  <2> QED
    BY <1>1, <2>1, UnchangedSound, TableMoveKeeps DEF vars
<1>2. CASE Next
  BY <1>2, PollingKeeps, HandlerKeeps, ReportingKeeps, OutsideKeeps DEF Next, Run
<1> QED
  BY <1>1, <1>2

\* The inductive invariant holds in every reachable state.
THEOREM Invariance == Spec => []IInv
<1>1. Init => IInv
  BY InitInvariant
<1>2. IInv /\ [Next]_vars => IInv'
  BY NextInvariant
<1> QED
  BY <1>1, <1>2, PTL DEF Spec

-----------------------------------------------------------------------------
\* The state properties that the runs check, for every instance.

\* Every variable keeps its type; in particular no job is ever FAILED.
THEOREM TypeCorrect == Spec => []TypeOK
BY Invariance, PTL DEF IInv

\* A job and its version never contradict each other.
THEOREM JobsAndVersionsAgree == Spec => []JobAndVersionAgree
BY Invariance, PTL DEF IInv, TableInv

\* The retry budget and the dead letter coincide.
THEOREM BudgetIsDeadLetter == Spec => []BudgetDecidesDeadLetter
BY Invariance, PTL DEF IInv, TableInv

\* Search serves at most one version of a document.
THEOREM OneActive == Spec => []OneActiveVersion
BY Invariance, PTL DEF IInv, TableInv

\* One VERSION_SWITCH row for each published version.
THEOREM OneSwitch == Spec => []OneSwitchPerPublication
BY Invariance, PTL DEF IInv, TableInv

\* The retry count a worker writes back is based on the row's own count.
THEOREM SnapshotStaysFresh == Spec => []OwnerKnowsRetryCount
BY Invariance, PTL DEF IInv

\* Nothing incomplete reaches activation.
THEOREM ActivationIsReady == Spec => []ReadyToActivate
<1>1. IInv => ReadyToActivate
  BY DEF IInv, HandlerProgress, ReadyToActivate
<1> QED
  BY <1>1, Invariance, PTL

\* The status endpoint never reports a job and a version that contradict each
\* other, because it shows the switch instead of the job once there is one.
THEOREM StatusNeverContradicts == Spec => []StatusIsConsistent
<1>1. TableInv => StatusIsConsistent
  BY DEF TableInv, TablesTypeOK, JobAndVersionAgree, OneSwitchPerPublication,
         StatusIsConsistent, Reported
<1> QED
  BY <1>1, Invariance, PTL DEF IInv

-----------------------------------------------------------------------------
\* Every step is one transaction on the tables, or none.
Transaction ==
    \/ UNCHANGED tableVars
    \/ RecoverTx
    \/ \E j \in Jobs :
          \/ CloseTx(j) \/ PersistTx(j) \/ ActivateTx(j)
          \/ LeaseRunsOut(j) \/ BackoffEnds(j)
          \/ \E d \in Docs : Register(j, d)
          \/ \E batch \in SUBSET Chunks : SaveBatchTx(j, batch)
          \/ \E w \in Workers :
                \/ ClaimTx(w, j) \/ HeartbeatTx(w, j) \/ CompleteTx(w, j)
                \/ FailTx(w, j, retry[j] + 1)

\* Each action is one transaction on the tables, or touches none.
LEMMA StepIsTransaction ==
  ASSUME IInv, [Next]_vars
  PROVE  Transaction
<1>0. WorkersTypeOK /\ \A w \in Workers : WorkerInv(w)
  BY InvariantSplit
<1>1. CASE UNCHANGED vars
  BY <1>1 DEF vars, Transaction
<1>2. ASSUME NEW j \in Jobs, NEW d \in Docs, Upload(j, d) PROVE Transaction
  BY <1>2 DEF Upload, Transaction
<1>3. ASSUME NEW j \in Jobs, LeaseExpires(j) \/ LeaseOverrun(j) \/ Cool(j)
      PROVE  Transaction
  BY <1>3 DEF LeaseExpires, LeaseOverrun, Cool, Transaction
<1>4. ASSUME NEW w \in Workers, NEW j \in Jobs,
             Claim(w, j) \/ Close(w, j) \/ ClaimUnacknowledged(w, j)
      PROVE  Transaction
  BY <1>4 DEF Claim, Take, Close, TakePublished, ClaimUnacknowledged,
              TakeUnacknowledged, Transaction
<1>5. ASSUME NEW w \in Workers,
             \/ Start(w) \/ Recover(w) \/ ClaimNothing(w) \/ ClaimFails(w) \/ Crash(w)
             \/ Load(w) \/ ReadPending(w) \/ AllBatchesSaved(w) \/ AlreadyActive(w)
             \/ Raise(w) \/ LeaseLost(w) \/ ReportFails(w)
      PROVE  Transaction
  BY <1>5 DEF Start, Recover, ClaimNothing, ClaimFails, Crash, Load, ReadPending,
              AllBatchesSaved, AlreadyActive, Raise, LeaseLost, ReportFails, Transaction
<1>6. ASSUME NEW w \in Workers,
             \/ Persist(w) \/ EmbedBatch(w) \/ Activate(w) \/ ActivateUnacknowledged(w)
             \/ Heartbeat(w) \/ Finish(w) \/ Fail(w)
      PROVE  Transaction
  <2>1. held[w] \in Jobs
    BY <1>0, <1>6 DEF WorkerInv, Busy, Handler, Persist, EmbedBatch, Activate,
                      ActivateUnacknowledged, Heartbeat, Finish, Fail
  <2>2. CASE EmbedBatch(w)
    <3>1. NextBatch(todo[w]) \in SUBSET Chunks
      BY <1>0 DEF WorkersTypeOK, NextBatch
    <3> QED
      BY <2>1, <2>2, <3>1 DEF EmbedBatch, Transaction
  <2>3. CASE Fail(w)
    <3>1. attempt[w] = retry[held[w]]
      BY <1>0, <2>3 DEF Fail, FailTx, WorkerInv, Busy
    <3> QED
      BY <2>1, <2>3, <3>1 DEF Fail, Transaction
  <2> QED
    BY <1>6, <2>1, <2>2, <2>3
       DEF Persist, Activate, ActivateUnacknowledged, Heartbeat, Finish, Transaction
<1> QED
  BY <1>1, <1>2, <1>3, <1>4, <1>5, <1>6 DEF Next, Run

-----------------------------------------------------------------------------
\* No attempt is lost or counted twice.
THEOREM AttemptsCounted == Spec => RetryCountsAttempts
<1> DEFINE Counts(j) ==
      /\ (status[j] = "PROCESSING" /\ ~lapsed[j]
              /\ status'[j] \in {"PENDING", "DEAD_LETTER"})
            => retry'[j] = retry[j] + 1
      /\ (status[j] # "NONE" /\ retry'[j] # retry[j])
            => retry'[j] = retry[j] + 1 /\ status[j] = "PROCESSING"
<1>1. ASSUME TableInv, Transaction, NEW j \in Jobs PROVE Counts(j)
  <2> USE <1>1 DEF TableInv, TablesTypeOK
  <2>1. CASE UNCHANGED tableVars
    BY <2>1 DEF tableVars
  <2>2. CASE RecoverTx
    BY <2>2 DEF RecoverTx, Stale
  <2>3. ASSUME NEW i \in Jobs,
               \/ CloseTx(i) \/ PersistTx(i) \/ ActivateTx(i)
               \/ LeaseRunsOut(i) \/ BackoffEnds(i)
        PROVE  Counts(j)
    BY <2>3 DEF CloseTx, PersistTx, ActivateTx, LeaseRunsOut, BackoffEnds, Eligible,
                jobVars
  <2>4. ASSUME NEW i \in Jobs, NEW d \in Docs, Register(i, d) PROVE Counts(j)
    BY <2>4 DEF Register
  <2>5. ASSUME NEW i \in Jobs, NEW batch \in SUBSET Chunks, SaveBatchTx(i, batch)
        PROVE  Counts(j)
    BY <2>5 DEF SaveBatchTx, jobVars
  <2>6. ASSUME NEW i \in Jobs, NEW w \in Workers,
               ClaimTx(w, i) \/ HeartbeatTx(w, i) \/ CompleteTx(w, i)
        PROVE  Counts(j)
    BY <2>6 DEF ClaimTx, HeartbeatTx, CompleteTx, Eligible
  <2>7. ASSUME NEW i \in Jobs, NEW w \in Workers, FailTx(w, i, retry[i] + 1)
        PROVE  Counts(j)
    BY <2>7 DEF FailTx, Owns
  <2> QED
    BY <2>1, <2>2, <2>3, <2>4, <2>5, <2>6, <2>7 DEF Transaction
<1>2. IInv /\ [Next]_vars => [\A j \in Jobs : Counts(j)]_vars
  BY <1>1, StepIsTransaction DEF IInv
<1> QED
  BY <1>2, Invariance, PTL DEF Spec, RetryCountsAttempts

\* A version whose job was given up is never published again.
THEOREM GivenUpForGood == Spec => GivenUpStaysGivenUp
<1> DEFINE Final(j) ==
      status[j] = "DEAD_LETTER" =>
          /\ status'[j] = "DEAD_LETTER"
          /\ version'[j] = "ACTIVE" => version[j] = "ACTIVE"
<1>1. ASSUME TableInv, Transaction, NEW j \in Jobs PROVE Final(j)
  <2> USE <1>1 DEF TableInv, TablesTypeOK
  <2>1. CASE UNCHANGED tableVars
    BY <2>1 DEF tableVars
  <2>2. CASE RecoverTx
    BY <2>2 DEF RecoverTx, Stale, MovedOn
  <2>3. ASSUME NEW i \in Jobs,
               CloseTx(i) \/ PersistTx(i) \/ LeaseRunsOut(i) \/ BackoffEnds(i)
        PROVE  Final(j)
    BY <2>3 DEF CloseTx, PersistTx, LeaseRunsOut, BackoffEnds, Eligible, jobVars,
                versionVars
  <2>4. ASSUME NEW i \in Jobs, ActivateTx(i) PROVE Final(j)
    BY <2>4 DEF ActivateTx, Activatable, JobAndVersionAgree, jobVars
  <2>5. ASSUME NEW i \in Jobs, NEW d \in Docs, Register(i, d) PROVE Final(j)
    BY <2>5 DEF Register
  <2>6. ASSUME NEW i \in Jobs, NEW batch \in SUBSET Chunks, SaveBatchTx(i, batch)
        PROVE  Final(j)
    BY <2>6 DEF SaveBatchTx, jobVars
  <2>7. ASSUME NEW i \in Jobs, NEW w \in Workers,
               \/ ClaimTx(w, i) \/ HeartbeatTx(w, i) \/ CompleteTx(w, i)
               \/ FailTx(w, i, retry[i] + 1)
        PROVE  Final(j)
    BY <2>7 DEF ClaimTx, HeartbeatTx, CompleteTx, FailTx, Eligible, Owns, versionVars
  <2> QED
    BY <2>1, <2>2, <2>3, <2>4, <2>5, <2>6, <2>7 DEF Transaction
<1>2. IInv /\ [Next]_vars => [\A j \in Jobs : Final(j)]_vars
  BY <1>1, StepIsTransaction DEF IInv
<1> QED
  BY <1>2, Invariance, PTL DEF Spec, GivenUpStaysGivenUp

\* max_retries = 0, which the CHECK of change_log and mark_failed allow, is a budget
\* of no attempt at all: no job is ever claimed, completed or given up.
NothingRuns == \A j \in Jobs : status[j] \in {"NONE", "PENDING"}

\* CLAIM_JOB_SQL never finds a row with retry_count < max_retries, and nothing but
\* a claim moves a PENDING job.
THEOREM NoBudgetNoAttempt ==
  ASSUME MaxRetries = 0
  PROVE  Spec => []NothingRuns
<1>1. Init => NothingRuns
  BY DEF Init, TablesInit, NothingRuns
<1>2. ASSUME TableInv, Transaction, NothingRuns PROVE NothingRuns'
  <2> USE <1>2 DEF TableInv, TablesTypeOK, NothingRuns
  <2>1. \A j \in Jobs : ~Eligible(j)
    BY DEF Eligible
  <2>2. CASE UNCHANGED tableVars
    BY <2>2 DEF tableVars
  <2>3. CASE RecoverTx
    BY <2>3 DEF RecoverTx, Stale
  <2>4. ASSUME NEW i \in Jobs,
               PersistTx(i) \/ ActivateTx(i) \/ LeaseRunsOut(i) \/ BackoffEnds(i)
        PROVE  NothingRuns'
    BY <2>4 DEF PersistTx, ActivateTx, LeaseRunsOut, BackoffEnds, jobVars
  <2>5. ASSUME NEW i \in Jobs, NEW d \in Docs, Register(i, d) PROVE NothingRuns'
    BY <2>5 DEF Register
  <2>6. ASSUME NEW i \in Jobs, NEW batch \in SUBSET Chunks, SaveBatchTx(i, batch)
        PROVE  NothingRuns'
    BY <2>6 DEF SaveBatchTx, jobVars
  <2>7. ~\E i \in Jobs, w \in Workers :
           \/ ClaimTx(w, i) \/ HeartbeatTx(w, i) \/ CompleteTx(w, i)
           \/ FailTx(w, i, retry[i] + 1)
    BY <2>1 DEF ClaimTx, HeartbeatTx, CompleteTx, FailTx, Owns
  <2>8. ASSUME NEW i \in Jobs PROVE ~CloseTx(i)
    BY <2>1 DEF CloseTx
  <2> QED
    BY <2>2, <2>3, <2>4, <2>5, <2>6, <2>7, <2>8 DEF Transaction
<1>3. IInv /\ NothingRuns /\ [Next]_vars => NothingRuns'
  BY <1>2, StepIsTransaction DEF IInv
<1> QED
  BY <1>1, <1>3, Invariance, PTL DEF Spec

-----------------------------------------------------------------------------
\* The daemon implements Publication: a step publishes, rejects or submits one
\* version, or leaves every stage as it is.
LEMMA InitRefines == Init => Pub!Init
  BY DEF Init, TablesInit, Pub!Init, stageBar, StageOf

\* Each transaction is a step of Publication on one upload, or a stutter.
LEMMA TransactionRefines ==
  ASSUME TableInv, Transaction
  PROVE  [Pub!Next]_(Pub!pubVars)
<1> USE DEF TableInv, TablesTypeOK, stageBar, StageOf, Pub!pubVars
<1> DEFINE Same == UNCHANGED <<stageBar, doc>>
<1>1. CASE UNCHANGED tableVars
  BY <1>1 DEF tableVars
<1>2. CASE RecoverTx
  BY <1>2 DEF RecoverTx, MovedOn
<1>3. ASSUME NEW j \in Jobs,
             CloseTx(j) \/ PersistTx(j) \/ LeaseRunsOut(j) \/ BackoffEnds(j)
      PROVE  Same
  BY <1>3 DEF CloseTx, PersistTx, LeaseRunsOut, BackoffEnds, versionVars
<1>4. ASSUME NEW j \in Jobs, NEW batch \in SUBSET Chunks, SaveBatchTx(j, batch)
      PROVE  Same
  BY <1>4 DEF SaveBatchTx
<1>5. ASSUME NEW j \in Jobs, NEW w \in Workers,
             ClaimTx(w, j) \/ HeartbeatTx(w, j) \/ CompleteTx(w, j)
      PROVE  Same
  BY <1>5 DEF ClaimTx, HeartbeatTx, CompleteTx, versionVars
<1>6. ASSUME NEW j \in Jobs, NEW d \in Docs, Register(j, d)
      PROVE  Pub!Submit(j, d)
  BY <1>6 DEF Register, JobAndVersionAgree, Pub!Submit
<1>7. ASSUME NEW j \in Jobs, ActivateTx(j)
      PROVE  Pub!Publish(j)
  BY <1>7 DEF ActivateTx, Activatable, Superseded, ActiveOf, Pub!Publish
<1>8. ASSUME NEW j \in Jobs, NEW w \in Workers, FailTx(w, j, retry[j] + 1)
      PROVE  Pub!Reject(j) \/ Same
  <2>1. CASE version[j] = "PROCESSING" /\ Exhausted(retry[j] + 1)
    BY <1>8, <2>1 DEF FailTx, MovedOn, Pub!Reject
  <2>2. CASE ~(version[j] = "PROCESSING" /\ Exhausted(retry[j] + 1))
    BY <1>8, <2>2 DEF FailTx, MovedOn
  <2> QED
    BY <2>1, <2>2
<1> QED
  BY <1>1, <1>2, <1>3, <1>4, <1>5, <1>6, <1>7, <1>8
     DEF Transaction, Pub!Next, Pub!Settle

\* Whatever workers, leases, retries and faults do, an upload is submitted, published
\* and superseded, or rejected, as Publication promises.
THEOREM Refinement == Spec => ImplementsPublication
<1>1. IInv /\ [Next]_vars => [Pub!Next]_(Pub!pubVars)
  BY StepIsTransaction, TransactionRefines DEF IInv
<1> QED
  BY <1>1, InitRefines, Invariance, PTL DEF Spec, ImplementsPublication, Pub!Spec
=============================================================================
