---------------------------- MODULE Upload_proofs ----------------------------
(***************************************************************************)
(* Proofs about Upload for any uploads, contents, file types and number of  *)
(* faults: UploadIInv is kept by every step, and each safety property       *)
(* follows from it.  Every step is a step of Publication, or shows nothing  *)
(* there.  A request that waits for a lock waits for one that does not.     *)
(***************************************************************************)
EXTENDS Upload, FiniteSetTheorems, TLAPS

USE DEF InTransaction, InFlight, StepNames, TransactionOver

\* The version numbers of a document, and the next one, depend on its versions
\* and their numbers only.
LEMMA SameVersions ==
  ASSUME NEW d, VersionsOf(d)' = VersionsOf(d),
         \A v \in VersionsOf(d) : number'[v] = number[v]
  PROVE  /\ {number[v] : v \in VersionsOf(d)}' = {number[v] : v \in VersionsOf(d)}
         /\ NextVersion(d)' = NextVersion(d)
BY DEF NextVersion

\* The greatest element of 0 .. n.
LEMMA MaxOfInterval ==
  ASSUME NEW n \in Nat
  PROVE  Max(0 .. n) = n
<1>1. /\ Max(0 .. n) \in 0 .. n
      /\ \A y \in 0 .. n : Max(0 .. n) >= y
  BY DEF Max
<1> QED
  BY <1>1

\* A document has finitely many versions, and the next number counts them.
LEMMA NextVersionCounts ==
  ASSUME UploadTypeOK, VersionsNumberedFromOne, NEW d,
         d \in docs \/ VersionsOf(d) = {}
  PROVE  /\ IsFiniteSet(VersionsOf(d))
         /\ Cardinality(VersionsOf(d)) \in Nat
         /\ NextVersion(d) = Cardinality(VersionsOf(d)) + 1
<1> DEFINE n == Cardinality(VersionsOf(d))
<1>1. VersionsOf(d) \in SUBSET Requests
  BY DEF UploadTypeOK, VersionsOf
<1>2. IsFiniteSet(VersionsOf(d)) /\ n \in Nat
  BY <1>1, RequestsAssumption, FS_Subset, FS_CardinalityType
<1>3. {number[v] : v \in VersionsOf(d)} = 1 .. n
  <2>1. CASE d \in docs
    BY <2>1 DEF VersionsNumberedFromOne
  <2>2. CASE VersionsOf(d) = {}
    <3>1. n = 0
      BY <2>2, FS_EmptySet
    <3> QED
      BY <2>2, <3>1
  <2> QED
    BY <2>1, <2>2
<1>4. (1 .. n) \cup {0} = 0 .. n
  BY <1>2
<1> QED
  BY <1>2, <1>3, <1>4, MaxOfInterval DEF NextVersion

\* A version number fits the number of requests.
LEMMA NextVersionInRange ==
  ASSUME UploadTypeOK, VersionsNumberedFromOne, NEW d,
         d \in docs \/ VersionsOf(d) = {}, NEW r \in Requests \ rows
  PROVE  NextVersion(d) \in 0 .. Cardinality(Requests)
<1>1. VersionsOf(d) \cup {r} \in SUBSET Requests /\ r \notin VersionsOf(d)
  BY DEF UploadTypeOK, VersionsOf
<1>2. /\ IsFiniteSet(VersionsOf(d))
      /\ Cardinality(VersionsOf(d)) \in Nat
      /\ NextVersion(d) = Cardinality(VersionsOf(d)) + 1
  BY NextVersionCounts
<1>3. Cardinality(VersionsOf(d) \cup {r}) = Cardinality(VersionsOf(d)) + 1
  BY <1>1, <1>2, FS_AddElement
<1>4. Cardinality(VersionsOf(d) \cup {r}) <= Cardinality(Requests)
  BY <1>1, RequestsAssumption, FS_Subset
<1> QED
  BY <1>2, <1>3, <1>4

\* An upload comes in; it has no version yet.
LEMMA StageKeeps ==
  ASSUME UploadIInv, NEW r \in Requests, Stage(r)
  PROVE  UploadIInv'
<1> USE RequestsAssumption, NoDocAssumption
    DEF UploadIInv, Stage, Goto, fileVars, tableVars
<1>1. UploadTypeOK'
  BY DEF UploadTypeOK, Issued
<1>2. RequestsKnown'
  BY DEF UploadTypeOK, RequestsKnown, Issued
<1>3. RowsAreCommitted'
  BY DEF RowsAreCommitted
<1>4. WithdrawnForGood'
  BY DEF WithdrawnForGood
<1>5. ContentLocked'
  BY DEF ContentLocked, RowsAreCommitted
<1>6. ContentRegisteredOnce'
  BY DEF ContentRegisteredOnce, RowsAreCommitted
<1>7. NumberReserved'
  <2>1. r \notin rows
    BY DEF RowsAreCommitted
  <2>2. \A d \in Requests : VersionsOf(d)' = VersionsOf(d)
    BY <2>1 DEF VersionsOf
  <2>3. \A d \in Requests : NextVersion(d)' = NextVersion(d)
    BY <2>2, SameVersions
  <2> QED
    BY <2>3 DEF UploadTypeOK, NumberReserved
<1>8. VersionsNumberedFromOne'
  BY DEF VersionsNumberedFromOne, VersionsOf, RowsAreCommitted
<1>9. MovedBeforeCommit'
  BY DEF MovedBeforeCommit, RowsAreCommitted
<1>10. NoStrayFiles'
  BY DEF UploadTypeOK, NoStrayFiles
<1> QED
  BY <1>1, <1>2, <1>3, <1>4, <1>5, <1>6, <1>7, <1>8, <1>9, <1>10

\* The request moves on, or fails; what it granted or waited for, the content's
\* lock included, is in its step alone.
LEMMA QuietKeeps ==
  ASSUME UploadIInv, NEW r \in Requests,
         \/ Check(r) \/ FindDuplicate(r) \/ MissDocument(r)
         \/ Abort(r) \/ CancelMove(r)
  PROVE  UploadIInv'
<1> USE RequestsAssumption, NoDocAssumption
    DEF UploadIInv, Check, FindDuplicate, MissDocument, Abort, CancelMove, Fault,
        Goto, fileVars, tableVars
<1>1. UploadTypeOK'
  BY UploadFaultsAssumption DEF UploadTypeOK
<1>2. RequestsKnown'
  BY DEF UploadTypeOK, RequestsKnown, Issued
<1>3. RowsAreCommitted'
  BY DEF UploadTypeOK, RowsAreCommitted
<1>4. WithdrawnForGood'
  BY DEF WithdrawnForGood, UploadTypeOK
<1>5. ContentLocked'
  BY DEF UploadTypeOK, ContentLocked, HashFree, Registered
<1>6. ContentRegisteredOnce'
  BY DEF ContentRegisteredOnce
<1>7. NumberReserved'
  BY SameVersions DEF UploadTypeOK, NumberReserved, VersionsOf
<1>8. VersionsNumberedFromOne'
  <2>1. \A e \in docs' : VersionsOf(e)' = VersionsOf(e)
    BY DEF VersionsOf
  <2>2. docs' \subseteq docs /\ number' = number
    OBVIOUS
  <2> QED
    BY <2>1, <2>2 DEF VersionsNumberedFromOne
<1>9. MovedBeforeCommit'
  BY DEF UploadTypeOK, MovedBeforeCommit
<1>10. NoStrayFiles'
  BY DEF UploadTypeOK, NoStrayFiles
<1> QED
  BY <1>1, <1>2, <1>3, <1>4, <1>5, <1>6, <1>7, <1>8, <1>9, <1>10

\* A fresh document has no version, so that 1 is the next number.
LEMMA PlaceNewKeeps ==
  ASSUME UploadIInv, NEW r \in Requests, PlaceNew(r)
  PROVE  UploadIInv'
<1> USE RequestsAssumption, NoDocAssumption
    DEF UploadIInv, PlaceNew, Goto, fileVars, tableVars
<1>1. r \notin rows \cup docs
  BY DEF RowsAreCommitted
<1>2. VersionsOf(r) = {}
  BY DEF RowsAreCommitted, VersionsOf
<1>3. \A d \in Requests : VersionsOf(d)' = VersionsOf(d)
  BY <1>1 DEF VersionsOf
<1>4. \A d \in Requests :
         /\ {number[v] : v \in VersionsOf(d)}' = {number[v] : v \in VersionsOf(d)}
         /\ NextVersion(d)' = NextVersion(d)
  BY <1>3, SameVersions DEF VersionsOf
<1>5. NextVersion(r) = 1
  BY <1>2, NextVersionCounts, FS_EmptySet
<1>6. UploadTypeOK'
  <2>1. Cardinality(Requests) \in Nat \ {0}
    BY FS_CardinalityType, FS_EmptySet
  <2> QED
    BY <2>1 DEF UploadTypeOK
<1>7. RequestsKnown'
  BY DEF UploadTypeOK, RequestsKnown, Issued
<1>8. RowsAreCommitted'
  BY DEF RowsAreCommitted
<1>9. WithdrawnForGood'
  BY DEF WithdrawnForGood
<1>10. ContentLocked'
  BY DEF ContentLocked
<1>11. ContentRegisteredOnce'
  BY DEF ContentRegisteredOnce
<1>12. NumberReserved'
  BY <1>1, <1>4, <1>5 DEF UploadTypeOK, NumberReserved
<1>13. VersionsNumberedFromOne'
  BY <1>3, <1>4 DEF UploadTypeOK, VersionsNumberedFromOne
<1>14. MovedBeforeCommit'
  BY DEF MovedBeforeCommit
<1>15. NoStrayFiles'
  BY DEF NoStrayFiles
<1> QED
  BY <1>6, <1>7, <1>8, <1>9, <1>10, <1>11, <1>12, <1>13, <1>14, <1>15

\* The row lock makes the request the only one with a number of its document.
LEMMA PlaceNextKeeps ==
  ASSUME UploadIInv, NEW r \in Requests, PlaceNext(r)
  PROVE  UploadIInv'
<1> USE RequestsAssumption, NoDocAssumption
    DEF UploadIInv, PlaceNext, Goto, fileVars, tableVars
<1>1. r \notin rows /\ target[r] \in Requests
  BY DEF RowsAreCommitted, UploadTypeOK
<1>2. \A d \in Requests : VersionsOf(d)' = VersionsOf(d)
  BY DEF VersionsOf
<1>3. \A d \in Requests :
         /\ {number[v] : v \in VersionsOf(d)}' = {number[v] : v \in VersionsOf(d)}
         /\ NextVersion(d)' = NextVersion(d)
  BY <1>1, SameVersions DEF VersionsOf
<1>4. NextVersion(target[r]) \in 0 .. Cardinality(Requests)
  BY <1>1, NextVersionInRange
<1>5. UploadTypeOK'
  BY <1>4 DEF UploadTypeOK
<1>6. RequestsKnown'
  BY DEF RequestsKnown, Issued
<1>7. RowsAreCommitted'
  BY DEF RowsAreCommitted
<1>8. WithdrawnForGood'
  BY DEF WithdrawnForGood
<1>9. ContentLocked'
  BY DEF ContentLocked
<1>10. ContentRegisteredOnce'
  BY DEF ContentRegisteredOnce
<1>11. NumberReserved'
  BY <1>3 DEF UploadTypeOK, NumberReserved, DocFree
<1>12. VersionsNumberedFromOne'
  BY <1>2, <1>3 DEF UploadTypeOK, VersionsNumberedFromOne
<1>13. MovedBeforeCommit'
  BY DEF MovedBeforeCommit
<1>14. NoStrayFiles'
  BY DEF NoStrayFiles
<1> QED
  BY <1>5, <1>6, <1>7, <1>8, <1>9, <1>10, <1>11, <1>12, <1>13, <1>14

\* The file moves before the commit, or behind the back of a cancelled request.
LEMMA MoveKeeps ==
  ASSUME UploadIInv, NEW r \in Requests, MoveFile(r) \/ LateMove(r)
  PROVE  UploadIInv'
<1> USE RequestsAssumption, NoDocAssumption
    DEF UploadIInv, MoveFile, LateMove, requestVars, Goto, fileVars, tableVars
<1>1. UploadTypeOK'
  BY DEF UploadTypeOK
<1>2. RequestsKnown'
  BY DEF UploadTypeOK, RequestsKnown, Issued
<1>3. RowsAreCommitted'
  BY DEF UploadTypeOK, RowsAreCommitted
<1>4. WithdrawnForGood'
  BY DEF WithdrawnForGood, UploadTypeOK
<1>5. ContentLocked'
  BY DEF UploadTypeOK, ContentLocked
<1>6. ContentRegisteredOnce'
  BY DEF ContentRegisteredOnce
<1>7. NumberReserved'
  BY SameVersions DEF UploadTypeOK, NumberReserved, VersionsOf
<1>8. VersionsNumberedFromOne'
  BY DEF VersionsNumberedFromOne, VersionsOf, RowsAreCommitted
<1>9. MovedBeforeCommit'
  BY DEF UploadTypeOK, MovedBeforeCommit
<1>10. NoStrayFiles'
  BY DEF UploadTypeOK, NoStrayFiles
<1> QED
  BY <1>1, <1>2, <1>3, <1>4, <1>5, <1>6, <1>7, <1>8, <1>9, <1>10

\* The commit registers a content nobody has registered, and the number that was
\* reserved, which is still the next one.
LEMMA CommitKeeps ==
  ASSUME UploadIInv, NEW r \in Requests, Commit(r) \/ CommitUnknown(r)
  PROVE  UploadIInv'
<1> USE RequestsAssumption, NoDocAssumption
    DEF UploadIInv, Commit, CommitUnknown, CommitTx, Committable, Over, Fault, Goto,
        fileVars, tableVars
<1>1. /\ target[r] \in docs \cup {r} /\ target[r] \in Requests
      /\ r \notin rows /\ step[r] = "moved"
      /\ number[r] = NextVersion(target[r])
  BY DEF RowsAreCommitted, NumberReserved, UploadTypeOK
<1>2. target[r] \in docs \/ VersionsOf(target[r]) = {}
  BY DEF RowsAreCommitted, VersionsOf
<1>3. UploadTypeOK'
  <2>1. type[r] \in Types
    BY DEF RequestsKnown
  <2>2. rows' \subseteq Requests /\ docs' \subseteq Requests /\ faults' \in 0 .. MaxFaults
    BY <1>1, UploadFaultsAssumption DEF UploadTypeOK
  <2>3. work' \in [rows' -> {"PENDING", "PROCESSING", "ACTIVE", "ARCHIVED", "FAILED"}]
    BY DEF UploadTypeOK
  <2>4. fileType' \in [docs' -> Types]
    BY <2>1 DEF UploadTypeOK
  <2> QED
    BY <2>2, <2>3, <2>4 DEF UploadTypeOK
<1>4. RequestsKnown'
  BY DEF UploadTypeOK, RequestsKnown, Issued
<1>5. RowsAreCommitted'
  BY <1>1 DEF UploadTypeOK, RowsAreCommitted
<1>6. WithdrawnForGood'
  BY <1>1 DEF WithdrawnForGood, UploadTypeOK
<1>7. ContentLocked'
  BY DEF UploadTypeOK, ContentLocked
<1>8. ContentRegisteredOnce'
  BY DEF UploadTypeOK, ContentRegisteredOnce, ContentLocked
<1>9. NumberReserved'
  BY SameVersions DEF UploadTypeOK, NumberReserved, VersionsOf
<1>10. VersionsNumberedFromOne'
  <2> SUFFICES ASSUME NEW d \in docs'
               PROVE  {number[v] : v \in VersionsOf(d)}' = 1 .. Cardinality(VersionsOf(d)')
    BY DEF VersionsNumberedFromOne
  <2>1. CASE d # target[r]
    <3>1. d \in docs /\ VersionsOf(d)' = VersionsOf(d)
      BY <2>1 DEF VersionsOf
    <3> QED
      BY <3>1 DEF VersionsNumberedFromOne
  <2>2. CASE d = target[r]
    <3> DEFINE n == Cardinality(VersionsOf(d))
    <3>1. VersionsOf(d)' = VersionsOf(d) \cup {r} /\ r \notin VersionsOf(d)
      BY <2>2, <1>1 DEF VersionsOf
    <3>2. IsFiniteSet(VersionsOf(d)) /\ n \in Nat /\ number[r] = n + 1
      BY <2>2, <1>1, <1>2, NextVersionCounts
    <3>3. Cardinality(VersionsOf(d)') = n + 1
      BY <3>1, <3>2, FS_AddElement
    <3>4. {number[v] : v \in VersionsOf(d)} = 1 .. n
      BY <1>2, <3>2, FS_EmptySet DEF VersionsNumberedFromOne
    <3>5. {number[v] : v \in VersionsOf(d)}' = (1 .. n) \cup {n + 1}
      BY <3>1, <3>2, <3>4
    <3> QED
      BY <3>2, <3>3, <3>5
  <2> QED
    BY <2>1, <2>2
<1>11. MovedBeforeCommit'
  BY DEF UploadTypeOK, MovedBeforeCommit
<1>12. NoStrayFiles'
  BY DEF UploadTypeOK, NoStrayFiles
<1> QED
  BY <1>3, <1>4, <1>5, <1>6, <1>7, <1>8, <1>9, <1>10, <1>11, <1>12

\* What is left of the request is removed, unless a fault keeps it.
LEMMA EndKeeps ==
  ASSUME UploadIInv, NEW r \in Requests, Compensate(r) \/ Accept(r)
  PROVE  UploadIInv'
<1> USE RequestsAssumption, NoDocAssumption
    DEF UploadIInv, Compensate, Accept, Removed, Goto, fileVars, tableVars
<1>1. UploadTypeOK'
  BY DEF UploadTypeOK
<1>2. RequestsKnown'
  BY DEF UploadTypeOK, RequestsKnown, Issued
<1>3. RowsAreCommitted'
  BY DEF UploadTypeOK, RowsAreCommitted
<1>4. WithdrawnForGood'
  BY DEF WithdrawnForGood, UploadTypeOK
<1>5. ContentLocked'
  BY DEF UploadTypeOK, ContentLocked
<1>6. ContentRegisteredOnce'
  BY DEF ContentRegisteredOnce
<1>7. NumberReserved'
  BY SameVersions DEF UploadTypeOK, NumberReserved, VersionsOf
<1>8. VersionsNumberedFromOne'
  BY DEF VersionsNumberedFromOne, VersionsOf
<1>9. MovedBeforeCommit'
  BY DEF UploadTypeOK, MovedBeforeCommit
<1>10. NoStrayFiles'
  BY DEF UploadTypeOK, NoStrayFiles
<1> QED
  BY <1>1, <1>2, <1>3, <1>4, <1>5, <1>6, <1>7, <1>8, <1>9, <1>10

\* A document goes with all of its versions, their files are to follow.
LEMMA DeleteKeeps ==
  ASSUME UploadIInv, NEW d \in Requests, Delete(d) \/ DeleteUnknown(d)
  PROVE  UploadIInv'
<1> USE RequestsAssumption, NoDocAssumption
    DEF UploadIInv, Delete, DeleteUnknown, DeleteTx, DeletedWith, DocFree, Restrict,
        Fault, requestVars, fileVars, tableVars
<1>1. UploadTypeOK'
  <2>1. fileType' \in [docs' -> Types]
    BY DEF UploadTypeOK
  <2>2. VersionsOf(d) \subseteq Requests
    BY DEF UploadTypeOK, VersionsOf
  <2>3. faults' \in 0 .. MaxFaults
    BY UploadFaultsAssumption DEF UploadTypeOK
  <2> QED
    BY <2>1, <2>2, <2>3 DEF UploadTypeOK
<1>2. RequestsKnown'
  BY DEF RequestsKnown, Issued
<1>3. RowsAreCommitted'
  BY DEF RowsAreCommitted, VersionsOf
<1>4. WithdrawnForGood'
  <2>1. \A v \in VersionsOf(d) :
           v \in rows /\ target[v] = d /\ step[v] \in TransactionOver
    BY DEF VersionsOf, RowsAreCommitted
  <2>2. d \in docs /\ step[d] \in TransactionOver
    BY DEF RowsAreCommitted
  <2> QED
    BY <2>1, <2>2 DEF WithdrawnForGood
<1>5. ContentLocked'
  BY DEF ContentLocked
<1>6. ContentRegisteredOnce'
  BY DEF ContentRegisteredOnce
<1>7. NumberReserved'
  BY SameVersions DEF NumberReserved, VersionsOf
<1>8. VersionsNumberedFromOne'
  <2>1. \A e \in docs' : VersionsOf(e)' = VersionsOf(e)
    BY DEF VersionsOf
  <2>2. docs' \subseteq docs /\ number' = number
    OBVIOUS
  <2> QED
    BY <2>1, <2>2 DEF VersionsNumberedFromOne
<1>9. MovedBeforeCommit'
  BY DEF MovedBeforeCommit
<1>10. NoStrayFiles'
  BY DEF NoStrayFiles
<1> QED
  BY <1>1, <1>2, <1>3, <1>4, <1>5, <1>6, <1>7, <1>8, <1>9, <1>10

\* Files of deleted versions go, or get stuck.
LEMMA UnlinkKeeps ==
  ASSUME UploadIInv, NEW v \in Requests, Unlink(v) \/ UnlinkFails(v)
  PROVE  UploadIInv'
<1> USE RequestsAssumption, NoDocAssumption
    DEF UploadIInv, Unlink, UnlinkFails, Removed, Fault, requestVars, fileVars,
        tableVars
<1>1. UploadTypeOK'
  BY UploadFaultsAssumption DEF UploadTypeOK
<1>2. RequestsKnown'
  BY DEF RequestsKnown, Issued
<1>3. RowsAreCommitted'
  BY DEF RowsAreCommitted
<1>4. WithdrawnForGood'
  BY DEF WithdrawnForGood
<1>5. ContentLocked'
  BY DEF ContentLocked
<1>6. ContentRegisteredOnce'
  BY DEF ContentRegisteredOnce
<1>7. NumberReserved'
  BY SameVersions DEF NumberReserved, VersionsOf
<1>8. VersionsNumberedFromOne'
  BY DEF VersionsNumberedFromOne, VersionsOf
<1>9. MovedBeforeCommit'
  BY DEF MovedBeforeCommit, RowsAreCommitted
<1>10. NoStrayFiles'
  BY DEF NoStrayFiles
<1> QED
  BY <1>1, <1>2, <1>3, <1>4, <1>5, <1>6, <1>7, <1>8, <1>9, <1>10

\* A crash forgets requests and pending removals, and their locks with them.
LEMMA CrashKeeps ==
  ASSUME UploadIInv, NEW S \in SUBSET Requests, Crash(S)
  PROVE  UploadIInv'
<1> USE RequestsAssumption, NoDocAssumption
    DEF UploadIInv, Crash, Fault, Goto, fileVars, tableVars
<1>1. UploadTypeOK'
  BY UploadFaultsAssumption DEF UploadTypeOK
<1>2. RequestsKnown'
  BY DEF RequestsKnown, Issued
<1>3. RowsAreCommitted'
  BY DEF UploadTypeOK, RowsAreCommitted
<1>4. WithdrawnForGood'
  BY DEF WithdrawnForGood, UploadTypeOK
<1>5. ContentLocked'
  BY DEF ContentLocked
<1>6. ContentRegisteredOnce'
  BY DEF ContentRegisteredOnce
<1>7. NumberReserved'
  BY SameVersions DEF NumberReserved, VersionsOf
<1>8. VersionsNumberedFromOne'
  <2>1. \A e \in docs' : VersionsOf(e)' = VersionsOf(e)
    BY DEF VersionsOf
  <2>2. docs' \subseteq docs /\ number' = number
    OBVIOUS
  <2> QED
    BY <2>1, <2>2 DEF VersionsNumberedFromOne
<1>9. MovedBeforeCommit'
  BY DEF UploadTypeOK, MovedBeforeCommit
<1>10. NoStrayFiles'
  BY DEF UploadTypeOK, NoStrayFiles, MovedBeforeCommit
<1> QED
  BY <1>1, <1>2, <1>3, <1>4, <1>5, <1>6, <1>7, <1>8, <1>9, <1>10

\* The worker moves the status of a version only.
LEMMA WorkKeeps ==
  ASSUME UploadIInv, NEW v \in Requests,
         Claim(v) \/ Publish(v) \/ Retry(v) \/ GiveUp(v)
  PROVE  UploadIInv'
<1> USE RequestsAssumption, NoDocAssumption
    DEF UploadIInv, Claim, Publish, Retry, GiveUp, WorkOn, requestVars, fileVars,
        tableVars
<1>1. UploadTypeOK'
  BY DEF UploadTypeOK
<1>2. RequestsKnown'
  BY DEF RequestsKnown, Issued
<1>3. RowsAreCommitted'
  BY DEF RowsAreCommitted
<1>4. WithdrawnForGood'
  BY DEF WithdrawnForGood
<1>5. ContentLocked'
  BY DEF ContentLocked
<1>6. ContentRegisteredOnce'
  BY DEF ContentRegisteredOnce
<1>7. NumberReserved'
  BY SameVersions DEF NumberReserved, VersionsOf
<1>8. VersionsNumberedFromOne'
  <2>1. \A d \in docs : VersionsOf(d)' = VersionsOf(d)
    BY DEF VersionsOf
  <2> QED
    BY <2>1 DEF VersionsNumberedFromOne
<1>9. MovedBeforeCommit'
  BY DEF MovedBeforeCommit
<1>10. NoStrayFiles'
  BY DEF NoStrayFiles
<1> QED
  BY <1>1, <1>2, <1>3, <1>4, <1>5, <1>6, <1>7, <1>8, <1>9, <1>10

-----------------------------------------------------------------------------
\* UploadIInv is an inductive invariant of the uploads, deletes and crashes.
THEOREM UploadInvariance == Spec => []UploadIInv
<1>1. Init => UploadIInv
  <2> SUFFICES ASSUME Init PROVE UploadIInv
    OBVIOUS
  <2>1. UploadTypeOK
    BY RequestsAssumption, UploadFaultsAssumption, FS_CardinalityType
       DEF Init, UploadTypeOK
  <2>2. /\ RequestsKnown /\ RowsAreCommitted /\ WithdrawnForGood
        /\ ContentLocked /\ ContentRegisteredOnce
    BY DEF Init, RequestsKnown, RowsAreCommitted, WithdrawnForGood, ContentLocked,
           ContentRegisteredOnce
  <2>3. NumberReserved /\ VersionsNumberedFromOne /\ MovedBeforeCommit /\ NoStrayFiles
    BY DEF Init, NumberReserved, VersionsNumberedFromOne, MovedBeforeCommit, NoStrayFiles
  <2> QED
    BY <2>1, <2>2, <2>3 DEF UploadIInv
<1>2. UploadIInv /\ [Next]_vars => UploadIInv'
  <2> SUFFICES ASSUME UploadIInv, [Next]_vars PROVE UploadIInv'
    OBVIOUS
  <2>1. CASE UNCHANGED vars
    <3>1. \A d : VersionsOf(d)' = VersionsOf(d) /\ NextVersion(d)' = NextVersion(d)
      BY <2>1 DEF vars, requestVars, tableVars, VersionsOf, NextVersion
    <3> QED
      BY <2>1, <3>1
         DEF vars, requestVars, fileVars, tableVars, UploadIInv, UploadTypeOK,
             RequestsKnown, Issued, RowsAreCommitted, WithdrawnForGood, ContentLocked,
             ContentRegisteredOnce, NumberReserved, VersionsNumberedFromOne,
             MovedBeforeCommit, NoStrayFiles
  <2>2. ASSUME NEW r \in Requests,
               \/ Stage(r) \/ Handle(r) \/ Abort(r)
               \/ CancelMove(r) \/ LateMove(r) \/ CommitUnknown(r)
        PROVE  UploadIInv'
    BY <2>2, StageKeeps, QuietKeeps, PlaceNewKeeps, PlaceNextKeeps, MoveKeeps,
       CommitKeeps, EndKeeps DEF Handle
  <2>3. ASSUME NEW r \in Requests,
               \/ Delete(r) \/ DeleteUnknown(r) \/ Unlink(r) \/ UnlinkFails(r)
               \/ Claim(r) \/ Publish(r) \/ Retry(r) \/ GiveUp(r)
        PROVE  UploadIInv'
    BY <2>3, DeleteKeeps, UnlinkKeeps, WorkKeeps
  <2> QED
    BY <2>1, <2>2, <2>3, CrashKeeps DEF Next
<1> QED
  BY <1>1, <1>2, PTL DEF Spec

\* Type correctness of the requests, files and tables.
THEOREM UploadTypeCorrect == Spec => []UploadTypeOK
<1>1. UploadIInv => UploadTypeOK
  BY DEF UploadIInv
<1> QED
  BY <1>1, UploadInvariance, PTL

\* No content is registered twice.
THEOREM ContentsAreUnique == Spec => []ContentRegisteredOnce
<1>1. UploadIInv => ContentRegisteredOnce
  BY DEF UploadIInv
<1> QED
  BY <1>1, UploadInvariance, PTL

\* The versions of a document are numbered without gap or repetition.
THEOREM NumbersHaveNoGap == Spec => []VersionsNumberedFromOne
<1>1. UploadIInv => VersionsNumberedFromOne
  BY DEF UploadIInv
<1> QED
  BY <1>1, UploadInvariance, PTL

\* A registered version whose upload was not refused has its file.
THEOREM SourceIsKept == Spec => []AnsweredHasSource
<1>1. UploadIInv => AnsweredHasSource
  BY DEF UploadIInv, MovedBeforeCommit, AnsweredHasSource
<1> QED
  BY <1>1, UploadInvariance, PTL

\* Every file has an owner who will remove it, but those that faults left.
THEOREM FilesHaveOwners == Spec => []NoStrayFiles
<1>1. UploadIInv => NoStrayFiles
  BY DEF UploadIInv
<1> QED
  BY <1>1, UploadInvariance, PTL

-----------------------------------------------------------------------------
\* The guards of Handle(r): a staged request waits for the lock of its content,
\* a checked one for the row of its document, if that exists, no other one waits.
Unblocked(r) ==
    \/ step[r] = "staged" /\ HashFree(content[r])
    \/ step[r] = "checked" /\ (target[r] \in docs => DocFree(target[r]))
    \/ step[r] \in {"placed", "moved", "committed", "error", "cut"}

SomebodyUnblocked ==
    (\E r \in Requests : step[r] \in InFlight)
        => \E r \in Requests : step[r] \in InFlight /\ Unblocked(r)

\* Uploads never wait for one another in a circle: locks are taken in the order
\* content, document, so that whoever has both waits for nobody.
THEOREM LocksAreOrdered == Spec => []SomebodyUnblocked
<1>1. UploadTypeOK => SomebodyUnblocked
  <2> SUFFICES ASSUME UploadTypeOK, NEW p \in Requests, step[p] \in InFlight
               PROVE  \E r \in Requests : step[r] \in InFlight /\ Unblocked(r)
    BY DEF SomebodyUnblocked
  <2>1. ASSUME NEW q \in Requests, step[q] \in {"placed", "moved"}
        PROVE  step[q] \in InFlight /\ Unblocked(q)
    BY <2>1 DEF Unblocked
  <2>2. ASSUME NEW q \in Requests, step[q] = "checked"
        PROVE  \E r \in Requests : step[r] \in InFlight /\ Unblocked(r)
    BY <2>2 DEF Unblocked, DocFree
  <2>3. CASE step[p] = "staged"
    BY <2>2 DEF Unblocked, HashFree
  <2>4. CASE step[p] # "staged"
    BY <2>2, <2>4 DEF Unblocked
  <2> QED
    BY <2>3, <2>4
<1> QED
  BY <1>1, UploadTypeCorrect, PTL

-----------------------------------------------------------------------------
\* Uploads and deletes implement Publication: RowsAreCommitted and WithdrawnForGood
\* say that a request in its transaction has no version yet, and that a document
\* it could still commit a version of was never deleted.
Unmoved == UNCHANGED <<stageOfRequest, documentOf, withdrawnDocs>>

\* A step that leaves the versions, and the documents they are of, moves nothing.
LEMMA SameCatalogue ==
  ASSUME UNCHANGED <<rows, withdrawn>>,
         \A v \in rows \cup withdrawn : target'[v] = target[v],
         stageOfRequest' = stageOfRequest
  PROVE  Unmoved
BY DEF Unmoved, documentOf, withdrawnDocs

\* A request does so on its way to the commit and after it, and so does what
\* becomes of files.
LEMMA RequestRefines ==
  ASSUME UploadIInv,
         \/ \E r \in Requests :
               \/ Stage(r) \/ Check(r) \/ FindDuplicate(r) \/ PlaceNew(r)
               \/ PlaceNext(r) \/ MissDocument(r) \/ MoveFile(r) \/ Compensate(r)
               \/ Accept(r) \/ Abort(r) \/ CancelMove(r) \/ LateMove(r)
               \/ Unlink(r) \/ UnlinkFails(r)
         \/ \E S \in SUBSET Requests : Crash(S)
  PROVE  Unmoved
<1>1. UNCHANGED tableVars
  BY DEF Stage, Check, FindDuplicate, PlaceNew, PlaceNext, MissDocument, MoveFile,
         Compensate, Accept, Abort, CancelMove, LateMove, Unlink, UnlinkFails, Crash
<1>2. \A v \in rows \cup withdrawn : step[v] \in TransactionOver
  BY DEF UploadIInv, RowsAreCommitted, WithdrawnForGood
<1>3. \A v \in rows \cup withdrawn : target'[v] = target[v]
  BY <1>2 DEF UploadIInv, UploadTypeOK, requestVars, Stage, Check, FindDuplicate,
              PlaceNew, PlaceNext, MissDocument, MoveFile, Compensate, Accept, Abort,
              CancelMove, LateMove, Unlink, UnlinkFails, Crash
<1>4. stageOfRequest' = stageOfRequest
  BY <1>1 DEF tableVars, stageOfRequest
<1> QED
  BY <1>1, <1>3, <1>4, SameCatalogue DEF tableVars

\* The commit submits a version of a document that is there, or is new.
LEMMA CommitRefines ==
  ASSUME UploadIInv, NEW r \in Requests, Commit(r) \/ CommitUnknown(r)
  PROVE  Catalogue!Submit(r, target[r]) /\ target[r] \in Requests
<1> USE DEF UploadIInv
<1>1. /\ step[r] = "moved" /\ CommitTx(r) /\ UNCHANGED target
  BY DEF Commit, CommitUnknown, CommitTx, Committable
<1>2. /\ r \notin rows \cup withdrawn /\ target[r] \in docs \cup {r}
      /\ target[r] \in Requests
  BY <1>1 DEF RowsAreCommitted, WithdrawnForGood, NumberReserved, UploadTypeOK
<1>3. target[r] \notin withdrawnDocs
  BY <1>1, <1>2 DEF WithdrawnForGood, withdrawnDocs
<1>4. rows' = rows \cup {r} /\ withdrawn' = withdrawn
  BY <1>1 DEF CommitTx
<1>5. /\ work'[r] = "PENDING"
      /\ \A v \in rows : work'[v] = work[v]
  BY <1>1, <1>2 DEF CommitTx, Over, UploadTypeOK
<1>6. stageOfRequest[r] = "absent" /\ withdrawnDocs' = withdrawnDocs
  BY <1>1, <1>2, <1>4 DEF stageOfRequest, withdrawnDocs
<1>7. stageOfRequest' = [stageOfRequest EXCEPT ![r] = "waiting"]
  <2>1. stageOfRequest'[r] = "waiting"
    BY <1>2, <1>4, <1>5 DEF stageOfRequest, StageOf
  <2>2. ASSUME NEW u \in Requests \ {r} PROVE stageOfRequest'[u] = stageOfRequest[u]
    BY <1>4, <1>5 DEF stageOfRequest
  <2> QED
    BY <2>1, <2>2 DEF stageOfRequest
<1>8. documentOf' = [documentOf EXCEPT ![r] = target[r]]
  BY <1>1, <1>4 DEF documentOf
<1> QED
  BY <1>2, <1>3, <1>6, <1>7, <1>8 DEF Catalogue!Submit

\* A delete withdraws the document, whether its answer arrives or not.
LEMMA DeleteRefines ==
  ASSUME UploadIInv, NEW d \in Requests, Delete(d) \/ DeleteUnknown(d)
  PROVE  Catalogue!Withdraw(d) \/ Unmoved
<1> USE DEF UploadIInv
<1>1. DeleteTx(d) /\ UNCHANGED target
  BY DEF Delete, DeleteUnknown, requestVars
<1>2. /\ d \in docs
      /\ rows' = rows \ VersionsOf(d) /\ withdrawn' = withdrawn \cup VersionsOf(d)
      /\ \A v \in rows' : work'[v] = work[v]
  BY <1>1 DEF DeleteTx, Restrict
<1>3. d \notin withdrawnDocs /\ d # NoDoc
  BY <1>2, NoDocAssumption DEF WithdrawnForGood, withdrawnDocs
<1>4. \A v \in Requests : v \in VersionsOf(d) <=> documentOf[v] = d
  BY <1>3 DEF VersionsOf, documentOf, withdrawnDocs
<1>5. documentOf' = documentOf
  BY <1>1, <1>2 DEF documentOf, VersionsOf
<1>6. VersionsOf(d) \subseteq Requests
  BY DEF VersionsOf, UploadTypeOK
<1>7. CASE VersionsOf(d) = {}
  <2>1. UNCHANGED <<rows, withdrawn>>
    BY <1>2, <1>7
  <2>2. \A v \in Requests : stageOfRequest'[v] = stageOfRequest[v]
    BY <1>2, <2>1 DEF stageOfRequest
  <2>3. stageOfRequest' = stageOfRequest
    BY <2>2 DEF stageOfRequest
  <2> QED
    BY <1>1, <2>1, <2>3, SameCatalogue
<1>8. CASE VersionsOf(d) # {}
  <2>1. withdrawnDocs' = withdrawnDocs \cup {d}
    BY <1>1, <1>2, <1>8 DEF withdrawnDocs, VersionsOf
  <2>2. ASSUME NEW v \in Requests
        PROVE  stageOfRequest'[v] =
                  IF documentOf[v] = d THEN "withdrawn" ELSE stageOfRequest[v]
    BY <1>2, <1>4 DEF stageOfRequest
  <2>3. stageOfRequest' = [v \in Requests |->
                              IF documentOf[v] = d THEN "withdrawn" ELSE stageOfRequest[v]]
    BY <2>2 DEF stageOfRequest
  <2>4. \E v \in Requests : documentOf[v] = d
    BY <1>4, <1>6, <1>8
  <2> QED
    BY <1>3, <1>5, <2>1, <2>3, <2>4 DEF Catalogue!Withdraw
<1> QED
  BY <1>7, <1>8

\* The worker publishes or rejects a version, or nothing shows of what it does.
LEMMA WorkRefines ==
  ASSUME UploadIInv, NEW v \in Requests, Claim(v) \/ Publish(v) \/ Retry(v) \/ GiveUp(v)
  PROVE  Catalogue!Settle(v) \/ Unmoved
<1> USE DEF UploadIInv, UploadTypeOK
<1>1. /\ UNCHANGED <<rows, withdrawn, target>>
      /\ documentOf' = documentOf /\ withdrawnDocs' = withdrawnDocs
  BY DEF Claim, Publish, Retry, GiveUp, WorkOn, requestVars, documentOf, withdrawnDocs
<1>2. \A u \in rows : u \notin withdrawn
  BY DEF WithdrawnForGood
<1>3. CASE Claim(v) \/ Retry(v)
  <2>1. stageOfRequest' = stageOfRequest
    BY <1>3 DEF Claim, Retry, WorkOn, stageOfRequest, StageOf
  <2> QED
    BY <1>1, <2>1 DEF Unmoved
<1>4. CASE GiveUp(v)
  <2>1. /\ stageOfRequest[v] = "waiting"
        /\ stageOfRequest' = [stageOfRequest EXCEPT ![v] = "rejected"]
    BY <1>1, <1>2, <1>4 DEF GiveUp, WorkOn, stageOfRequest, StageOf
  <2> QED
    BY <1>1, <2>1 DEF Catalogue!Settle, Catalogue!Reject
<1>5. CASE Publish(v)
  <2>1. v \in rows /\ work[v] = "PROCESSING" /\ stageOfRequest[v] = "waiting"
    BY <1>2, <1>5 DEF Publish, stageOfRequest, StageOf
  <2>2. \A u \in Requests :
           u \in PublishedOf(target[v]) <=>
              documentOf[u] = documentOf[v] /\ stageOfRequest[u] = "published"
    BY <1>2, <2>1 DEF PublishedOf, VersionsOf, documentOf, stageOfRequest, StageOf
  <2>3. stageOfRequest' =
           [u \in Requests |-> IF u = v THEN "published"
                               ELSE IF u \in PublishedOf(target[v]) THEN "superseded"
                               ELSE stageOfRequest[u]]
    BY <1>2, <1>5 DEF Publish, PublishedOf, VersionsOf, stageOfRequest, StageOf
  <2> QED
    BY <1>1, <2>1, <2>2, <2>3 DEF Catalogue!Settle, Catalogue!Publish
<1> QED
  BY <1>3, <1>4, <1>5

\* The API implements Publication, whatever overlaps, fails or crashes: a version
\* is submitted once, a delete takes all versions of its document, and no upload
\* that was under way brings the document back.
THEOREM UploadRefinement == Spec => UploadsImplementPublication
<1>1. Init => Catalogue!Init
  BY DEF Init, stageOfRequest, documentOf, withdrawnDocs, Catalogue!Init
<1>2. ASSUME UploadIInv, [Next]_vars PROVE [Catalogue!Next]_(Catalogue!pubVars)
  <2>1. CASE UNCHANGED vars
    BY <2>1 DEF vars, requestVars, tableVars, stageOfRequest, documentOf, withdrawnDocs,
                Catalogue!pubVars
  <2>2. CASE Next
    BY <1>2, <2>2, RequestRefines, CommitRefines, DeleteRefines, WorkRefines
       DEF Next, Handle, Unmoved, Catalogue!pubVars, Catalogue!Next
  <2> QED
    BY <1>2, <2>1, <2>2
<1> QED
  BY <1>1, <1>2, UploadInvariance, PTL
     DEF Spec, UploadsImplementPublication, Catalogue!Spec
=============================================================================
