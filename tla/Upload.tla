------------------------------- MODULE Upload -------------------------------
(***************************************************************************)
(* upload_document and delete_document of src/api/routes.py with the two    *)
(* places they keep state in: the tables and the directory of source files. *)
(* The worker appears as far as it looks for the source of a version.       *)
(*                                                                          *)
(* A request makes at most one version and one document, so the three share *)
(* an identifier.  The transaction of _register_upload takes two locks: the *)
(* advisory lock of the content and, for a new version of a document, its   *)
(* row.  It moves the file before the commit and undoes the move when it    *)
(* sees an exception, which is not quite the same as a rollback.            *)
(*                                                                          *)
(* The API runs in several processes, and the crash of one ends some of the *)
(* requests and deletes in progress and leaves their files.  Requests that  *)
(* _stage_upload refuses leave nothing and are not modelled.                *)
(***************************************************************************)
EXTENDS Naturals, FiniteSetsExt, Functions

CONSTANTS
    Requests,   \* uploads, each with the version and document it may create
    NoDoc,      \* the document_id of an upload that asks for a new document
    Contents,   \* file contents, told apart by their SHA-256
    Types,      \* file types, each with its own file extension
    NoValue,    \* content, type of a request that has not come in
    MaxFaults   \* bound on the environment faults in a behaviour

ASSUME RequestsAssumption == IsFiniteSet(Requests)
ASSUME NoDocAssumption == NoDoc \notin Requests
ASSUME UploadFaultsAssumption == MaxFaults \in Nat

VARIABLES
    step,       \* where each request is
    target,     \* its document
    content,    \* its content
    type,       \* its file type, which gives the extension of its files
    number,     \* the version number it took
    temporary,  \* requests whose staged file exists
    final,      \* requests whose UPLOAD_DIR/<version_id><extension> exists
    rows,       \* committed versions
    work,       \* how far the worker is with each of them
    docs,       \* committed documents
    fileType,   \* documents.file_type
    withdrawn,  \* versions that went with their document: history, nothing reads it
    unlinking,  \* versions of deleted documents whose files are to be removed
    leftover,   \* versions whose files a fault keeps from being removed
    faults      \* environment faults so far

requestVars == <<step, target, content, type, number>>
fileVars == <<temporary, final, unlinking, leftover>>
tableVars == <<rows, work, docs, fileType, withdrawn>>
vars == <<requestVars, fileVars, tableVars, faults>>

\* "accepted": answered with 202, "refused": with an error, "lost": not at all.
InTransaction == {"checked", "placed", "moved"}
InFlight == {"staged", "committed", "error", "cut"} \cup InTransaction
StepNames == {"new", "accepted", "refused", "lost"} \cup InFlight

UploadTypeOK ==
    /\ step \in [Requests -> StepNames]
    /\ target \in [Requests -> Requests \cup {NoDoc}]
    /\ content \in [Requests -> Contents \cup {NoValue}]
    /\ type \in [Requests -> Types \cup {NoValue}]
    /\ number \in [Requests -> 0 .. Cardinality(Requests)]
    /\ rows \cup withdrawn \subseteq Requests
    /\ temporary \cup final \cup unlinking \cup leftover \subseteq Requests
    /\ work \in [rows -> {"PENDING", "PROCESSING", "ACTIVE", "ARCHIVED", "FAILED"}]
    /\ docs \subseteq Requests
    /\ fileType \in [docs -> Types]
    /\ faults \in 0 .. MaxFaults

Init ==
    /\ step = [r \in Requests |-> "new"]
    /\ target = [r \in Requests |-> NoDoc]
    /\ content = [r \in Requests |-> NoValue]
    /\ type = [r \in Requests |-> NoValue]
    /\ number = [r \in Requests |-> 0]
    /\ temporary = {} /\ final = {} /\ unlinking = {} /\ leftover = {}
    /\ rows = {} /\ work = << >>
    /\ docs = {} /\ fileType = << >> /\ withdrawn = {}
    /\ faults = 0

Goto(r, s) == step' = [step EXCEPT ![r] = s]

Fault ==
    /\ faults < MaxFaults
    /\ faults' = faults + 1

\* A function over S that has the values of f where f has any, else those of g.
Over(S, f, g) == [x \in S |-> IF x \in DOMAIN f THEN f[x] ELSE g[x]]

-----------------------------------------------------------------------------
\* The ids of documents, whether they still exist, or exist already, or not.
Issued == {d \in Requests : target[d] = d}

\* _stage_upload has written the temporary file and its hash.
Stage(r) ==
    /\ step[r] = "new"
    /\ Goto(r, "staged")
    /\ \E d \in Issued \cup {NoDoc} : target' = [target EXCEPT ![r] = d]
    /\ \E c \in Contents : content' = [content EXCEPT ![r] = c]
    /\ \E t \in Types : type' = [type EXCEPT ![r] = t]
    /\ temporary' = temporary \cup {r}
    /\ UNCHANGED <<number, final, unlinking, leftover, tableVars, faults>>

\* pg_advisory_xact_lock of the content: held from the check to the commit or
\* rollback.
HashNotLocked(c) == TRUE
HashLockedBySession(c) ==
    \A q \in Requests : content[q] = c => step[q] \in {"new", "staged", "lost"}
HashFree(c) == \A q \in Requests : content[q] = c => step[q] \notin InTransaction

Registered(c) == \E v \in rows : content[v] = c

\* The lock is granted and the duplicate check finds nothing.
Check(r) ==
    /\ step[r] = "staged"
    /\ HashFree(content[r])
    /\ ~Registered(content[r])
    /\ Goto(r, "checked")
    /\ UNCHANGED <<target, content, type, number, fileVars, tableVars, faults>>

\* DuplicateUploadError.
FindDuplicate(r) ==
    /\ step[r] = "staged"
    /\ HashFree(content[r])
    /\ Registered(content[r])
    /\ Goto(r, "error")
    /\ UNCHANGED <<target, content, type, number, fileVars, tableVars, faults>>

\* INSERT INTO documents with a fresh uuid, and version number 1.
PlaceNew(r) ==
    /\ step[r] = "checked"
    /\ target[r] = NoDoc
    /\ target' = [target EXCEPT ![r] = r]
    /\ number' = [number EXCEPT ![r] = 1]
    /\ Goto(r, "placed")
    /\ UNCHANGED <<content, type, fileVars, tableVars, faults>>

\* Nobody holds the row of document d.
DocNotLocked(d) == TRUE
DocFree(d) == \A q \in Requests : target[q] = d => step[q] \notin {"placed", "moved"}

VersionsOf(d) == {v \in rows : target[v] = d}
NextVersionSkipping(d) == Max({number[v] : v \in VersionsOf(d)} \cup {0}) + 2
NextVersion(d) == Max({number[v] : v \in VersionsOf(d)} \cup {0}) + 1

\* SELECT ... FOR UPDATE of the document, COALESCE(MAX(version_number), 0) + 1.
PlaceNext(r) ==
    /\ step[r] = "checked"
    /\ target[r] \in docs
    /\ DocFree(target[r])
    /\ number' = [number EXCEPT ![r] = NextVersion(target[r])]
    /\ Goto(r, "placed")
    /\ UNCHANGED <<target, content, type, fileVars, tableVars, faults>>

\* DocumentNotFoundError.
MissDocument(r) ==
    /\ step[r] = "checked"
    /\ target[r] # NoDoc
    /\ target[r] \notin docs
    /\ Goto(r, "error")
    /\ UNCHANGED <<target, content, type, number, fileVars, tableVars, faults>>

\* os.replace, the last statement of the transaction.
MoveFile(r) ==
    /\ step[r] = "placed"
    /\ Goto(r, "moved")
    /\ temporary' = temporary \ {r}
    /\ final' = final \cup {r}
    /\ UNCHANGED <<target, content, type, number, unlinking, leftover, tableVars, faults>>

\* A cancellation during the move: to_thread does not stop the thread, but
\* moved_to_final is not set.  The file may still be moved, if the request has
\* not unlinked it before, and then stays.
CancelMove(r) ==
    /\ step[r] = "placed"
    /\ Goto(r, "cut")
    /\ Fault
    /\ UNCHANGED <<target, content, type, number, fileVars, tableVars>>

LateMove(r) ==
    /\ step[r] = "cut"
    /\ r \in temporary
    /\ temporary' = temporary \ {r}
    /\ final' = final \cup {r}
    /\ leftover' = leftover \cup {r}
    /\ UNCHANGED <<requestVars, unlinking, tableVars, faults>>

CommittableBeforeMove(r) == step[r] \in {"placed", "moved"}
Committable(r) == step[r] = "moved"

\* The new version, and the document created or its metadata overwritten.
CommitTx(r) ==
    LET d == target[r] IN
    /\ Committable(r)
    /\ rows' = rows \cup {r}
    /\ work' = Over(rows \cup {r}, work, [v \in {r} |-> "PENDING"])
    /\ docs' = docs \cup {d}
    /\ fileType' = Over(docs \cup {d}, [x \in {d} |-> type[r]], fileType)
    /\ UNCHANGED withdrawn

Commit(r) ==
    /\ CommitTx(r)
    /\ Goto(r, "committed")
    /\ UNCHANGED <<target, content, type, number, fileVars, faults>>

\* The commit takes place but an exception follows: its acknowledgement is
\* lost, the connection cannot be released, or the request is cancelled.
CommitUnknown(r) ==
    /\ CommitTx(r)
    /\ Goto(r, "error")
    /\ Fault
    /\ UNCHANGED <<target, content, type, number, fileVars>>

\* Any exception before or at the commit rolls the transaction back.
Abort(r) ==
    /\ step[r] \in InTransaction \cup {"staged"}
    /\ Goto(r, "error")
    /\ UNCHANGED <<target, content, type, number, fileVars, tableVars, faults>>

\* Unlinking ignores an OSError.
Removed(files, r) == files \ ({r} \ leftover)

\* The except and finally clauses unlink the final file, if the request knows
\* that it was moved, and the staged one.
Compensate(r) ==
    /\ step[r] \in {"error", "cut"}
    /\ Goto(r, "refused")
    /\ temporary' = Removed(temporary, r)
    /\ final' = IF step[r] = "error" THEN Removed(final, r) ELSE final
    /\ UNCHANGED <<target, content, type, number, unlinking, leftover, tableVars, faults>>

Accept(r) ==
    /\ step[r] = "committed"
    /\ Goto(r, "accepted")
    /\ temporary' = Removed(temporary, r)
    /\ UNCHANGED <<target, content, type, number, final, unlinking, leftover,
                   tableVars, faults>>

-----------------------------------------------------------------------------
\* version_ids, read under the document's row lock.
PublishedOf(d) == {v \in VersionsOf(d) : work[v] = "ACTIVE"}
DeletedWith(d) == VersionsOf(d)

\* _delete_document up to its commit; Deletion looks inside this transaction.
DeleteTx(d) ==
    /\ d \in docs
    /\ DocFree(d)
    /\ \A v \in VersionsOf(d) : work[v] # "PROCESSING"
    /\ docs' = docs \ {d}
    /\ rows' = rows \ VersionsOf(d)
    /\ work' = Restrict(work, rows \ VersionsOf(d))
    /\ fileType' = Restrict(fileType, docs \ {d})
    /\ withdrawn' = withdrawn \cup VersionsOf(d)

Delete(d) ==
    /\ DeleteTx(d)
    /\ unlinking' = unlinking \cup DeletedWith(d)
    /\ UNCHANGED <<requestVars, temporary, final, leftover, faults>>

\* The commit takes place but an exception follows: no file is removed.
DeleteUnknown(d) ==
    /\ DeleteTx(d)
    /\ leftover' = leftover \cup DeletedWith(d)
    /\ Fault
    /\ UNCHANGED <<requestVars, temporary, final, unlinking>>

\* After it, the files <version_id>.* go one by one.
Unlink(v) ==
    /\ v \in unlinking
    /\ unlinking' = unlinking \ {v}
    /\ final' = Removed(final, v)
    /\ UNCHANGED <<requestVars, temporary, leftover, tableVars, faults>>

\* From now on the files of v cannot be unlinked.
UnlinkFails(v) ==
    /\ v \in (temporary \cup final) \ leftover
    /\ leftover' = leftover \cup {v}
    /\ Fault
    /\ UNCHANGED <<requestVars, temporary, final, unlinking, tableVars>>

\* The API process of the requests in S, and of the deletes that unlink the
\* files of versions in S, dies.
Crash(S) ==
    LET lost == {r \in S : step[r] \in InFlight} IN
    /\ S \subseteq lost \cup unlinking
    /\ S # {}
    /\ step' = [r \in Requests |-> IF r \in lost THEN "lost" ELSE step[r]]
    /\ unlinking' = unlinking \ S
    /\ leftover' = leftover \cup (S \ rows)
    /\ Fault
    /\ UNCHANGED <<target, content, type, number, temporary, final, tableVars>>

-----------------------------------------------------------------------------
\* The worker on version v: WorkerDaemon says in detail how it moves on.
WorkOn(v, from, to) ==
    /\ v \in rows
    /\ work[v] = from
    /\ work' = [work EXCEPT ![v] = to]
    /\ UNCHANGED <<requestVars, fileVars, rows, docs, fileType, withdrawn, faults>>

\* _source_path gives the file of v: its name has the extension of the
\* document's type now.
SourceFound(v) == v \in final /\ fileType[target[v]] = type[v]

Claim(v) == WorkOn(v, "PENDING", "PROCESSING")
Retry(v) == WorkOn(v, "PROCESSING", "PENDING")
GiveUp(v) == WorkOn(v, "PROCESSING", "FAILED")

\* activate_version archives the version of the document that was ACTIVE.
Publish(v) ==
    /\ v \in rows
    /\ work[v] = "PROCESSING"
    /\ SourceFound(v)
    /\ work' = [u \in rows |-> IF u = v THEN "ACTIVE"
                               ELSE IF u \in PublishedOf(target[v]) THEN "ARCHIVED"
                               ELSE work[u]]
    /\ UNCHANGED <<requestVars, fileVars, rows, docs, fileType, withdrawn, faults>>

-----------------------------------------------------------------------------
\* What a request does by itself; Abort and the faults may intervene.
Handle(r) ==
    \/ Check(r) \/ FindDuplicate(r) \/ PlaceNew(r) \/ PlaceNext(r) \/ MissDocument(r)
    \/ MoveFile(r) \/ Commit(r) \/ Compensate(r) \/ Accept(r)

Next ==
    \/ \E r \in Requests :
          \/ Stage(r) \/ Handle(r) \/ Abort(r)
          \/ CancelMove(r) \/ LateMove(r) \/ CommitUnknown(r)
          \/ Delete(r) \/ DeleteUnknown(r) \/ Unlink(r) \/ UnlinkFails(r)
          \/ Claim(r) \/ Publish(r) \/ Retry(r) \/ GiveUp(r)
    \/ \E S \in SUBSET Requests : Crash(S)

Spec == Init /\ [][Next]_vars

-----------------------------------------------------------------------------
\* However uploads of one file, to one document or to several, and deletes
\* overlap: no content is registered twice.  This is what the advisory lock
\* around the duplicate check of _register_upload is for.
ContentRegisteredOnce ==
    \A u, v \in rows : content[u] = content[v] => u = v

\* The versions of a document are numbered 1, 2, ... without gap or repetition,
\* also after rolled back and lost uploads: MAX(version_number) + 1 is read and
\* used under the lock of the document's row.
VersionsNumberedFromOne ==
    \A d \in docs :
        {number[v] : v \in VersionsOf(d)} = 1 .. Cardinality(VersionsOf(d))

\* A registered version whose upload was not answered with an error has its
\* source file, since the move comes before the commit of _register_upload.
\* After an unknown commit the except clause removes the file of a version that
\* exists.
AnsweredHasSource ==
    \A v \in rows : step[v] \in {"committed", "accepted", "lost"} => v \in final

\* No file is left behind but by a fault: a staged file belongs to a request in
\* progress, a final one to a registered version, to a request that will commit
\* it or remove it, or to a delete that is about to remove it.
NoStrayFiles ==
    /\ \A r \in temporary \ leftover : step[r] \in InFlight
    /\ \A v \in final \ leftover :
          v \in rows \cup unlinking \/ step[v] \in {"moved", "error"}

\* Uploads wait for one another's locks, of contents and of documents, but never
\* all of them: some request in progress can go on.  As a request takes finitely
\* many steps, each is answered unless its process dies.
SomebodyAdvances ==
    (\E r \in Requests : step[r] \in InFlight)
        => \E r \in Requests : step[r] \in InFlight /\ ENABLED Handle(r)

-----------------------------------------------------------------------------
\* Uploads and deletes implement Publication: an upload submits its version as
\* its transaction commits, whether anybody learns of it or not.
StageOf(s) ==
    CASE s \in {"PENDING", "PROCESSING"} -> "waiting"
      [] s = "ACTIVE" -> "published"
      [] s = "ARCHIVED" -> "superseded"
      [] s = "FAILED" -> "rejected"

stageOfRequest ==
    [r \in Requests |-> IF r \in withdrawn THEN "withdrawn"
                        ELSE IF r \notin rows THEN "absent"
                        ELSE StageOf(work[r])]

documentOf == [r \in Requests |-> IF r \in rows \cup withdrawn THEN target[r] ELSE NoDoc]

withdrawnDocs == {target[v] : v \in withdrawn}

Catalogue == INSTANCE Publication
                WITH Versions <- Requests, Documents <- Requests, Nothing <- NoDoc,
                     stage <- stageOfRequest, of <- documentOf, deleted <- withdrawnDocs

\* However requests overlap, fail, lose their answers and crash: a version is
\* submitted once and with its document, a delete takes all the versions there
\* are at its commit, and no upload that was under way brings the document back.
UploadsImplementPublication == Catalogue!Spec

-----------------------------------------------------------------------------
\* What the invariants above rest on; their conjunction with these is inductive.

\* A request that has come in has a content and a type; one that asks for a
\* document asks for one that was issued, and its own is issued when it is
\* placed.
RequestsKnown ==
    \A r \in Requests :
        /\ step[r] # "new" => content[r] \in Contents /\ type[r] \in Types
        /\ step[r] = "new" => target[r] = NoDoc
        /\ step[r] \in {"staged", "checked"} => target[r] # r
        /\ target[r] # NoDoc => target[r] \in Issued

\* Rows are those of requests whose transaction is over.
TransactionOver == {"committed", "accepted", "error", "refused", "lost"}

RowsAreCommitted ==
    /\ \A v \in rows : step[v] \in TransactionOver /\ target[v] \in docs
    /\ \A d \in docs : step[d] \in TransactionOver /\ target[d] = d
    /\ \A v \in unlinking : step[v] \in TransactionOver /\ v \notin rows

\* A version that was deleted went with its document, and neither is there or in
\* a transaction that could commit it again.
WithdrawnForGood ==
    \A v \in withdrawn :
        /\ v \notin rows /\ step[v] \in TransactionOver
        /\ target[v] \in Requests \ docs /\ step[target[v]] \in TransactionOver

\* The lock of its content keeps a transaction from the others with that content.
ContentLocked ==
    \A q, r \in Requests :
        (step[r] \in InTransaction /\ content[q] = content[r]) =>
            /\ step[q] \in InTransaction => q = r
            /\ q \notin rows

\* The lock of its document, or a fresh id, keeps the number it took the next one.
NumberReserved ==
    \A r \in Requests :
        step[r] \in {"placed", "moved"} =>
            /\ target[r] \in docs \cup {r}
            /\ number[r] = NextVersion(target[r])
            /\ \A q \in Requests :
                  (step[q] \in {"placed", "moved"} /\ target[q] = target[r]) => q = r

\* The file is moved before the commit, and is there until the request removes it.
MovedBeforeCommit ==
    /\ \A r \in Requests : step[r] = "moved" => r \in final \ temporary
    /\ \A v \in rows : v \notin temporary /\ (step[v] # "refused" => v \in final)

UploadIInv ==
    /\ UploadTypeOK
    /\ RequestsKnown
    /\ RowsAreCommitted
    /\ WithdrawnForGood
    /\ ContentLocked
    /\ ContentRegisteredOnce
    /\ NumberReserved
    /\ VersionsNumberedFromOne
    /\ MovedBeforeCommit
    /\ NoStrayFiles

-----------------------------------------------------------------------------
\* docs/10_collaboration_and_overlap_guide.md:18: the API stores the source under
\* UPLOAD_DIR/<version_id>.<extension>, and the worker derives that path from the
\* version_id.  _source_path derives it from documents.file_type too.
SourceWhereWorkerLooks ==
    \A v \in rows : work[v] \in {"PENDING", "PROCESSING"} => SourceFound(v)
=============================================================================
