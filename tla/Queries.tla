------------------------------- MODULE Queries -------------------------------
(***************************************************************************)
(* The reads of the API (src/api/routes.py) and of the MCP tools            *)
(* (src/mcp_tools.py, src/search/engine.py), while uploads, publications    *)
(* and deletes go on: a client that pages through the documents, the detail *)
(* of a document, a search whose result is opened with get_chunk.           *)
(*                                                                          *)
(* What they read is Publication, which the worker daemon and the deletes   *)
(* implement (Deletion), and the title an upload writes to its document.    *)
(* A statement sees what is committed when it starts; two of them see two   *)
(* moments.  Connections come from Pool.  One request, Reader, does all of  *)
(* this; the others only probe the readiness of the database and compete    *)
(* for connections.                                                         *)
(***************************************************************************)
EXTENDS Pool, Sequences, FiniteSetsExt

CONSTANTS
    Versions,   \* uploads, in the order of the titles they give
    Documents,  \* documents, in the order of created_at
    Chunks,     \* chunks that the files of the uploads are cut into
    VersionOf,  \* chunks.version_id
    Nothing,    \* no document, no version, no title
    Reader,     \* the request that reads
    PageSize,   \* limit, page_size
    EfSearch    \* settings.SEARCH_HNSW_EF_SEARCH

ASSUME QueriesAssumption ==
    /\ Versions \subseteq Nat /\ IsFiniteSet(Versions)
    /\ Documents \subseteq Nat /\ IsFiniteSet(Documents)
    /\ IsFiniteSet(Chunks) /\ VersionOf \in [Chunks -> Versions]
    /\ Nothing \notin Versions \cup Documents
    /\ Reader \in Requests
    /\ PageSize \in Nat \ {0}
    /\ EfSearch \in Nat \ {0}

VARIABLES
    stage, of, deleted,  \* those of Publication
    title,      \* documents.title: the upload that wrote it
    task,       \* what Reader does: list, tools (list_documents), detail, chunk
    turn,       \* its next statement, 0 once it is answered
    subject,    \* the document or the version it asks for
    found,      \* the versions it was answered
    shown,      \* the title it was answered
    missed,     \* documents served at its first page that it was not shown yet
    events      \* what happened since its first statement

storeVars == <<stage, of, title, deleted>>
taskVars == <<task, turn, subject, found, shown, missed, events>>
queriesVars == <<poolVars, storeVars, taskVars>>

Backend == INSTANCE Publication

Tasks == {"none", "list", "tools", "detail", "chunk"}
Events == {"deleted", "retitled"}

QueriesTypeOK ==
    /\ PoolTypeOK
    /\ stage \in [Versions -> Backend!Stages]
    /\ of \in [Versions -> Documents \cup {Nothing}]
    /\ title \in [Documents -> Versions \cup {Nothing}]
    /\ deleted \subseteq Documents
    /\ task \in Tasks
    /\ turn \in 0 .. Cardinality(Documents) + 1
    /\ subject \in Documents \cup Versions \cup {Nothing}
    /\ found \subseteq Versions
    /\ shown \in Versions \cup {Nothing}
    /\ missed \subseteq Documents
    /\ events \subseteq Events

QueriesInit ==
    /\ PoolInit
    /\ Backend!Init
    /\ title = [d \in Documents |-> Nothing]
    /\ deleted = {}
    /\ task = "none"
    /\ turn = 0
    /\ subject = Nothing
    /\ found = {}
    /\ shown = Nothing
    /\ missed = {}
    /\ events = {}

-----------------------------------------------------------------------------
\* The writers.  Reader, once it has read, notes what happens.
Happens(e) ==
    /\ events' = IF turn > 1 THEN events \cup e ELSE events
    /\ UNCHANGED <<poolVars, task, turn, subject, found, shown, missed>>

\* An upload writes its title to the document at once, published or not.
Upload(v, d) ==
    /\ Backend!Submit(v, d)
    /\ title' = [title EXCEPT ![d] = v]
    /\ Happens(IF title[d] = Nothing THEN {} ELSE {"retitled"})

Settle(v) == Backend!Settle(v) /\ Happens({}) /\ UNCHANGED title

Delete(d) == Backend!Withdraw(d) /\ Happens({"deleted"}) /\ UNCHANGED title

-----------------------------------------------------------------------------
\* The version has rows, and is ACTIVE.
Present(v) == stage[v] \notin {"absent", "withdrawn"}
Served(v) == stage[v] = "published"
ServedDocuments == {of[v] : v \in {u \in Versions : Served(u)}}

\* ORDER BY created_at DESC, id, and ORDER BY title, id of the tool.
ByTitle(c, d) == title[c] <= title[d]
ByCreation(c, d) == c >= d
Precedes(c, d) == IF task = "tools" THEN ByTitle(c, d) ELSE ByCreation(c, d)

\* LIMIT PageSize OFFSET (turn - 1) * PageSize
Rank(d) == Cardinality({c \in ServedDocuments : Precedes(c, d)})
Page == {d \in ServedDocuments :
            Rank(d) > (turn - 1) * PageSize /\ Rank(d) <= turn * PageSize}

\* A statement of Reader that is its last one on this connection, or not.
Answer == Exit(Reader, FALSE)
GoOn == UNCHANGED poolVars

\* The client asks for the next page until one is not full.
FetchPage ==
    /\ task \in {"list", "tools"}
    /\ missed' = (IF turn = 1 THEN ServedDocuments ELSE missed) \ Page
    /\ turn' = IF Cardinality(Page) = PageSize THEN turn + 1 ELSE 0
    /\ Answer
    /\ UNCHANGED <<task, subject, found, shown, events>>

\* _fetch_document_detail and _get_document: two statements without a
\* transaction.
DetailReversed == <<"versions", "document">>
Detail == <<"document", "versions">>

NextTurn == IF turn = Len(Detail) THEN 0 ELSE turn + 1

FetchDocument ==
    /\ task = "detail"
    /\ Detail[turn] = "document"
    /\ IF title[subject] # Nothing /\ subject \notin deleted
       THEN /\ shown' = title[subject]
            /\ turn' = NextTurn
       ELSE /\ shown' = Nothing
            /\ turn' = 0
    /\ IF turn' = 0 THEN Answer ELSE GoOn
    /\ UNCHANGED <<task, subject, found, missed, events>>

FetchVersions ==
    /\ task = "detail"
    /\ Detail[turn] = "versions"
    /\ found' = {v \in Versions : Present(v) /\ of[v] = subject}
    /\ turn' = NextTurn
    /\ IF turn' = 0 THEN Answer ELSE GoOn
    /\ UNCHANGED <<task, subject, shown, missed, events>>

\* The rows of embeddings, one for each chunk: the chunks of a version that was
\* published all have theirs, those of other versions as handlers got to them.
Embedded == {c \in Chunks : stage[VersionOf[c]] \in {"published", "superseded"}}
Embeddable == {c \in Chunks : Present(VersionOf[c])}
Embeddings == {rows \in SUBSET Embeddable : Embedded \subseteq rows}

\* The WHERE clause of the search: a chunk of an ACTIVE version whose similarity
\* to the query reaches min_similarity.
SearchableUnfiltered(near) == {c \in near : Present(VersionOf[c])}
Searchable(near) == {c \in near : Served(VersionOf[c])}

\* An HNSW index scan yields a list of EfSearch rows, or all if there are no
\* more, whatever the WHERE clause then does to them.  Which ones depends on the
\* query and on the graph, as the search is approximate.  A plan without the
\* index finds what some scan finds.  (pgvector's default list is shorter than
\* the one the engine sets.)  Index entries of rows that are gone are left out,
\* as after a vacuum.
CandidatesByDefault(rows) == kSubset(1, rows)
Candidates(rows) ==
    IF Cardinality(rows) <= EfSearch THEN {rows} ELSE kSubset(EfSearch, rows)

\* _execute_search for a query that is similar enough to the chunks in near.  The
\* caller opens one of the results, if there are any.
Search(near) ==
    /\ task = "chunk"
    /\ turn = 1
    /\ \E rows \in Embeddings : \E list \in Candidates(rows) :
          LET results == list \cap Searchable(near) IN
          \/ /\ results = {}
             /\ turn' = 0
             /\ UNCHANGED subject
          \/ /\ \E c \in results : subject' = VersionOf[c]
             /\ turn' = 2
    /\ Answer
    /\ UNCHANGED <<task, found, shown, missed, events>>

FetchResults == \E near \in SUBSET Embeddable : Search(near)

FetchChunk ==
    /\ task = "chunk"
    /\ turn = 2
    /\ found' = {v \in {subject} : Served(v)}
    /\ turn' = 0
    /\ Answer
    /\ UNCHANGED <<task, subject, shown, missed, events>>

Statement ==
    /\ place[Reader] = "connected"
    /\ FetchPage \/ FetchDocument \/ FetchVersions \/ FetchResults \/ FetchChunk
    /\ UNCHANGED storeVars

-----------------------------------------------------------------------------
\* A new task, its connection included.  Any document may be asked for.
Begin(t, s) ==
    /\ turn = 0
    /\ Enter(Reader)
    /\ task' = t
    /\ turn' = 1
    /\ subject' = s
    /\ found' = {}
    /\ shown' = Nothing
    /\ missed' = {}
    /\ events' = {}
    /\ UNCHANGED storeVars

\* The next request of the task: another page, the chunk.
AskAgain ==
    /\ turn > 1
    /\ Enter(Reader)
    /\ UNCHANGED <<storeVars, taskVars>>

\* The task ends with an error.
GivesUp ==
    /\ task' = "none"
    /\ turn' = 0
    /\ subject' = Nothing
    /\ found' = {}
    /\ shown' = Nothing
    /\ missed' = {}
    /\ events' = {}
    /\ UNCHANGED storeVars

ReaderRaises == GivesUp /\ (PoolFails(Reader) \/ Exit(Reader, TRUE))

\* The probe /ready.
Probes == Requests \ {Reader}
Probe(r) == Enter(r) /\ UNCHANGED <<storeVars, taskVars>>
ProbeEnds(r) ==
    /\ r \in Probes
    /\ PoolFails(r) \/ \E raised \in BOOLEAN : Exit(r, raised)
    /\ UNCHANGED <<storeVars, taskVars>>

\* An await of a request returns: create_pool, acquire, a statement.
Opens(r) == PoolOpens(r) /\ UNCHANGED <<storeVars, taskVars>>
Acquires(r) == Acquire(r) /\ UNCHANGED <<storeVars, taskVars>>
Returns(r) ==
    \/ Opens(r)
    \/ ProbeEnds(r)
    \/ r = Reader /\ (Statement \/ ReaderRaises)

Read ==
    \/ \E t \in {"list", "tools", "chunk"} : Begin(t, Nothing)
    \/ \E d \in Documents : Begin("detail", d)
    \/ AskAgain

Write ==
    \/ \E v \in Versions : Settle(v) \/ \E d \in Documents : Upload(v, d)
    \/ \E d \in Documents : Delete(d)

QueriesNext ==
    \/ Read
    \/ Write
    \/ \E r \in Requests : Acquires(r) \/ Returns(r)
    \/ \E r \in Probes : Probe(r)

QueriesSpec == QueriesInit /\ [][QueriesNext]_queriesVars

\* create_pool and statements return or time out (command_timeout); asyncpg
\* hands free connections to the waiting requests in their order, so that none
\* is passed over for ever.
QueriesFairness ==
    \A r \in Requests : WF_queriesVars(Returns(r)) /\ SF_queriesVars(Acquires(r))

QueriesFairSpec == QueriesSpec /\ QueriesFairness

-----------------------------------------------------------------------------
\* A document that is served from the first page to the last is on one of them,
\* unless some document was deleted in between, or, in the tool's order by
\* title, was given another title: documents that come in or are updated
\* meanwhile only move others to later pages.
PagingSkipsNothing ==
    (task \in {"list", "tools"} /\ turn = 0) =>
        \/ missed = {}
        \/ "deleted" \in events
        \/ task = "tools" /\ "retitled" \in events

\* The detail of a document lists the version whose upload gave the title it
\* shows, or, if the document was deleted between its two statements, none.
DetailIsWhole ==
    (task = "detail" /\ turn = 0 /\ shown # Nothing) =>
        \/ shown \in found
        \/ found = {} /\ "deleted" \in events

\* A chunk that a search found is only gone if its document was deleted or
\* serves another version by now: who searches again finds what replaced it.
ChunkIsTraceable ==
    (task = "chunk" /\ turn = 0 /\ subject # Nothing /\ found = {}) =>
        \/ of[subject] \in deleted
        \/ of[subject] \in ServedDocuments

\* A search finds something if a chunk of a served version is similar enough,
\* unless it is crowded out: EfSearch embeddings that the WHERE clause drops, of
\* chunks that are not similar enough or of versions that are not served.
\* One large version that was superseded is enough for that.
Matching(near) == {c \in near : Served(VersionOf[c])}
Crowd(near) == Embeddable \ Matching(near)

SearchFindsServed ==
    [][(turn = 1 /\ turn' = 0) =>
          \A near \in SUBSET Embeddable :
              (Matching(near) # {} /\ Cardinality(Crowd(near)) < EfSearch) => ~Search(near)
      ]_queriesVars

\* Every request that needs a connection ends, however many others fail.
RequestsEnd == \A r \in Requests : place[r] # "idle" ~> place[r] = "idle"

-----------------------------------------------------------------------------
\* What the properties of the reader rest on.

\* A version has its document from the upload on.
UploadedHasDocument ==
    \A v \in Versions : IF stage[v] = "absent" THEN of[v] = Nothing ELSE of[v] \in Documents

\* A delete takes along the versions of its document and no others.
WithdrawnWithDocument ==
    \A v \in Versions : stage[v] = "withdrawn" <=> of[v] \in deleted

\* A document stays served: what is superseded is so by what is published.
SupersededIsReplaced ==
    \A v \in Versions :
        stage[v] = "superseded" =>
            \E u \in Versions : stage[u] = "published" /\ of[u] = of[v]

\* A document has the title of one of its uploads, as soon as it has any.
TitleIsFromUpload ==
    \A d \in Documents :
        title[d] # Nothing => stage[title[d]] # "absent" /\ of[title[d]] = d
UploadGaveTitle ==
    \A v \in Versions : stage[v] # "absent" => title[of[v]] # Nothing

\* Reader has a connection, or asks for one, only while it has a statement left.
StatementIsDue == place[Reader] # "idle" => turn > 0

\* Between pages: the documents still to be shown are on pages to come.
PagingUnderWay ==
    (task \in {"list", "tools"} /\ turn > 1) =>
        \/ \A d \in missed : d \in ServedDocuments /\ Rank(d) > (turn - 1) * PageSize
        \/ "deleted" \in events
        \/ task = "tools" /\ "retitled" \in events

\* Between the statements of a detail: the title is that of a version the
\* second one will find, unless the document is deleted.
DetailUnderWay ==
    task = "detail" =>
        /\ turn \in 0 .. Len(Detail)
        /\ subject \in Documents
        /\ turn = Len(Detail) =>
              /\ shown # Nothing
              /\ stage[shown] # "absent"
              /\ of[shown] = subject
              /\ subject \in deleted => "deleted" \in events

\* Between a search and get_chunk: the result was published.
ChunkUnderWay ==
    task = "chunk" =>
        /\ turn \in 0 .. 2
        /\ turn = 2 => subject # Nothing
        /\ subject # Nothing =>
              /\ subject \in Versions
              /\ stage[subject] \in {"published", "superseded", "withdrawn"}

QueriesIInv ==
    /\ QueriesTypeOK
    /\ PoolIInv
    /\ UploadedHasDocument
    /\ WithdrawnWithDocument
    /\ SupersededIsReplaced
    /\ TitleIsFromUpload
    /\ UploadGaveTitle
    /\ StatementIsDue
    /\ PagingUnderWay
    /\ PagingSkipsNothing
    /\ DetailUnderWay
    /\ DetailIsWhole
    /\ ChunkUnderWay
    /\ task = "none" => turn = 0
=============================================================================
