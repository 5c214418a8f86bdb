------------------------------ MODULE Ingestion ------------------------------
(***************************************************************************)
(* From the text of a document to its vectors: chunk_text, the check of     *)
(* _persist_chunks that there are chunks at all, and generate_embeddings    *)
(* on their contents.                                                       *)
(*                                                                          *)
(* The runner embeds stored chunks one batch per call, which WorkerDaemon   *)
(* models (EmbedBatch).  Here one call takes all chunks, so that the client *)
(* is checked for lists longer than its batch, as its docstring promises.   *)
(* Once chunked, the text is dropped: what is left are the contents.        *)
(***************************************************************************)
EXTENDS Chunker, EmbeddingClient

VARIABLE refusal  \* PipelineError: the document has no searchable text

ingestionVars == <<chunkerVars, clientVars, refusal>>

IngestionTypeOK ==
    /\ ChunkerTypeOK
    /\ ClientTypeOK
    /\ refusal \in BOOLEAN

IngestionInit ==
    /\ ChunkerInit
    /\ ClientInit
    /\ refusal = FALSE

Chunking ==
    /\ call = "idle"
    /\ ChunkText
    /\ UNCHANGED <<clientVars, refusal>>

\* The contents of the chunks, one text each; the blocks are let go.
Nth(i) ==
    CHOOSE c \in chunks :
        i = Cardinality({d \in chunks : \/ d.block < c.block
                                        \/ d.block = c.block /\ d.first <= c.first})
Contents ==
    [i \in 1 .. Cardinality(chunks) |->
        Blank(document[Nth(i).block], Nth(i).from, Nth(i).to)]

LetGo ==
    /\ document' = <<>>
    /\ at' = 1
    /\ start' = 0
    /\ chunks' = {}
    /\ UNCHANGED <<size, overlap>>

Embed ==
    /\ Chunked
    /\ chunks # {}
    /\ Call(Contents)
    /\ LetGo
    /\ UNCHANGED refusal

\* _persist_chunks: document produced no searchable text chunks.
NoChunks ==
    /\ Chunked
    /\ call = "idle"
    /\ chunks = {}
    /\ ~refusal
    /\ refusal' = TRUE
    /\ UNCHANGED <<chunkerVars, clientVars>>

Embedding ==
    /\ GenerateEmbeddings
    /\ UNCHANGED <<chunkerVars, refusal>>

Step == Chunking \/ Embed \/ NoChunks \/ Embedding

Ingest == IngestionInit /\ [][Step]_ingestionVars

\* The coroutine runs on: chunking is a loop without an await, and every post
\* returns or times out.
FairIngest == Ingest /\ WF_ingestionVars(Step)

-----------------------------------------------------------------------------
\* Every document ends in vectors or in an error: the window always moves on,
\* with every overlap the settings allow, and no batch is retried for ever.
DocumentSettles == <>(refusal \/ call \in Outcomes)

-----------------------------------------------------------------------------
\* The chunker and the client keep their invariants side by side.
IngestionIInv ==
    /\ IngestionTypeOK
    /\ ChunkerIInv
    /\ ClientIInv
=============================================================================
