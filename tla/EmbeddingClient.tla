--------------------------- MODULE EmbeddingClient ---------------------------
(***************************************************************************)
(* generate_embeddings of src/embedding/client.py: the texts go to Ollama   *)
(* in batches, one after the other; a batch is posted again after a         *)
(* connection error (timeout, transport, HTTP 5xx), up to a number of       *)
(* attempts, and any other bad answer ends the call at once.                *)
(*                                                                          *)
(* A text is its place in the list, and so is the vector Ollama computes    *)
(* for it; Stray is a vector nobody asked for.                              *)
(***************************************************************************)
EXTENDS Integers, Sequences, SequencesExt

CONSTANTS
    ClientBatch,   \* settings.EMBEDDING_BATCH_SIZE
    RetrySettings  \* the values of settings.MAX_RETRIES

ASSUME ClientBatchAssumption == ClientBatch \in Nat \ {0}
ASSUME RetrySettingsAssumption == RetrySettings \subseteq Nat

VARIABLES
    call,      \* where the call is: idle, posting, or how it ended
    blank,     \* of each text, whether it is white space only
    sent,      \* texts of the batches that are done
    vectors,   \* all_embeddings
    attempt,   \* attempts the current batch has used
    failures,  \* connection errors since the current batch began
    retries    \* settings.MAX_RETRIES of the call

clientVars == <<call, blank, sent, vectors, attempt, failures, retries>>

\* The list of vectors, or the exceptions ValueError (refused),
\* EmbeddingConnectionError (unavailable) and EmbeddingResponseError (rejected).
Outcomes == {"returned", "refused", "unavailable", "rejected"}

ClientTypeOK ==
    /\ call \in {"idle", "posting"} \cup Outcomes
    /\ blank \in Seq(BOOLEAN)
    /\ sent \in Nat
    /\ vectors \in Seq(Nat)
    /\ attempt \in Nat
    /\ failures \in Nat
    /\ retries \in RetrySettings \cup {0}

ClientInit ==
    /\ call = "idle"
    /\ blank = <<>>
    /\ sent = 0
    /\ vectors = <<>>
    /\ attempt = 0
    /\ failures = 0
    /\ retries = 0

\* _validate_texts, then the empty list.
Call(texts) ==
    /\ call = "idle"
    /\ blank' = texts
    /\ call' = IF Contains(texts, TRUE) THEN "refused"
               ELSE IF texts = <<>> THEN "returned" ELSE "posting"
    /\ retries' \in RetrySettings
    /\ UNCHANGED <<sent, vectors, attempt, failures>>

-----------------------------------------------------------------------------
\* texts[start : start + EMBEDDING_BATCH_SIZE]
BatchEnd == IF sent + ClientBatch < Len(blank) THEN sent + ClientBatch ELSE Len(blank)
Batch == [i \in 1 .. BatchEnd - sent |-> sent + i]

\* Ollama answers in order; it may leave a vector out or add one.
Stray == 0
Answers == {Batch, Front(Batch), Append(Batch, Stray)}

\* _validate_embeddings, as far as the number of vectors goes.
CountUnchecked(answer) == TRUE
CountMatches(answer) == Len(answer) = Len(Batch)

\* max(1, settings.MAX_RETRIES)
Attempts == IF retries = 0 THEN 1 ELSE retries

\* _request_embedding_batch makes a new AsyncRetrying for each batch.
AttemptOfCall == attempt
FreshAttempt == 0

\* A batch is answered; after the last one the vectors are counted again.
BatchAnswered ==
    /\ call = "posting"
    /\ \E answer \in Answers :
          /\ CountMatches(answer)
          /\ vectors' = vectors \o answer
          /\ call' = IF BatchEnd < Len(blank) THEN "posting"
                     ELSE IF Len(vectors') = Len(blank) THEN "returned" ELSE "rejected"
    /\ sent' = BatchEnd
    /\ attempt' = FreshAttempt
    /\ failures' = 0
    /\ UNCHANGED <<blank, retries>>

\* A wrong number of vectors, any other invalid payload, or an HTTP status
\* other than 2xx and 5xx.
BatchRejected ==
    /\ call = "posting"
    /\ call' = "rejected"
    /\ UNCHANGED <<blank, sent, vectors, attempt, failures, retries>>

\* EmbeddingConnectionError: wait and post again, or raise it.
BatchFails ==
    /\ call = "posting"
    /\ attempt' = attempt + 1
    /\ failures' = failures + 1
    /\ call' = IF attempt + 1 >= Attempts THEN "unavailable" ELSE "posting"
    /\ UNCHANGED <<blank, sent, vectors, retries>>

GenerateEmbeddings == BatchAnswered \/ BatchRejected \/ BatchFails

-----------------------------------------------------------------------------
\* A list that is returned has one vector for each text, in the order of the
\* texts, whatever batches failed, were posted again, or were answered with a
\* vector too many or too few: a shift inside the list would pass the count of
\* the whole.
VectorsMatchTexts ==
    call = "returned" => vectors = [i \in DOMAIN blank |-> i]

\* The service is reported unavailable only after a batch has failed in all of
\* its attempts: what earlier batches needed does not count.
UnavailableMeansExhausted ==
    call = "unavailable" => failures = Attempts

-----------------------------------------------------------------------------
\* What the invariants above rest on.

\* While batches are posted there are texts left, and the vectors so far are
\* those of the texts sent so far.
VectorsSoFar ==
    /\ call = "idle" => sent = 0
    /\ call = "posting" => sent < Len(blank)
    /\ call \in {"idle", "posting"} => vectors = [i \in 1 .. sent |-> i]

\* The attempts are those of the current batch, all of which failed, and there
\* is one left.
AttemptsLeft ==
    /\ attempt = failures
    /\ call = "idle" => attempt = 0
    /\ call = "posting" => attempt < Attempts

ClientIInv ==
    /\ ClientTypeOK
    /\ VectorsSoFar
    /\ AttemptsLeft
    /\ VectorsMatchTexts
    /\ UnavailableMeansExhausted
=============================================================================
