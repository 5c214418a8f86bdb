----------------------------- MODULE MCIngestion -----------------------------
(***************************************************************************)
(* Small instances of Ingestion for TLC: every layout of tokens over a few  *)
(* characters of the given kinds, longer texts with a token per character,  *)
(* and documents of two short blocks.                                       *)
(***************************************************************************)
EXTENDS Ingestion

Layouts(n, m) == {f \in [0 .. n -> 0 .. m] :
    /\ f[0] = 0 /\ f[n] = m
    /\ \A i \in 0 .. n - 1 : f[i] < m /\ f[i] <= f[i + 1]}

BlocksOf(n, m, kinds) ==
    {[tokens |-> n, length |-> m, starts |-> f, kind |-> k] :
        f \in Layouts(n, m), k \in [0 .. m - 1 -> kinds]}

Blocks(tokens, characters, kinds) ==
    {b \in UNION {BlocksOf(n, m, kinds) : n \in 0 .. tokens, m \in 0 .. characters} : IsBlock(b)}

Straight(n, kinds) ==
    {[tokens |-> n, length |-> n, starts |-> [i \in 0 .. n |-> i], kind |-> k] :
        k \in [0 .. n - 1 -> kinds]}

MCDocuments ==
    {<<b>> : b \in Blocks(6, 4, {"word", "newline"})}
        \cup {<<b>> : b \in Blocks(4, 3, {"word", "stop", "space"})}
        \cup {<<b>> : b \in Straight(7, {"word", "newline"})}
        \cup {<<b, c>> : b, c \in Blocks(2, 2, {"word", "newline"})}

MCSizes == {1, 2, 4, 6}

\* Six tokens over five characters of words in every layout: a character may have
\* up to four of them.
WordDocuments == {<<b>> : b \in {c \in BlocksOf(6, 5, {"word"}) : IsBlock(c)}}
=============================================================================
