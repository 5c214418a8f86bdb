------------------------------- MODULE Chunker -------------------------------
(***************************************************************************)
(* chunk_text of src/pipeline/chunker.py: a window of size tokens slides    *)
(* over each block of a document, ends early at the last sentence or line   *)
(* end of its second half, and overlaps the window before it.               *)
(*                                                                          *)
(* A block is what tiktoken's encode and decode_with_offsets make of its    *)
(* text.  starts[i] is the character token i begins in; starts[tokens] is   *)
(* the length of the text.  A character may take several tokens (a rare     *)
(* Hangul syllable, an emoji), which then begin in the same character, and  *)
(* a window may begin or end inside it.  Of a character only its kind       *)
(* matters: does a sentence end with it, is it white space.                 *)
(***************************************************************************)
EXTENDS Integers, Sequences, FiniteSetsExt

CONSTANTS
    Documents,  \* the documents that may be chunked: sequences of blocks
    Sizes       \* the values of settings.CHUNK_SIZE

Kinds == {"word", "stop", "newline", "space"}

\* _BOUNDARY_PATTERN and str.strip.
SentenceEnds == {"stop", "newline"}
WhiteSpace == {"newline", "space"}

\* A character has at most four bytes, hence at most four tokens begin in it.
TokensPerCharacter == 4

IsBlock(b) ==
    /\ b.tokens \in Nat
    /\ b.length \in Nat
    /\ b.tokens = 0 <=> b.length = 0
    /\ b.kind \in [0 .. b.length - 1 -> Kinds]
    /\ b.starts \in [0 .. b.tokens -> 0 .. b.length]
    /\ b.starts[0] = 0
    /\ b.starts[b.tokens] = b.length
    /\ \A i \in 0 .. b.tokens - 1 :
          /\ b.starts[i] < b.length
          /\ b.starts[i] <= b.starts[i + 1]
          /\ i + TokensPerCharacter <= b.tokens
                => b.starts[i] < b.starts[i + TokensPerCharacter]

IsSequence(d) == d \in Seq({d[k] : k \in DOMAIN d})

ASSUME DocumentsAssumption ==
    \A d \in Documents : IsSequence(d) /\ \A k \in DOMAIN d : IsBlock(d[k])
ASSUME SizesAssumption == Sizes \subseteq Nat \ {0}

VARIABLES
    document,  \* the blocks
    size,      \* chunk_size
    overlap,   \* overlap
    at,        \* the block the window is in, beyond the last one at the end
    start,     \* the first token of the next window
    chunks     \* the chunks so far: windows begin one behind the other, so that
               \* their index is their order by block and first token

settingsVars == <<document, size, overlap>>
chunkerVars == <<document, size, overlap, at, start, chunks>>

\* A chunk keeps the block and the tokens of its window, beside the characters
\* char_start and char_end of ChunkData.
Chunk == [block : Nat, first : Nat, last : Nat, from : Nat, to : Nat]

block == document[at]
Chunked == at > Len(document)

ChunkerTypeOK ==
    /\ size \in Sizes
    /\ overlap \in 0 .. size - 1
    /\ at \in 1 .. Len(document) + 1
    /\ start # 0 => ~Chunked /\ start \in 1 .. block.tokens - 1
    /\ chunks \subseteq Chunk

ChunkerInit ==
    /\ document \in Documents
    /\ size \in Sizes
    /\ overlap \in 0 .. size - 1
    /\ at = 1
    /\ start = 0
    /\ chunks = {}

\* not block.text.strip()
Blank(b, from, to) == \A c \in from .. to - 1 : b.kind[c] \in WhiteSpace
BlankBlock(b) == Blank(b, 0, b.length)

-----------------------------------------------------------------------------
\* bisect_right(token_starts, char) - 1: the last token that begins at or
\* before a character.
TokenAt(b, char) == Max({i \in 0 .. b.tokens : b.starts[i] <= char})

Target(b, s) == Min({s + size, b.tokens})

\* An early end leaves at least half a window.
MinimumEndAnywhere(b, s) == s + 1
MinimumEnd(b, s) == s + Max({1, Min({size \div 2, Target(b, s) - s})})

\* The tokens that begin right after a sentence end inside the window.
Boundaries(b, s) ==
    {TokenAt(b, c + 1) :
        c \in {k \in b.starts[s] .. b.starts[Target(b, s)] - 1 : b.kind[k] \in SentenceEnds}}

\* _choose_end
ChooseEnd(b, s) ==
    LET acceptable == Boundaries(b, s) \cap (MinimumEnd(b, s) .. Target(b, s))
    IN  IF acceptable = {} THEN Target(b, s) ELSE Max(acceptable)

\* A window that lies inside one character takes one token more.
WindowEnd(b, s) ==
    LET end == ChooseEnd(b, s)
    IN  IF b.starts[end] <= b.starts[s] /\ end < b.tokens THEN end + 1 ELSE end

\* start + 1 keeps a short window with a long overlap moving.
NextStartUnforced(s, end) == Max({end - overlap, 0})
NextStartPastEnd(s, end) == Max({end - overlap + 1, s + 1})
NextStartWithoutOverlap(s, end) == end
NextStart(s, end) == Max({end - overlap, s + 1})

ChunkOf(b, s, end) ==
    [block |-> at, first |-> s, last |-> end, from |-> b.starts[s], to |-> b.starts[end]]

SkipBlock ==
    /\ ~Chunked
    /\ BlankBlock(block)
    /\ at' = at + 1
    /\ UNCHANGED <<settingsVars, start, chunks>>

\* One turn of the while loop.  Without content no chunk is made; the window
\* that reaches the end of the block is the last one.
Window ==
    /\ ~Chunked
    /\ ~BlankBlock(block)
    /\ LET end == WindowEnd(block, start) IN
       /\ chunks' = IF block.starts[start] < block.starts[end]
                    THEN chunks \cup {ChunkOf(block, start, end)} ELSE chunks
       /\ IF end = block.tokens
          THEN at' = at + 1 /\ start' = 0
          ELSE at' = at /\ start' = NextStart(start, end)
    /\ UNCHANGED settingsVars

ChunkText == SkipBlock \/ Window

-----------------------------------------------------------------------------
\* The characters of a block that some chunk has.
CharactersOf(k) ==
    UNION {c.from .. c.to - 1 : c \in {d \in chunks : d.block = k}}

\* No character of a block that is not blank is left out, whatever its tokens,
\* its sentence ends and the settings: the window advances by whole tokens, the
\* chunks are cut at whole characters, and an empty window leaves no chunk.
NothingSkipped ==
    \A k \in 1 .. Len(document) :
        (k < at /\ ~BlankBlock(document[k]))
            => CharactersOf(k) = 0 .. document[k].length - 1

\* With an overlap of less than half a window, as configured (50 of 512), every
\* window ends behind the one before it: no chunk repeats what another one
\* has.  A longer overlap lets the window crawl up to a sentence end.
NoWindowInsideAnother ==
    overlap < size \div 2 =>
        \A c, d \in chunks :
            (c.block = d.block /\ c.first < d.first) => c.last < d.last

\* A chunk of white space only, which _validate_texts of the embedding client
\* refuses, takes more white space in a row than the overlap has tokens.
BlankChunksAreLong ==
    overlap < size \div 2 =>
        \A c \in chunks :
            Blank(document[c.block], c.from, c.to) => c.last - c.first > overlap

-----------------------------------------------------------------------------
\* What the invariants above rest on; their conjunction with these is inductive.

\* What is chunked is a document: a sequence of blocks.
DocumentOfBlocks ==
    IsSequence(document) /\ \A k \in DOMAIN document : IsBlock(document[k])

\* The window is never inside a block without content.
BlanksAreSkipped == start # 0 => ~BlankBlock(block)

\* A chunk has the characters of its window, which is not empty and begins
\* before the next one.
ChunksHaveContent ==
    /\ IsFiniteSet(chunks)
    /\ \A c \in chunks :
          /\ c.block \in DOMAIN document
          /\ c.block < at \/ (c.block = at /\ c.first < start)
          /\ c.first < c.last /\ c.last <= document[c.block].tokens
          /\ c.from = document[c.block].starts[c.first]
          /\ c.to = document[c.block].starts[c.last]

\* The characters before the next window are in some chunk.
CoveredSoFar == ~Chunked => 0 .. block.starts[start] - 1 \subseteq CharactersOf(at)

\* With a short overlap the next window begins overlap tokens before the end of
\* the one before it, so it has something to add.
WindowsAdvance ==
    overlap < size \div 2 =>
        /\ start # 0 => start + overlap < block.tokens
        /\ \A c \in chunks : c.block = at => c.last <= start + overlap

ChunkerIInv ==
    /\ ChunkerTypeOK
    /\ DocumentOfBlocks
    /\ BlanksAreSkipped
    /\ ChunksHaveContent
    /\ CoveredSoFar
    /\ WindowsAdvance
    /\ NothingSkipped
    /\ NoWindowInsideAnother
    /\ BlankChunksAreLong

-----------------------------------------------------------------------------
\* docs/developer_A/phase4_text_extraction_and_chunking.md:42: every chunk has
\* at most chunk_size tokens.  Those that begin in one of its characters count.
TokensIn(c) ==
    Cardinality({i \in 0 .. document[c.block].tokens - 1 :
                    document[c.block].starts[i] \in c.from .. c.to - 1})

ChunkWithinSize == \A c \in chunks : TokensIn(c) <= size
=============================================================================
