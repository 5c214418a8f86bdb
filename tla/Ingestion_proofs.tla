--------------------------- MODULE Ingestion_proofs ---------------------------
(***************************************************************************)
(* Proofs about Chunker, EmbeddingClient and their composition Ingestion,   *)
(* for any documents, chunk sizes, overlaps, batch size and retry settings. *)
(***************************************************************************)
EXTENDS Ingestion, FiniteSetTheorems, SequenceTheorems, WellFoundedInduction, TLAPS

(***************************************************************************)
(* Numbers.                                                                 *)
(***************************************************************************)

\* A set of naturals has a least one: what stands in for induction here.
LEMMA LeastNatural ==
  ASSUME NEW S \in SUBSET Nat, S # {}
  PROVE  \E m \in S : \A x \in S : m <= x
<1> DEFINE R == OpToRel(<, Nat)
<1>1. IsWellFoundedOn(R, Nat)
  BY NatLessThanWellFounded
<1>2. \A x, y \in Nat : x < y => <<x, y>> \in R
  BY DEF OpToRel
<1> HIDE DEF R
<1>3. PICK m \in S : \A x \in S : ~(<<x, m>> \in R)
  BY <1>1, WFMin
<1>4. \A x \in S : x \in Nat /\ ~(x < m)
  BY <1>2, <1>3
<1> QED
  BY <1>3, <1>4

\* Max of a set of numbers up to hi.
LEMMA MaxOfBounded ==
  ASSUME NEW hi \in Nat, NEW S \in SUBSET (0 .. hi), S # {}
  PROVE  Max(S) \in S
<1> DEFINE T == {hi - x : x \in S}
<1>1. \A x \in S : x \in 0 .. hi /\ hi - x \in Nat
  OBVIOUS
<1>2. T \in SUBSET Nat /\ T # {}
  BY <1>1
<1>3. PICK m \in T : \A x \in T : m <= x
  BY <1>2, LeastNatural
<1>4. PICK x \in S : m = hi - x
  OBVIOUS
<1>5. \A y \in S : x >= y
  BY <1>1, <1>3, <1>4
<1> QED
  BY <1>5 DEF Max

\* The larger one of two numbers.
LEMMA MaxOfTwo ==
  ASSUME NEW a \in Int, NEW b \in Int
  PROVE  Max({a, b}) = IF a >= b THEN a ELSE b
<1>1. \E x \in {a, b} : \A y \in {a, b} : x >= y
  OBVIOUS
<1>2. Max({a, b}) \in {a, b} /\ \A y \in {a, b} : Max({a, b}) >= y
  BY <1>1 DEF Max
<1> QED
  BY <1>2

\* The same for the smaller one.
LEMMA MinOfTwo ==
  ASSUME NEW a \in Int, NEW b \in Int
  PROVE  Min({a, b}) = IF a <= b THEN a ELSE b
<1>1. \E x \in {a, b} : \A y \in {a, b} : x <= y
  OBVIOUS
<1>2. Min({a, b}) \in {a, b} /\ \A y \in {a, b} : Min({a, b}) <= y
  BY <1>1 DEF Min
<1> QED
  BY <1>2

(***************************************************************************)
(* Windows.                                                                 *)
(***************************************************************************)

\* The numbers of a block.
LEMMA BlockTypes ==
  ASSUME NEW b, IsBlock(b)
  PROVE  /\ b.tokens \in Nat /\ b.length \in Nat
         /\ \A k \in 0 .. b.tokens : b.starts[k] \in Nat /\ b.starts[k] <= b.length
<1>1. b.tokens \in Nat /\ b.length \in Nat /\ b.starts \in [0 .. b.tokens -> 0 .. b.length]
  BY DEF IsBlock
<1>2. \A k \in 0 .. b.tokens : b.starts[k] \in 0 .. b.length
  BY <1>1
<1> QED
  BY <1>1, <1>2

\* The tokens of a block begin in ascending order, not only neighbours.
LEMMA TokensAscend ==
  ASSUME NEW b, IsBlock(b), NEW i \in 0 .. b.tokens, NEW j \in 0 .. b.tokens, i <= j
  PROVE  b.starts[i] <= b.starts[j]
<1>1. /\ b.tokens \in Nat /\ b.length \in Nat
      /\ \A k \in 0 .. b.tokens : b.starts[k] \in Nat
  BY BlockTypes
<1> SUFFICES ASSUME b.starts[i] > b.starts[j] PROVE FALSE
  BY <1>1
<1> DEFINE S == {k \in i .. b.tokens : b.starts[i] > b.starts[k]}
<1>2. S \in SUBSET Nat /\ j \in S
  BY <1>1
<1>3. PICK m \in S : \A x \in S : m <= x
  BY <1>2, LeastNatural
<1>4. m \in i .. b.tokens /\ m # i /\ b.starts[i] > b.starts[m]
  BY <1>1
<1>5. m - 1 \in i .. b.tokens /\ m - 1 \in 0 .. b.tokens - 1 /\ ~(m <= m - 1)
  BY <1>1, <1>4
<1>6. b.starts[i] <= b.starts[m - 1]
  <2>1. m - 1 \notin S
    BY <1>3, <1>5
  <2> QED
    BY <1>1, <1>5, <2>1
<1>7. b.starts[m - 1] <= b.starts[m]
  <2>1. b.starts[m - 1] <= b.starts[(m - 1) + 1]
    BY <1>5 DEF IsBlock
  <2>2. (m - 1) + 1 = m
    BY <1>4
  <2> QED
    BY <2>1, <2>2
<1> QED
  BY <1>1, <1>4, <1>5, <1>6, <1>7

\* A window ends behind its first token, inside the block, and at least half a
\* window on unless the block ends.
LEMMA WindowAdvances ==
  ASSUME NEW b, IsBlock(b), size \in Nat \ {0}, NEW s \in 0 .. b.tokens - 1
  PROVE  /\ WindowEnd(b, s) \in s + 1 .. b.tokens
         /\ WindowEnd(b, s) >= s + size \div 2 \/ WindowEnd(b, s) = b.tokens
<1> DEFINE T == Target(b, s)
           lo == MinimumEnd(b, s)
           acceptable == Boundaries(b, s) \cap (lo .. T)
           end == ChooseEnd(b, s)
<1>1. b.tokens \in Nat /\ s \in Nat /\ size \div 2 \in Nat /\ size \div 2 <= size
  BY DEF IsBlock
<1>2. T = IF s + size <= b.tokens THEN s + size ELSE b.tokens
  BY <1>1, MinOfTwo DEF Target
<1>3. T \in s + 1 .. b.tokens
  BY <1>1, <1>2
<1> HIDE DEF T
<1>4. /\ Min({size \div 2, T - s}) = IF size \div 2 <= T - s THEN size \div 2 ELSE T - s
      /\ Min({size \div 2, T - s}) \in Int
  BY <1>1, <1>3, MinOfTwo
<1>5. \A h \in Int : Max({1, h}) = IF 1 >= h THEN 1 ELSE h
  BY MaxOfTwo
<1>6. /\ lo \in s + 1 .. T
      /\ lo >= s + size \div 2 \/ lo = b.tokens
  BY <1>1, <1>2, <1>3, <1>4, <1>5 DEF MinimumEnd, T
<1> HIDE DEF lo
<1>7. end \in lo .. T
  <2>1. end = IF acceptable = {} THEN T ELSE Max(acceptable)
    BY DEF ChooseEnd, T, lo
  <2>2. acceptable \subseteq 0 .. T /\ T \in Nat
    BY <1>1, <1>3, <1>6
  <2>3. acceptable # {} => Max(acceptable) \in acceptable
    BY <2>2, MaxOfBounded
  <2> QED
    BY <1>1, <1>3, <1>6, <2>1, <2>3
<1>8. WindowEnd(b, s) \in {end, end + 1} /\ WindowEnd(b, s) <= b.tokens
  BY <1>1, <1>3, <1>6, <1>7 DEF WindowEnd
<1> HIDE DEF end
<1> QED
  BY <1>1, <1>3, <1>6, <1>7, <1>8

\* The next window begins behind the first token of this one and not behind its
\* end; if the window is longer than the overlap, overlap tokens before its end.
LEMMA NextWindow ==
  ASSUME overlap \in Nat, NEW s \in Nat, NEW end \in Nat, s < end
  PROVE  /\ NextStart(s, end) \in s + 1 .. end
         /\ s + overlap < end => NextStart(s, end) = end - overlap
<1>1. NextStart(s, end) = IF end - overlap >= s + 1 THEN end - overlap ELSE s + 1
  BY MaxOfTwo DEF NextStart
<1> QED
  BY <1>1

(***************************************************************************)
(* The chunker.                                                             *)
(***************************************************************************)

\* The block the window is in, and the window's place in it.
LEMMA WindowInBlock ==
  ASSUME ChunkerIInv, ~Chunked
  PROVE  /\ Len(document) \in Nat /\ DOMAIN document = 1 .. Len(document)
         /\ at \in DOMAIN document /\ at + 1 \in 1 .. Len(document) + 1
         /\ block = document[at] /\ IsBlock(block)
         /\ block.tokens \in Nat /\ block.length \in Nat
         /\ ~BlankBlock(block) => start \in 0 .. block.tokens - 1
         /\ size \in Nat \ {0} /\ overlap \in Nat
<1>1. Len(document) \in Nat /\ DOMAIN document = 1 .. Len(document)
  BY DEF ChunkerIInv, DocumentOfBlocks, IsSequence
<1>2. at \in DOMAIN document /\ at + 1 \in 1 .. Len(document) + 1
  BY <1>1 DEF ChunkerIInv, ChunkerTypeOK, Chunked
<1>3. IsBlock(block) /\ block.tokens \in Nat /\ block.length \in Nat
  BY <1>2 DEF ChunkerIInv, DocumentOfBlocks, IsBlock, block
<1>4. size \in Nat \ {0} /\ overlap \in Nat
  BY SizesAssumption DEF ChunkerIInv, ChunkerTypeOK
<1>5. ~BlankBlock(block) => start \in 0 .. block.tokens - 1
  <2> SUFFICES ASSUME ~BlankBlock(block) PROVE start \in 0 .. block.tokens - 1
    OBVIOUS
  <2>1. block.length # 0
    BY DEF BlankBlock, Blank
  <2>2. block.tokens # 0
    BY <1>3, <2>1 DEF IsBlock
  <2> QED
    BY <1>3, <2>2 DEF ChunkerIInv, ChunkerTypeOK
<1> QED
  BY <1>1, <1>2, <1>3, <1>4, <1>5 DEF block

\* A block without content leaves no chunk, and needs none.
LEMMA SkipBlockKeeps ==
  ASSUME ChunkerIInv, SkipBlock
  PROVE  ChunkerIInv'
<1> USE DEF SkipBlock, settingsVars
<1>1. /\ Len(document) \in Nat /\ DOMAIN document = 1 .. Len(document)
      /\ at \in DOMAIN document /\ at + 1 \in 1 .. Len(document) + 1
  BY WindowInBlock
<1>2. start = 0
  BY DEF ChunkerIInv, BlanksAreSkipped
<1>3. ChunkerTypeOK'
  BY <1>1, <1>2 DEF ChunkerIInv, ChunkerTypeOK
<1>4. DocumentOfBlocks' /\ BlanksAreSkipped' /\ BlankChunksAreLong' /\ NoWindowInsideAnother'
  BY <1>2 DEF ChunkerIInv, DocumentOfBlocks, BlanksAreSkipped, BlankChunksAreLong,
              NoWindowInsideAnother, Blank
<1>5. ASSUME NEW c \in chunks PROVE c.block < at + 1 /\ c.block # at + 1
  <2>1. c.block \in 1 .. Len(document) /\ c.first \in Nat
    BY <1>1 DEF ChunkerIInv, ChunkerTypeOK, Chunk, ChunksHaveContent
  <2> QED
    BY <1>1, <2>1 DEF ChunkerIInv, ChunksHaveContent
<1>6. ChunksHaveContent'
  BY <1>5 DEF ChunkerIInv, ChunksHaveContent
<1>7. CoveredSoFar'
  <2> SUFFICES ASSUME ~Chunked' PROVE 0 .. document[at + 1].starts[0] - 1 = {}
    BY <1>2 DEF CoveredSoFar, block
  <2>1. at + 1 \in DOMAIN document
    BY <1>1 DEF Chunked
  <2>2. document[at + 1].starts[0] = 0
    BY <2>1 DEF ChunkerIInv, DocumentOfBlocks, IsBlock
  <2> QED
    BY <2>2
<1>8. WindowsAdvance'
  BY <1>2, <1>5 DEF WindowsAdvance
<1>9. NothingSkipped'
  <2>1. \A k : CharactersOf(k)' = CharactersOf(k)
    BY DEF CharactersOf
  <2>2. \A k \in 1 .. Len(document) : k < at + 1 => k < at \/ k = at
    BY <1>1
  <2> QED
    BY <2>1, <2>2 DEF ChunkerIInv, NothingSkipped, BlankBlock, Blank, block
<1> QED
  BY <1>3, <1>4, <1>6, <1>7, <1>8, <1>9 DEF ChunkerIInv

\* One turn of the loop.
LEMMA WindowKeeps ==
  ASSUME ChunkerIInv, Window
  PROVE  ChunkerIInv'
<1> DEFINE end == WindowEnd(block, start)
           new == ChunkOf(block, start, end)
           next == NextStart(start, end)
<1>1. /\ Len(document) \in Nat /\ DOMAIN document = 1 .. Len(document)
      /\ at \in DOMAIN document /\ at + 1 \in 1 .. Len(document) + 1
      /\ block = document[at] /\ IsBlock(block)
      /\ block.tokens \in Nat /\ block.length \in Nat
      /\ start \in 0 .. block.tokens - 1 /\ start \in Nat
      /\ size \in Nat \ {0} /\ overlap \in Nat /\ size \div 2 \in Nat
  BY WindowInBlock DEF Window
<1>2. /\ end \in start + 1 .. block.tokens /\ end \in Nat
      /\ end >= start + size \div 2 \/ end = block.tokens
  BY <1>1, WindowAdvances
<1>3. /\ UNCHANGED <<document, size, overlap>>
      /\ \/ block.starts[start] < block.starts[end] /\ chunks' = chunks \cup {new}
         \/ ~(block.starts[start] < block.starts[end]) /\ chunks' = chunks
      /\ \/ end = block.tokens /\ at' = at + 1 /\ start' = 0
         \/ end # block.tokens /\ at' = at /\ start' = next
  BY DEF Window, settingsVars
<1>4. /\ \A k \in 0 .. block.tokens : block.starts[k] \in Nat
      /\ block.starts[start] \in Nat /\ block.starts[end] \in Nat
      /\ block.starts[start] <= block.starts[end]
      /\ block.starts[0] = 0 /\ block.starts[block.tokens] = block.length
  <2> HIDE DEF end, new, next
  <2>1. start \in 0 .. block.tokens /\ end \in 0 .. block.tokens /\ start < end
    BY <1>1, <1>2
  <2>2. \A k \in 0 .. block.tokens : block.starts[k] \in Nat
    BY <1>1, BlockTypes
  <2>3. block.starts[start] <= block.starts[end]
    BY <1>1, <2>1, TokensAscend
  <2> QED
    BY <1>1, <2>1, <2>2, <2>3 DEF IsBlock
<1>5. /\ new.block = at /\ new.first = start /\ new.last = end
      /\ new.from = block.starts[start] /\ new.to = block.starts[end]
      /\ new \in Chunk
  BY <1>1, <1>2, <1>4 DEF ChunkOf, Chunk
<1> HIDE DEF end, new
<1>6. next \in start + 1 .. end /\ (start + overlap < end => next = end - overlap)
  <2>1. start < end /\ start \in Nat /\ end \in Nat
    BY <1>1, <1>2
  <2> QED
    BY <1>1, <2>1, NextWindow
<1> HIDE DEF next
<1>7. overlap < size \div 2 /\ end # block.tokens => start + overlap < end
  BY <1>1, <1>2
<1>8. \A c \in chunks : /\ c.block \in 1 .. Len(document)
                        /\ c.block < at \/ (c.block = at /\ c.first < start)
                        /\ c.first \in Nat /\ c.last \in Nat
                        /\ c.from \in Nat /\ c.to \in Nat
  BY <1>1 DEF ChunkerIInv, ChunkerTypeOK, Chunk, ChunksHaveContent
<1>9. \A c \in chunks' : c \in chunks \/ c = new
  BY <1>3
<1>10. ChunkerTypeOK'
  <2>1. chunks' \subseteq Chunk
    BY <1>3, <1>5 DEF ChunkerIInv, ChunkerTypeOK
  <2>2. at' \in 1 .. Len(document) + 1
    BY <1>1, <1>3 DEF ChunkerIInv, ChunkerTypeOK
  <2>3. start' # 0 => at' = at /\ start' \in 1 .. block.tokens - 1
    BY <1>1, <1>2, <1>3, <1>6
  <2> QED
    BY <1>3, <2>1, <2>2, <2>3
       DEF ChunkerIInv, ChunkerTypeOK, Chunked, block, Window
<1>11. DocumentOfBlocks'
  BY <1>3 DEF ChunkerIInv, DocumentOfBlocks
<1>12. BlanksAreSkipped'
  BY <1>3 DEF BlanksAreSkipped, Window, block, BlankBlock, Blank
<1>13. ChunksHaveContent'
  <2>1. IsFiniteSet(chunks')
    BY <1>3, FS_AddElement DEF ChunkerIInv, ChunksHaveContent
  <2>2. ASSUME NEW c \in chunks
        PROVE  c.block < at' \/ (c.block = at' /\ c.first < start')
    BY <1>1, <1>2, <1>3, <1>6, <1>8
  <2>3. new.block < at' \/ (new.block = at' /\ new.first < start')
    BY <1>1, <1>2, <1>3, <1>5, <1>6
  <2>4. /\ new.block \in DOMAIN document
        /\ new.first < new.last /\ new.last <= document[new.block].tokens
        /\ new.from = document[new.block].starts[new.first]
        /\ new.to = document[new.block].starts[new.last]
    BY <1>1, <1>2, <1>5
  <2> QED
    BY <1>3, <1>9, <2>1, <2>2, <2>3, <2>4 DEF ChunkerIInv, ChunksHaveContent
<1>14. /\ \A k : k # at => CharactersOf(k)' = CharactersOf(k)
       /\ CharactersOf(at) \subseteq
             (UNION {c.from .. c.to - 1 : c \in {d \in chunks' : d.block = at}})
       /\ block.starts[start] .. block.starts[end] - 1 \subseteq
             (UNION {c.from .. c.to - 1 : c \in {d \in chunks' : d.block = at}})
  <2>1. \A k : k # at => {d \in chunks' : d.block = k} = {d \in chunks : d.block = k}
    BY <1>3, <1>5
  <2>2. chunks \subseteq chunks'
    BY <1>3
  <2>3. CASE block.starts[start] < block.starts[end]
    <3>1. new \in {d \in chunks' : d.block = at}
      BY <1>3, <1>5, <2>3
    <3> QED
      BY <1>5, <2>1, <2>2, <3>1 DEF CharactersOf
  <2>4. CASE ~(block.starts[start] < block.starts[end])
    <3>1. block.starts[start] .. block.starts[end] - 1 = {}
      BY <1>4, <2>4
    <3> QED
      BY <2>1, <2>2, <3>1 DEF CharactersOf
  <2> QED
    BY <2>3, <2>4
<1> DEFINE had == UNION {c.from .. c.to - 1 : c \in {d \in chunks' : d.block = at}}
<1>15. 0 .. block.starts[end] - 1 \subseteq had
  <2>1. 0 .. block.starts[start] - 1 \subseteq had
    BY <1>14 DEF ChunkerIInv, CoveredSoFar, Window
  <2>2. block.starts[start] \in Nat /\ block.starts[end] \in Nat
    BY <1>1, <1>2, <1>4
  <2> HIDE DEF had
  <2>3. block.starts[start] .. block.starts[end] - 1 \subseteq had
    BY <1>14 DEF had
  <2> QED
    BY <2>1, <2>2, <2>3
<1>16. CoveredSoFar'
  <2>1. CASE end = block.tokens
    <3> SUFFICES ASSUME ~Chunked' PROVE 0 .. document[at + 1].starts[0] - 1 = {}
      BY <1>2, <1>3, <2>1 DEF CoveredSoFar, block
    <3>1. at + 1 \in DOMAIN document
      BY <1>1, <1>3, <2>1 DEF Chunked
    <3>2. document[at + 1].starts[0] = 0
      BY <3>1 DEF ChunkerIInv, DocumentOfBlocks, IsBlock
    <3> QED
      BY <3>2
  <2>2. CASE end # block.tokens
    <3>1. /\ next \in 0 .. block.tokens /\ end \in 0 .. block.tokens
          /\ next <= end
      BY <1>1, <1>2, <1>6
    <3>2. block.starts[next] <= block.starts[end]
      BY <1>1, <3>1, TokensAscend
    <3>3. block.starts[next] \in Nat /\ block.starts[end] \in Nat
      BY <1>4, <3>1
    <3>4. 0 .. block.starts[next] - 1 \subseteq had
      BY <1>15, <3>2, <3>3
    <3>5. block' = block /\ start' = next /\ CharactersOf(at)' = had
      BY <1>3, <2>2 DEF block, CharactersOf
    <3> QED
      BY <3>4, <3>5 DEF CoveredSoFar
  <2> QED
    BY <2>1, <2>2
<1>17. WindowsAdvance'
  <2> SUFFICES ASSUME overlap < size \div 2, end # block.tokens
               PROVE  /\ next + overlap < block.tokens
                      /\ \A c \in chunks' : c.block = at => c.last <= next + overlap
    <3>1. end = block.tokens => start' = 0 /\ \A c \in chunks' : c.block # at'
      BY <1>1, <1>3, <1>5, <1>8, <1>9
    <3>2. end # block.tokens => block' = block /\ at' = at /\ start' = next
      BY <1>3 DEF block
    <3> QED
      BY <1>3, <3>1, <3>2 DEF WindowsAdvance
  <2>1. next = end - overlap
    BY <1>6, <1>7
  <2>2. \A c \in chunks : c.block = at => c.last <= start + overlap
    BY DEF ChunkerIInv, WindowsAdvance
  <2> QED
    BY <1>1, <1>2, <1>5, <1>7, <1>8, <1>9, <2>1, <2>2
<1>18. NothingSkipped'
  <2> SUFFICES ASSUME NEW k \in 1 .. Len(document), k < at', ~BlankBlock(document[k])
               PROVE  CharactersOf(k)' = 0 .. document[k].length - 1
    BY <1>3 DEF NothingSkipped, BlankBlock, Blank
  <2>1. CASE k < at
    <3>1. k # at
      BY <1>1, <2>1
    <3> QED
      BY <1>14, <2>1, <3>1 DEF ChunkerIInv, NothingSkipped
  <2>2. CASE k = at /\ end = block.tokens
    <3>1. 0 .. block.length - 1 \subseteq had
      BY <1>4, <1>15, <2>2
    <3>2. ASSUME NEW c \in chunks', c.block = at
          PROVE  c.from .. c.to - 1 \subseteq 0 .. block.length - 1
      <4>1. /\ c.from = block.starts[c.first] /\ c.to = block.starts[c.last]
            /\ c.first < c.last /\ c.last <= block.tokens
            /\ c.first \in Nat /\ c.last \in Nat
        BY <1>1, <1>3, <1>10, <1>13, <3>2 DEF ChunkerTypeOK, Chunk, ChunksHaveContent
      <4>2. block.tokens \in Nat /\ block.length \in Nat /\ IsBlock(block)
        BY <1>1
      <4>3. c.first \in 0 .. block.tokens /\ c.last \in 0 .. block.tokens
        BY <4>1, <4>2
      <4>4. /\ block.starts[c.first] \in Nat
            /\ block.starts[c.last] \in Nat /\ block.starts[c.last] <= block.length
        BY <4>2, <4>3, BlockTypes
      <4>5. c.from \in Nat /\ c.to \in Nat /\ c.to <= block.length
        BY <4>1, <4>4
      <4> QED
        BY <4>2, <4>5
    <3>3. had \subseteq 0 .. block.length - 1
      BY <3>2
    <3>4. CharactersOf(k)' = had
      BY <2>2 DEF CharactersOf
    <3> QED
      BY <1>1, <2>2, <3>1, <3>3, <3>4
  <2> QED
    BY <1>1, <1>3, <2>1, <2>2
<1>19. NoWindowInsideAnother'
  <2> SUFFICES ASSUME overlap < size \div 2, NEW c \in chunks', NEW d \in chunks',
                      c.block = d.block, c.first < d.first
               PROVE  c.last < d.last
    BY <1>3 DEF NoWindowInsideAnother
  <2>1. CASE c \in chunks /\ d \in chunks
    BY <2>1 DEF ChunkerIInv, NoWindowInsideAnother
  <2>2. CASE c = new /\ d \in chunks
    BY <1>1, <1>5, <1>8, <2>2
  <2>3. CASE c \in chunks /\ d = new
    <3>1. c.block = at /\ c.last <= start + overlap
      BY <1>5, <2>3 DEF ChunkerIInv, WindowsAdvance
    <3>2. start # 0 /\ start + overlap < block.tokens
      BY <1>1, <1>5, <1>8, <2>3 DEF ChunkerIInv, WindowsAdvance
    <3> QED
      BY <1>1, <1>2, <1>5, <1>8, <2>3, <3>1, <3>2
  <2>4. CASE c = new /\ d = new
    BY <1>1, <1>5, <2>4
  <2> QED
    BY <1>9, <2>1, <2>2, <2>3, <2>4
<1>20. BlankChunksAreLong'
  <2> SUFFICES ASSUME overlap < size \div 2, NEW c \in chunks',
                      Blank(document[c.block], c.from, c.to)
               PROVE  c.last - c.first > overlap
    BY <1>3 DEF BlankChunksAreLong, Blank
  <2>1. CASE c \in chunks
    BY <2>1 DEF ChunkerIInv, BlankChunksAreLong
  <2>2. CASE c = new
    <3>1. ~(start = 0 /\ end = block.tokens)
      BY <1>1, <1>4, <1>5, <2>2 DEF Window, BlankBlock
    <3>2. start # 0 => start + overlap < block.tokens
      BY DEF ChunkerIInv, WindowsAdvance
    <3>3. start + overlap < end
      BY <1>1, <1>2, <3>1, <3>2
    <3> QED
      BY <1>1, <1>2, <1>5, <2>2, <3>3
  <2> QED
    BY <1>9, <2>1, <2>2
<1> QED
  BY <1>10, <1>11, <1>12, <1>13, <1>16, <1>17, <1>18, <1>19, <1>20 DEF ChunkerIInv

\* Both turns of the loop of chunk_text keep the invariant.
LEMMA ChunkTextKeeps ==
  ASSUME ChunkerIInv, ChunkText
  PROVE  ChunkerIInv'
BY SkipBlockKeeps, WindowKeeps DEF ChunkText

\* So does letting the document go once its contents are handed on.
LEMMA LetGoKeeps ==
  ASSUME ChunkerIInv, LetGo
  PROVE  ChunkerIInv'
<1> USE DEF LetGo
<1>1. Chunked' /\ Len(document') = 0 /\ DOMAIN document' = {}
  BY DEF Chunked
<1>2. ChunkerTypeOK' /\ BlanksAreSkipped'
  BY <1>1 DEF ChunkerIInv, ChunkerTypeOK, BlanksAreSkipped
<1>3. DocumentOfBlocks'
  BY <1>1 DEF DocumentOfBlocks, IsSequence
<1>4. ChunksHaveContent' /\ CoveredSoFar' /\ WindowsAdvance'
  BY <1>1, FS_EmptySet DEF ChunksHaveContent, CoveredSoFar, WindowsAdvance
<1>5. NothingSkipped' /\ NoWindowInsideAnother' /\ BlankChunksAreLong'
  BY <1>1 DEF NothingSkipped, NoWindowInsideAnother, BlankChunksAreLong
<1> QED
  BY <1>2, <1>3, <1>4, <1>5 DEF ChunkerIInv

\* So does a step that leaves the chunker alone.
LEMMA ChunkerUntouched ==
  ASSUME ChunkerIInv, UNCHANGED chunkerVars
  PROVE  ChunkerIInv'
<1> USE DEF chunkerVars, settingsVars
<1>1. ChunkerTypeOK' /\ DocumentOfBlocks' /\ BlanksAreSkipped'
  BY DEF ChunkerIInv, ChunkerTypeOK, Chunked, block, DocumentOfBlocks, BlanksAreSkipped,
         BlankBlock, Blank
<1>2. ChunksHaveContent' /\ WindowsAdvance'
  BY DEF ChunkerIInv, ChunksHaveContent, WindowsAdvance, block
<1>3. \A k : CharactersOf(k)' = CharactersOf(k)
  BY DEF CharactersOf
<1>4. CoveredSoFar' /\ NothingSkipped'
  BY <1>3 DEF ChunkerIInv, CoveredSoFar, NothingSkipped, Chunked, block, BlankBlock, Blank
<1>5. NoWindowInsideAnother' /\ BlankChunksAreLong'
  BY DEF ChunkerIInv, NoWindowInsideAnother, BlankChunksAreLong, Blank
<1> QED
  BY <1>1, <1>2, <1>4, <1>5 DEF ChunkerIInv

(***************************************************************************)
(* The client.                                                              *)
(***************************************************************************)

\* There is at least one attempt.
LEMMA AttemptsPositive ==
  ASSUME ClientTypeOK
  PROVE  Attempts \in Nat /\ Attempts >= 1
BY RetrySettingsAssumption DEF ClientTypeOK, Attempts

\* An answer with the right number of vectors has those of the batch.
LEMMA AnswerIsBatch ==
  ASSUME ClientTypeOK, sent < Len(blank), NEW answer \in Answers, CountMatches(answer)
  PROVE  /\ answer = Batch /\ answer \in Seq(Nat)
         /\ BatchEnd \in sent + 1 .. Len(blank) /\ Len(answer) = BatchEnd - sent
<1>1. sent \in Nat /\ Len(blank) \in Nat /\ ClientBatch \in Nat \ {0}
  BY ClientBatchAssumption DEF ClientTypeOK
<1>2. BatchEnd \in sent + 1 .. Len(blank)
  BY <1>1 DEF BatchEnd
<1>3. BatchEnd - sent \in Nat /\ \A i \in 1 .. BatchEnd - sent : sent + i \in Nat
  BY <1>1, <1>2
<1>4. Batch \in Seq(Nat) /\ Len(Batch) = BatchEnd - sent
  BY <1>3 DEF Batch
<1>5. Len(Append(Batch, Stray)) = Len(Batch) + 1
  BY <1>4 DEF Stray
<1>6. Len(Front(Batch)) # Len(Batch)
  <2> DEFINE n == Len(Batch) - 1
  <2>1. n \in Nat /\ \A i \in 1 .. n : Batch[i] \in Nat
    <3>1. n \in Nat /\ \A i \in 1 .. n : i \in 1 .. Len(Batch)
      BY <1>1, <1>2, <1>3, <1>4
    <3> QED
      BY <1>4, <3>1, ElementOfSeq
  <2> HIDE DEF n
  <2>2. Len(SubSeq(Batch, 1, n)) = IF 1 <= n THEN n - 1 + 1 ELSE 0
    BY <2>1, SubSeqProperties
  <2> QED
    BY <2>1, <2>2 DEF Front, n
<1> QED
  BY <1>2, <1>4, <1>5, <1>6 DEF Answers, CountMatches

\* A call of the client, with any texts.
LEMMA CallKeeps ==
  ASSUME ClientIInv, NEW texts \in Seq(BOOLEAN), Call(texts)
  PROVE  ClientIInv'
<1> USE DEF ClientIInv, Call
<1>1. ClientTypeOK'
  BY DEF ClientTypeOK, Outcomes
<1>2. sent' = 0 /\ vectors' = <<>> /\ attempt' = 0 /\ failures' = 0
  BY DEF ClientTypeOK, VectorsSoFar, AttemptsLeft
<1>3. texts # <<>> => Len(texts) > 0
  OBVIOUS
<1>4. VectorsSoFar'
  BY <1>2, <1>3 DEF VectorsSoFar, Outcomes
<1>5. AttemptsLeft'
  <2>1. Attempts' \in Nat /\ Attempts' >= 1
    BY RetrySettingsAssumption DEF Attempts
  <2>2. 0 < Attempts'
    BY <2>1
  <2> QED
    BY <1>2, <2>2 DEF AttemptsLeft
<1>6. VectorsMatchTexts'
  <2>1. call' = "returned" => blank' = <<>>
    OBVIOUS
  <2>2. [i \in DOMAIN <<>> |-> i] = <<>>
    OBVIOUS
  <2> QED
    BY <1>2, <2>1, <2>2 DEF VectorsMatchTexts
<1>7. UnavailableMeansExhausted'
  BY DEF UnavailableMeansExhausted
<1> QED
  BY <1>1, <1>4, <1>5, <1>6, <1>7

\* An answer adds the vectors of its batch.
LEMMA BatchAnsweredKeeps ==
  ASSUME ClientIInv, BatchAnswered
  PROVE  ClientIInv'
<1> USE DEF ClientIInv, BatchAnswered
<1>1. PICK answer \in Answers :
         /\ CountMatches(answer)
         /\ vectors' = vectors \o answer
         /\ call' = IF BatchEnd < Len(blank) THEN "posting"
                    ELSE IF Len(vectors') = Len(blank) THEN "returned" ELSE "rejected"
  OBVIOUS
<1>2. sent \in Nat /\ sent < Len(blank) /\ vectors = [i \in 1 .. sent |-> i]
  BY DEF ClientTypeOK, VectorsSoFar
<1>3. /\ answer = Batch /\ answer \in Seq(Nat)
      /\ BatchEnd \in sent + 1 .. Len(blank) /\ Len(answer) = BatchEnd - sent
  BY <1>1, <1>2, AnswerIsBatch
<1>4. vectors' = [i \in 1 .. BatchEnd |-> i]
  <2> HIDE DEF ClientIInv, BatchAnswered
  <2>1. vectors \in Seq(Nat) /\ Len(vectors) = sent
    BY <1>2 DEF ClientIInv, ClientTypeOK
  <2>2. vectors' \in Seq(Nat) /\ Len(vectors') = BatchEnd
    BY <1>1, <1>2, <1>3, <2>1
  <2>3. ASSUME NEW i \in 1 .. BatchEnd PROVE vectors'[i] = i
    <3>1. CASE i <= sent
      BY <1>1, <1>2, <1>3, <2>1, <3>1
    <3>2. CASE i > sent
      <4>1. vectors'[i] = answer[i - sent] /\ i - sent \in 1 .. BatchEnd - sent
        BY <1>1, <1>2, <1>3, <2>1, <3>2
      <4>2. \A k \in 1 .. BatchEnd - sent : Batch[k] = sent + k
        BY DEF Batch
      <4> QED
        BY <1>2, <1>3, <4>1, <4>2
    <3> QED
      BY <1>2, <1>3, <3>1, <3>2
  <2>4. vectors' = [i \in 1 .. BatchEnd |-> vectors'[i]]
    BY <2>2, LenProperties
  <2> QED
    BY <2>3, <2>4
<1>5. BatchEnd \in Nat /\ Len(blank) \in Nat /\ Len(vectors') = BatchEnd
  <2>1. BatchEnd \in Nat /\ Len(blank) \in Nat
    BY <1>2, <1>3 DEF ClientTypeOK
  <2> QED
    BY <1>4, <2>1
<1>6. ClientTypeOK'
  <2>1. vectors' \in Seq(Nat)
    BY <1>4, <1>5
  <2> QED
    BY <1>1, <1>5, <2>1 DEF ClientTypeOK, Outcomes, FreshAttempt
<1>7. VectorsSoFar'
  BY <1>1, <1>4, <1>5 DEF VectorsSoFar
<1>8. AttemptsLeft'
  BY AttemptsPositive DEF AttemptsLeft, FreshAttempt, Attempts
<1>9. VectorsMatchTexts'
  <2> SUFFICES ASSUME call' = "returned" PROVE vectors' = [i \in DOMAIN blank |-> i]
    BY DEF VectorsMatchTexts
  <2>1. DOMAIN blank = 1 .. BatchEnd
    BY <1>1, <1>3, <1>5 DEF ClientTypeOK
  <2> QED
    BY <1>4, <2>1
<1>10. UnavailableMeansExhausted'
  BY <1>1 DEF UnavailableMeansExhausted
<1> QED
  BY <1>6, <1>7, <1>8, <1>9, <1>10

\* A rejected batch ends the call, and so does the last failed attempt.
LEMMA BatchFailsKeeps ==
  ASSUME ClientIInv, BatchRejected \/ BatchFails
  PROVE  ClientIInv'
<1> USE DEF ClientIInv, BatchRejected, BatchFails
<1>1. ClientTypeOK'
  BY DEF ClientTypeOK, Outcomes
<1>2. VectorsSoFar' /\ VectorsMatchTexts'
  BY DEF VectorsSoFar, VectorsMatchTexts
<1>3. AttemptsLeft' /\ UnavailableMeansExhausted'
  <2>1. Attempts' = Attempts
    BY DEF Attempts
  <2> QED
    BY <2>1, AttemptsPositive
       DEF ClientTypeOK, AttemptsLeft, UnavailableMeansExhausted
<1> QED
  BY <1>1, <1>2, <1>3

\* A step that leaves the client alone keeps its invariant.
LEMMA ClientUntouched ==
  ASSUME ClientIInv, UNCHANGED clientVars
  PROVE  ClientIInv'
BY DEF ClientIInv, clientVars, ClientTypeOK, VectorsSoFar, AttemptsLeft, Attempts,
       VectorsMatchTexts, UnavailableMeansExhausted

(***************************************************************************)
(* The composition.                                                         *)
(***************************************************************************)

\* The contents of the chunks are texts.
LEMMA ContentsType ==
  ASSUME ChunkerIInv
  PROVE  Contents \in Seq(BOOLEAN)
<1>1. Cardinality(chunks) \in Nat
  BY FS_CardinalityType DEF ChunkerIInv, ChunksHaveContent
<1>2. \A i : Blank(document[Nth(i).block], Nth(i).from, Nth(i).to) \in BOOLEAN
  BY DEF Blank
<1> QED
  BY <1>1, <1>2 DEF Contents

\* IngestionIInv is an inductive invariant.
THEOREM IngestionInvariance == Ingest => []IngestionIInv
<1>1. IngestionInit => IngestionIInv
  <2> SUFFICES ASSUME IngestionInit PROVE IngestionIInv
    OBVIOUS
  <2> USE DEF IngestionInit
  <2>1. IsSequence(document) /\ \A k \in DOMAIN document : IsBlock(document[k])
    BY DocumentsAssumption DEF ChunkerInit
  <2>2. Len(document) \in Nat /\ DOMAIN document = 1 .. Len(document)
    BY <2>1 DEF IsSequence
  <2>3. ChunkerTypeOK
    BY <2>2 DEF ChunkerInit, ChunkerTypeOK
  <2>4. DocumentOfBlocks /\ BlanksAreSkipped /\ ChunksHaveContent /\ WindowsAdvance
    BY <2>1, FS_EmptySet
       DEF ChunkerInit, DocumentOfBlocks, BlanksAreSkipped, ChunksHaveContent, WindowsAdvance
  <2>5. CoveredSoFar
    <3> SUFFICES ASSUME ~Chunked PROVE 0 .. block.starts[start] - 1 = {}
      BY DEF CoveredSoFar
    <3>1. 1 \in DOMAIN document /\ start = 0 /\ at = 1
      BY <2>2 DEF ChunkerInit, Chunked
    <3>2. block.starts[start] = 0
      BY <2>1, <3>1 DEF IsBlock, block
    <3> QED
      BY <3>2
  <2>6. NothingSkipped /\ NoWindowInsideAnother /\ BlankChunksAreLong
    BY DEF ChunkerInit, NothingSkipped, NoWindowInsideAnother, BlankChunksAreLong
  <2>7. ClientIInv
    BY DEF ClientInit, ClientIInv, ClientTypeOK, VectorsSoFar, AttemptsLeft,
           VectorsMatchTexts, UnavailableMeansExhausted
  <2> QED
    BY <2>3, <2>4, <2>5, <2>6, <2>7 DEF IngestionIInv, IngestionTypeOK, ChunkerIInv, ClientIInv
<1>2. IngestionIInv /\ [Step]_ingestionVars => IngestionIInv'
  <2> SUFFICES ASSUME IngestionIInv, [Step]_ingestionVars PROVE IngestionIInv'
    OBVIOUS
  <2> USE DEF IngestionIInv
  <2> SUFFICES ChunkerIInv' /\ ClientIInv' /\ refusal' \in BOOLEAN
    BY DEF IngestionTypeOK, ChunkerIInv, ClientIInv
  <2>1. CASE Chunking
    BY <2>1, ChunkTextKeeps, ClientUntouched DEF Chunking, IngestionTypeOK
  <2>2. CASE Embed
    BY <2>2, LetGoKeeps, CallKeeps, ContentsType DEF Embed, IngestionTypeOK
  <2>3. CASE NoChunks
    BY <2>3, ChunkerUntouched, ClientUntouched DEF NoChunks
  <2>4. CASE Embedding
    BY <2>4, ChunkerUntouched, BatchAnsweredKeeps, BatchFailsKeeps
       DEF Embedding, GenerateEmbeddings, IngestionTypeOK
  <2>5. CASE UNCHANGED ingestionVars
    BY <2>5, ChunkerUntouched, ClientUntouched DEF ingestionVars, IngestionTypeOK
  <2> QED
    BY <2>1, <2>2, <2>3, <2>4, <2>5 DEF Step
<1> QED
  BY <1>1, <1>2, PTL DEF Ingest

\* Type correctness of the chunker, the client and their composition.
THEOREM IngestionTypeCorrect == Ingest => []IngestionTypeOK
BY IngestionInvariance, PTL DEF IngestionIInv

\* Every character of a block with content is in some chunk.
THEOREM NothingIsSkipped == Ingest => []NothingSkipped
BY IngestionInvariance, PTL DEF IngestionIInv, ChunkerIInv

\* With a short overlap, every window adds something to the one before it.
THEOREM WindowsAddSomething == Ingest => []NoWindowInsideAnother
BY IngestionInvariance, PTL DEF IngestionIInv, ChunkerIInv

\* A chunk without content is longer than the overlap.
THEOREM BlankChunksTakeLongBlanks == Ingest => []BlankChunksAreLong
BY IngestionInvariance, PTL DEF IngestionIInv, ChunkerIInv

\* The client returns the vector of each text, in the order of the texts.
THEOREM VectorsInOrder == Ingest => []VectorsMatchTexts
BY IngestionInvariance, PTL DEF IngestionIInv, ClientIInv

\* The client gives up only after all attempts of one batch.
THEOREM AllAttemptsAreUsed == Ingest => []UnavailableMeansExhausted
BY IngestionInvariance, PTL DEF IngestionIInv, ClientIInv
=============================================================================
