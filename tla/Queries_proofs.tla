---------------------------- MODULE Queries_proofs ----------------------------
(***************************************************************************)
(* Proofs about Queries and its Pool for any uploads, documents, requests,  *)
(* connections, page size and candidate list.                               *)
(***************************************************************************)
EXTENDS Queries, FunctionTheorems, FiniteSetTheorems, TLAPS

(***************************************************************************)
(* The pool.                                                                *)
(***************************************************************************)

\* The requests of a kind are finitely many.
LEMMA RequestsCounted ==
  ASSUME NEW S \in SUBSET Requests
  PROVE  /\ IsFiniteSet(S) /\ Cardinality(S) \in Nat
         /\ Cardinality(S) <= Cardinality(Requests)
         /\ \A r \in Requests \ S : Cardinality(S \cup {r}) = Cardinality(S) + 1
         /\ \A r \in S : Cardinality(S \ {r}) = Cardinality(S) - 1
BY RequestsAssumption, FS_Subset, FS_CardinalityType, FS_RemoveElement

\* Enter keeps the pool's invariant.
LEMMA EnterKeeps ==
  ASSUME PoolIInv, NEW r \in Requests, Enter(r)
  PROVE  PoolIInv'
<1> USE DEF PoolIInv, PoolTypeOK, Enter, Places
<1>1. PoolsToCome'
  <2>1. CASE Connected
    <3>1. Connecting' = Connecting
      BY <2>1 DEF Connecting
    <3> QED
      BY <3>1 DEF PoolsToCome
  <2>2. CASE ~Connected
    <3>1. opened = 0
      BY <2>2 DEF Connected, LastPoolIsKept
    <3>2. Cardinality(Connecting') <= Cardinality(Requests) /\ Cardinality(Connecting') \in Nat
      BY RequestsCounted DEF Connecting
    <3> QED
      BY <3>1, <3>2 DEF PoolsToCome
  <2> QED
    BY <2>1, <2>2
<1>2. LastPoolIsKept'
  BY DEF LastPoolIsKept
<1>3. UsesOpenPool'
  BY DEF UsesOpenPool, LastPoolIsKept, Pools, Connected
<1>4. ConnectionsCounted'
  <2>1. \A p \in Pools : Connections(p)' = Connections(p)
    BY DEF Connections
  <2> QED
    BY <2>1 DEF ConnectionsCounted
<1> QED
  BY <1>1, <1>2, <1>3, <1>4

\* PoolOpens keeps the pool's invariant.
LEMMA PoolOpensKeeps ==
  ASSUME PoolIInv, NEW r \in Requests, PoolOpens(r)
  PROVE  PoolIInv'
<1> USE DEF PoolIInv, PoolTypeOK, PoolOpens, Places
<1>1. /\ Cardinality(Connecting') = Cardinality(Connecting) - 1
      /\ Cardinality(Connecting) \in Nat
      /\ Cardinality(Connecting') \in Nat
      /\ Cardinality(Requests) \in Nat
  BY RequestsCounted DEF Connecting
<1>2. opened \in Nat
  BY DEF Pools
<1>3. PoolsToCome'
  BY <1>1 DEF PoolsToCome
<1>4. opened + 1 \in Pools
  BY <1>1 DEF PoolsToCome, Pools
<1>5. PoolTypeOK'
  BY <1>4
<1>6. LastPoolIsKept'
  BY DEF LastPoolIsKept
<1>7. UsesOpenPool'
  BY <1>2 DEF UsesOpenPool
<1>8. ConnectionsCounted'
  <2>1. \A p \in Pools : Connections(p)' = Connections(p)
    BY DEF Connections
  <2> QED
    BY <2>1 DEF ConnectionsCounted
<1> QED
  BY <1>3, <1>5, <1>6, <1>7, <1>8

\* PoolFails keeps the pool's invariant.
LEMMA PoolFailsKeeps ==
  ASSUME PoolIInv, NEW r \in Requests, PoolFails(r)
  PROVE  PoolIInv'
<1> USE DEF PoolIInv, PoolTypeOK, PoolFails, Places
<1>1. /\ Connecting' = Connecting \ {r}
      /\ r \in Connecting
  BY DEF Connecting
<1>2. /\ Cardinality(Connecting') = Cardinality(Connecting) - 1
      /\ Cardinality(Connecting) \in Nat
      /\ Cardinality(Requests) \in Nat
  BY <1>1, RequestsCounted DEF Connecting
<1>3. PoolTypeOK' /\ LastPoolIsKept' /\ UsesOpenPool'
  BY DEF LastPoolIsKept, UsesOpenPool
<1>4. PoolsToCome'
  BY <1>2 DEF PoolsToCome
<1>5. ConnectionsCounted'
  <2>1. \A p \in Pools : Connections(p)' = Connections(p)
    BY DEF Connections
  <2> QED
    BY <2>1 DEF ConnectionsCounted
<1> QED
  BY <1>3, <1>4, <1>5

\* Acquire keeps the pool's invariant.
LEMMA AcquireKeeps ==
  ASSUME PoolIInv, NEW r \in Requests, Acquire(r)
  PROVE  PoolIInv'
<1> USE DEF PoolIInv, PoolTypeOK, Acquire, Places
<1>1. Connecting' = Connecting
  BY DEF Connecting
<1>2. using[r] \in Pools
  BY DEF UsesOpenPool
<1>3. PoolTypeOK'
  BY <1>2, PoolMaxAssumption
<1>4. PoolsToCome' /\ LastPoolIsKept' /\ UsesOpenPool'
  BY <1>1 DEF PoolsToCome, LastPoolIsKept, UsesOpenPool
<1>5. ConnectionsCounted'
  <2> SUFFICES ASSUME NEW p \in Pools PROVE busy'[p] = Cardinality(Connections(p)')
    BY DEF ConnectionsCounted
  <2>1. CASE p = using[r]
    <3>1. Connections(p)' = Connections(p) \cup {r} /\ r \notin Connections(p)
      BY <2>1 DEF Connections
    <3>2. Cardinality(Connections(p)') = Cardinality(Connections(p)) + 1
      BY <3>1, RequestsCounted DEF Connections
    <3> QED
      BY <2>1, <3>2 DEF ConnectionsCounted
  <2>2. CASE p # using[r]
    <3>1. Connections(p)' = Connections(p)
      BY <2>2 DEF Connections
    <3> QED
      BY <2>2, <3>1 DEF ConnectionsCounted
  <2> QED
    BY <2>1, <2>2
<1> QED
  BY <1>3, <1>4, <1>5

\* Exit keeps the pool's invariant, whether the request has raised or not.
LEMMA ExitKeeps ==
  ASSUME PoolIInv, NEW r \in Requests, NEW raised, Exit(r, raised)
  PROVE  PoolIInv'
<1> USE DEF PoolIInv, PoolTypeOK, Exit, Home, Returned, Places
<1>1. Connecting' = Connecting
  BY DEF Connecting
<1>2. using[r] \in Pools
  BY DEF UsesOpenPool
<1>3. ConnectionsCounted' /\ busy[using[r]] > 0
  <2>1. ASSUME NEW p \in Pools, p = using[r]
        PROVE  busy'[p] = Cardinality(Connections(p)') /\ busy[p] > 0
    <3>1. Connections(p)' = Connections(p) \ {r} /\ r \in Connections(p)
      BY <2>1 DEF Connections
    <3>2. /\ Cardinality(Connections(p)') = Cardinality(Connections(p)) - 1
          /\ Cardinality(Connections(p)') \in Nat
          /\ Cardinality(Connections(p)) \in Nat
      BY <3>1, RequestsCounted DEF Connections
    <3> QED
      BY <2>1, <3>2 DEF ConnectionsCounted
  <2>2. ASSUME NEW p \in Pools, p # using[r]
        PROVE  busy'[p] = Cardinality(Connections(p)')
    <3>1. Connections(p)' = Connections(p)
      BY <2>2 DEF Connections
    <3> QED
      BY <2>2, <3>1 DEF ConnectionsCounted
  <2> QED
    BY <1>2, <2>1, <2>2 DEF ConnectionsCounted
<1>4. PoolTypeOK'
  BY <1>2, <1>3, PoolMaxAssumption
<1>5. PoolsToCome' /\ LastPoolIsKept' /\ UsesOpenPool'
  BY <1>1 DEF PoolsToCome, LastPoolIsKept, UsesOpenPool
<1> QED
  BY <1>3, <1>4, <1>5

\* So does a step that leaves the pool alone.
LEMMA PoolUntouched ==
  ASSUME PoolIInv, UNCHANGED poolVars
  PROVE  PoolIInv'
<1>1. Connecting' = Connecting /\ \A p : Connections(p)' = Connections(p)
  BY DEF poolVars, Connecting, Connections
<1> QED
  BY <1>1 DEF poolVars, PoolIInv, PoolTypeOK, PoolsToCome, LastPoolIsKept, UsesOpenPool,
              ConnectionsCounted

\* Whatever a step of the queries does to the pool keeps its invariant, and a
\* request that leaves the pool alone is where it was.
LEMMA PoolKept ==
  ASSUME PoolIInv, [QueriesNext]_queriesVars
  PROVE  PoolIInv'
<1> SUFFICES ASSUME QueriesNext PROVE PoolIInv'
  BY PoolUntouched DEF queriesVars
<1>1. CASE Read
  BY <1>1, EnterKeeps, QueriesAssumption DEF Read, Begin, AskAgain
<1>2. CASE Write
  BY <1>2, PoolUntouched DEF Write, Upload, Settle, Delete, Happens
<1>3. ASSUME NEW r \in Requests, Acquires(r) PROVE PoolIInv'
  BY <1>3, AcquireKeeps DEF Acquires
<1>4. ASSUME NEW r \in Requests, Returns(r) PROVE PoolIInv'
  <2>1. CASE Opens(r)
    BY <2>1, PoolOpensKeeps DEF Opens
  <2>2. CASE ProbeEnds(r)
    BY <2>2, PoolFailsKeeps, ExitKeeps DEF ProbeEnds
  <2>3. CASE r = Reader /\ Statement
    <3>1. Exit(Reader, FALSE) \/ UNCHANGED poolVars
      BY <2>3 DEF Statement, FetchPage, FetchDocument, FetchVersions, FetchResults, Search,
                  FetchChunk, Answer, GoOn
    <3> QED
      BY <2>3, <3>1, PoolUntouched, ExitKeeps
  <2>4. CASE r = Reader /\ ReaderRaises
    BY <2>4, PoolFailsKeeps, ExitKeeps DEF ReaderRaises
  <2> QED
    BY <1>4, <2>1, <2>2, <2>3, <2>4 DEF Returns
<1>5. ASSUME NEW r \in Probes, Probe(r) PROVE PoolIInv'
  BY <1>5, EnterKeeps DEF Probes, Probe
<1> QED
  BY <1>1, <1>2, <1>3, <1>4, <1>5 DEF QueriesNext

(***************************************************************************)
(* Ranks.                                                                   *)
(***************************************************************************)

\* How many members of a finite set have a key no larger than that of d.
RankBy(S, key, d) == Cardinality({c \in S : key[c] <= key[d]})

\* The ranks of a set ordered by a key of their own are 1, 2, 3 and so on.
LEMMA RanksAreNumbers ==
  ASSUME NEW S, IsFiniteSet(S), NEW key \in [S -> Int],
         \A c, d \in S : key[c] = key[d] => c = d
  PROVE  [d \in S |-> RankBy(S, key, d)] \in Bijection(S, 1 .. Cardinality(S))
<1> DEFINE Below(d) == {c \in S : key[c] <= key[d]}
           rank == [d \in S |-> RankBy(S, key, d)]
<1>1. Cardinality(S) \in Nat
  BY FS_CardinalityType
<1>2. ASSUME NEW d \in S
      PROVE  /\ IsFiniteSet(Below(d))
             /\ rank[d] = Cardinality(Below(d))
             /\ rank[d] \in 1 .. Cardinality(S)
  <2>1. IsFiniteSet(Below(d)) /\ Cardinality(Below(d)) <= Cardinality(S)
    BY FS_Subset
  <2>2. Cardinality(Below(d)) \in Nat /\ Cardinality(Below(d)) # 0
    BY <2>1, FS_CardinalityType, FS_EmptySet
  <2> QED
    BY <2>1, <2>2 DEF RankBy
<1>3. rank \in [S -> 1 .. Cardinality(S)]
  BY <1>2
<1> HIDE DEF rank, Below
<1>4. ASSUME NEW c \in S, NEW d \in S, key[c] < key[d]
      PROVE  rank[c] < rank[d]
  <2>1. Below(c) \subseteq Below(d) /\ Below(c) # Below(d)
    <3>1. d \in Below(d) /\ d \notin Below(c)
      BY <1>4 DEF Below
    <3> QED
      BY <3>1 DEF Below
  <2>2. Cardinality(Below(c)) <= Cardinality(Below(d))
        /\ Cardinality(Below(c)) # Cardinality(Below(d))
    BY <1>2, <2>1, FS_Subset
  <2> QED
    BY <1>2, <2>2
<1>5. rank \in Injection(S, 1 .. Cardinality(S))
  <2>1. \A c, d \in S : rank[c] = rank[d] => c = d
    <3> SUFFICES ASSUME NEW c \in S, NEW d \in S, c # d PROVE rank[c] # rank[d]
      OBVIOUS
    <3> QED
      BY <1>4, <1>3
  <2> QED
    BY <1>3, <2>1 DEF Injection, IsInjective
<1>6. IsFiniteSet(1 .. Cardinality(S)) /\ Cardinality(1 .. Cardinality(S)) = Cardinality(S)
  BY <1>1, FS_Interval
<1> QED
  BY <1>5, <1>6, FS_Injection DEF Bijection, rank

\* A page takes the ranks of an interval: it is full if any member of the set
\* comes behind it, and only if the set is large enough.
LEMMA PagesAreFull ==
  ASSUME NEW S, IsFiniteSet(S), NEW key \in [S -> Int],
         \A c, d \in S : key[c] = key[d] => c = d,
         NEW lo \in Nat, NEW hi \in Nat, lo < hi,
         NEW page, page = {d \in S : RankBy(S, key, d) > lo /\ RankBy(S, key, d) <= hi}
  PROVE  /\ (\E d \in S : RankBy(S, key, d) > hi) => Cardinality(page) = hi - lo
         /\ Cardinality(page) = hi - lo => hi <= Cardinality(S)
<1> DEFINE n == Cardinality(S)
           top == IF hi <= n THEN hi ELSE n
           rank == [d \in S |-> RankBy(S, key, d)]
           part == [d \in page |-> rank[d]]
<1>1. n \in Nat /\ top \in Nat
  BY FS_CardinalityType
<1>2. rank \in Bijection(S, 1 .. n)
  BY RanksAreNumbers
<1>3. /\ rank \in [S -> 1 .. n]
      /\ \A c, d \in S : rank[c] = rank[d] => c = d
      /\ \A i \in 1 .. n : \E d \in S : rank[d] = i
  BY <1>2 DEF Bijection, Injection, IsInjective, Surjection
<1>4. page = {d \in S : rank[d] > lo /\ rank[d] <= hi}
  OBVIOUS
<1> HIDE DEF n, rank
<1>5. part \in Bijection(page, lo + 1 .. top)
  <2>1. part \in [page -> lo + 1 .. top]
    BY <1>3, <1>4
  <2>2. \A c, d \in page : part[c] = part[d] => c = d
    BY <1>3
  <2>3. \A i \in lo + 1 .. top : \E d \in page : part[d] = i
    BY <1>1, <1>3, <1>4
  <2> QED
    BY <2>1, <2>2, <2>3 DEF Bijection, Injection, IsInjective, Surjection
<1>6. IsFiniteSet(page) /\ Cardinality(page) = Cardinality(lo + 1 .. top)
  <2>1. IsFiniteSet(page)
    BY FS_Subset
  <2>2. ExistsBijection(page, lo + 1 .. top)
    BY <1>5 DEF ExistsBijection
  <2> HIDE DEF top
  <2> QED
    BY <2>1, <2>2, FS_Bijection
<1>7. Cardinality(page) = IF lo + 1 > top THEN 0 ELSE top - lo
  BY <1>1, <1>6, FS_Interval
<1>8. (\E d \in S : rank[d] > hi) => Cardinality(page) = hi - lo
  BY <1>1, <1>3, <1>7
<1>9. Cardinality(page) = hi - lo => hi <= n
  BY <1>1, <1>7
<1> QED
  BY <1>8, <1>9 DEF n, rank

(***************************************************************************)
(* The reader.                                                              *)
(***************************************************************************)

\* The documents served are known, and have the title of one of their uploads.
LEMMA ServedAreKnown ==
  ASSUME QueriesIInv
  PROVE  /\ ServedDocuments \subseteq Documents
         /\ \A d \in ServedDocuments :
               title[d] \in Versions /\ of[title[d]] = d
BY DEF QueriesIInv, QueriesTypeOK, ServedDocuments, Served, Present, UploadedHasDocument,
       UploadGaveTitle, TitleIsFromUpload

\* The list and the tool order the documents served by a key of their own.
LEMMA ListingHasKey ==
  ASSUME QueriesIInv
  PROVE  \E key \in [ServedDocuments -> Int] :
            /\ \A c, d \in ServedDocuments : key[c] = key[d] => c = d
            /\ \A d \in ServedDocuments : Rank(d) = RankBy(ServedDocuments, key, d)
<1>1. ServedDocuments \subseteq Nat
  BY ServedAreKnown, QueriesAssumption
<1>2. CASE task = "tools"
  <2> DEFINE key == [d \in ServedDocuments |-> title[d]]
  <2>1. key \in [ServedDocuments -> Int]
    <3>1. \A v \in Versions : v \in Int
      BY QueriesAssumption
    <3> QED
      BY <3>1, ServedAreKnown
  <2>2. \A c, d \in ServedDocuments : key[c] = key[d] => c = d
    BY ServedAreKnown
  <2>3. \A d \in ServedDocuments : Rank(d) = RankBy(ServedDocuments, key, d)
    BY <1>2 DEF Rank, RankBy, Precedes, ByTitle
  <2> QED
    BY <2>1, <2>2, <2>3
<1>3. CASE task # "tools"
  <2> DEFINE key == [d \in ServedDocuments |-> -d]
  <2>1. key \in [ServedDocuments -> Int]
    BY <1>1
  <2>2. \A c, d \in ServedDocuments : key[c] = key[d] => c = d
    BY <1>1
  <2>3. ASSUME NEW d \in ServedDocuments PROVE Rank(d) = RankBy(ServedDocuments, key, d)
    <3>1. \A c \in ServedDocuments : c >= d <=> key[c] <= key[d]
      BY <1>1
    <3> QED
      BY <1>3, <3>1 DEF Rank, RankBy, Precedes, ByCreation
  <2> QED
    BY <2>1, <2>2, <2>3
<1> QED
  BY <1>2, <1>3

\* A page is full if a document comes behind it, and there are no more full
\* pages than documents.
LEMMA PageIsFull ==
  ASSUME QueriesIInv, turn > 0
  PROVE  /\ (\E d \in ServedDocuments : Rank(d) > turn * PageSize)
               => Cardinality(Page) = PageSize
         /\ Cardinality(Page) = PageSize => turn <= Cardinality(Documents)
<1> DEFINE lo == (turn - 1) * PageSize
           hi == turn * PageSize
<1>1. IsFiniteSet(ServedDocuments) /\ Cardinality(ServedDocuments) <= Cardinality(Documents)
  BY ServedAreKnown, QueriesAssumption, FS_Subset
<1>2. Cardinality(ServedDocuments) \in Nat /\ Cardinality(Documents) \in Nat
  BY <1>1, QueriesAssumption, FS_CardinalityType
<1>3. turn \in Nat /\ turn >= 1 /\ PageSize \in Nat /\ PageSize >= 1
  BY QueriesAssumption DEF QueriesIInv, QueriesTypeOK
<1>4. lo \in Nat /\ hi \in Nat /\ hi - lo = PageSize /\ lo < hi /\ turn <= hi
  BY <1>3
<1>5. PICK key \in [ServedDocuments -> Int] :
         /\ \A c, d \in ServedDocuments : key[c] = key[d] => c = d
         /\ \A d \in ServedDocuments : Rank(d) = RankBy(ServedDocuments, key, d)
  BY ListingHasKey
<1>6. Page = {d \in ServedDocuments : RankBy(ServedDocuments, key, d) > lo
                                       /\ RankBy(ServedDocuments, key, d) <= hi}
  BY <1>5 DEF Page
<1> HIDE DEF lo, hi
<1>7. /\ (\E d \in ServedDocuments : RankBy(ServedDocuments, key, d) > hi)
            => Cardinality(Page) = hi - lo
      /\ Cardinality(Page) = hi - lo => hi <= Cardinality(ServedDocuments)
  BY <1>1, <1>4, <1>5, <1>6, PagesAreFull
<1>8. (\E d \in ServedDocuments : Rank(d) > hi) => Cardinality(Page) = PageSize
  BY <1>4, <1>5, <1>7
<1>9. Cardinality(Page) = PageSize => turn <= Cardinality(Documents)
  BY <1>1, <1>2, <1>3, <1>4, <1>7
<1> QED
  BY <1>8, <1>9 DEF hi

\* Ranks are numbers from 1 on.
LEMMA RankType ==
  ASSUME QueriesIInv, NEW d \in ServedDocuments
  PROVE  Rank(d) \in Nat /\ Rank(d) >= 1
<1>1. PICK key \in [ServedDocuments -> Int] :
         /\ \A c, e \in ServedDocuments : key[c] = key[e] => c = e
         /\ \A e \in ServedDocuments : Rank(e) = RankBy(ServedDocuments, key, e)
  BY ListingHasKey
<1>2. IsFiniteSet(ServedDocuments)
  BY ServedAreKnown, QueriesAssumption, FS_Subset
<1> DEFINE rank == [e \in ServedDocuments |-> RankBy(ServedDocuments, key, e)]
<1>3. rank \in [ServedDocuments -> 1 .. Cardinality(ServedDocuments)]
  BY <1>1, <1>2, RanksAreNumbers DEF Bijection, Injection
<1>4. rank[d] = Rank(d)
  BY <1>1
<1> HIDE DEF rank
<1> QED
  BY <1>3, <1>4

\* The page numbers are numbers.
LEMMA TurnType ==
  ASSUME QueriesIInv
  PROVE  /\ turn \in Nat
         /\ turn * PageSize \in Nat /\ (turn - 1) * PageSize \in Int
         /\ Cardinality(Documents) \in Nat
<1>1. Cardinality(Documents) \in Nat
  BY QueriesAssumption, FS_CardinalityType
<1> QED
  BY <1>1, QueriesAssumption DEF QueriesIInv, QueriesTypeOK

\* What is said of the stored rows is kept by a step that leaves them alone.
LEMMA StoreUntouched ==
  ASSUME QueriesIInv, UNCHANGED storeVars
  PROVE  /\ UploadedHasDocument' /\ WithdrawnWithDocument' /\ SupersededIsReplaced'
         /\ TitleIsFromUpload' /\ UploadGaveTitle'
         /\ ServedDocuments' = ServedDocuments
         /\ \A v : Served(v)' = Served(v)
         /\ \A d : task' = task => Rank(d)' = Rank(d)
<1> USE DEF storeVars
<1>1. \A v : Served(v)' = Served(v)
  BY DEF Served, Present
<1>2. ServedDocuments' = ServedDocuments
  BY <1>1 DEF ServedDocuments
<1>3. \A d : task' = task => Rank(d)' = Rank(d)
  BY <1>2 DEF Rank, Precedes, ByTitle
<1>4. /\ UploadedHasDocument' /\ WithdrawnWithDocument' /\ SupersededIsReplaced'
      /\ TitleIsFromUpload' /\ UploadGaveTitle'
  BY DEF QueriesIInv, UploadedHasDocument, WithdrawnWithDocument, SupersededIsReplaced,
         TitleIsFromUpload, UploadGaveTitle
<1> QED
  BY <1>1, <1>2, <1>3, <1>4

-----------------------------------------------------------------------------
\* An upload puts no document on an earlier page, unless it gives it a title.
LEMMA UploadKeeps ==
  ASSUME QueriesIInv, PoolIInv', NEW v \in Versions, NEW d \in Documents, Upload(v, d)
  PROVE  QueriesIInv'
<1> USE DEF Upload, Backend!Submit, Happens
<1> USE QueriesAssumption
<1>1. QueriesTypeOK'
  BY DEF QueriesIInv, PoolIInv, QueriesTypeOK, Backend!Stages, Events
<1>2. UploadedHasDocument' /\ WithdrawnWithDocument' /\ SupersededIsReplaced'
  BY DEF QueriesIInv, QueriesTypeOK, UploadedHasDocument, WithdrawnWithDocument,
         SupersededIsReplaced
<1>3. TitleIsFromUpload' /\ UploadGaveTitle'
  BY DEF QueriesIInv, QueriesTypeOK, TitleIsFromUpload, UploadGaveTitle
<1>4. StatementIsDue'
  BY DEF QueriesIInv, StatementIsDue, poolVars
<1>5. ServedDocuments' = ServedDocuments
  BY DEF ServedDocuments, Served, Present
<1>6. PagingUnderWay'
  <2> SUFFICES ASSUME task \in {"list", "tools"}, turn > 1, "deleted" \notin events,
                      ~(task = "tools" /\ "retitled" \in events'),
                      NEW e \in missed
               PROVE  e \in ServedDocuments' /\ Rank(e)' > (turn - 1) * PageSize
    BY DEF PagingUnderWay
  <2>1. e \in ServedDocuments /\ Rank(e) > (turn - 1) * PageSize
    BY DEF QueriesIInv, PagingUnderWay
  <2>2. \A c \in ServedDocuments : task = "tools" => title'[c] = title[c]
    BY ServedAreKnown
  <2>3. Rank(e)' = Rank(e)
    BY <1>5, <2>1, <2>2 DEF Rank, Precedes, ByTitle
  <2> QED
    BY <1>5, <2>1, <2>3
<1>7. PagingSkipsNothing' /\ DetailIsWhole'
  BY DEF QueriesIInv, PagingSkipsNothing, DetailIsWhole
<1>8. DetailUnderWay'
  BY DEF QueriesIInv, DetailUnderWay
<1>9. ChunkUnderWay'
  BY DEF QueriesIInv, ChunkUnderWay
<1> QED
  BY <1>1, <1>2, <1>3, <1>4, <1>6, <1>7, <1>8, <1>9 DEF QueriesIInv

\* A publication puts documents only on later pages.
LEMMA PublishKeeps ==
  ASSUME QueriesIInv, PoolIInv', NEW v \in Versions, Settle(v), Backend!Publish(v)
  PROVE  QueriesIInv'
<1> USE DEF Settle, Backend!Publish, Happens
<1> USE QueriesAssumption
<1>1. QueriesTypeOK'
  BY DEF QueriesIInv, PoolIInv, QueriesTypeOK, Backend!Stages
<1>2. UploadedHasDocument' /\ WithdrawnWithDocument' /\ SupersededIsReplaced'
  BY DEF QueriesIInv, UploadedHasDocument, WithdrawnWithDocument, SupersededIsReplaced
<1>3. TitleIsFromUpload' /\ UploadGaveTitle'
  BY DEF QueriesIInv, QueriesTypeOK, TitleIsFromUpload, UploadGaveTitle
<1>4. StatementIsDue'
  BY DEF QueriesIInv, StatementIsDue, poolVars
<1>5. ServedDocuments \subseteq ServedDocuments'
  <2> SUFFICES ASSUME NEW u \in Versions, Served(u)
               PROVE  \E w \in Versions : Served(w)' /\ of'[w] = of[u]
    BY DEF ServedDocuments
  <2>1. CASE of[u] = of[v]
    BY DEF Served, Present
  <2>2. CASE of[u] # of[v]
    BY DEF Served, Present
  <2> QED
    BY <2>1, <2>2
<1>6. PagingUnderWay'
  <2> SUFFICES ASSUME task \in {"list", "tools"}, turn > 1, "deleted" \notin events,
                      ~(task = "tools" /\ "retitled" \in events),
                      NEW e \in missed
               PROVE  e \in ServedDocuments' /\ Rank(e)' > (turn - 1) * PageSize
    BY DEF PagingUnderWay
  <2>1. e \in ServedDocuments /\ Rank(e) > (turn - 1) * PageSize
    BY DEF QueriesIInv, PagingUnderWay
  <2> DEFINE before == {c \in ServedDocuments : Precedes(c, e)}
             after == {c \in ServedDocuments' : Precedes(c, e)}
  <2>2. Rank(e) = Cardinality(before) /\ Rank(e)' = Cardinality(after)
    BY DEF Rank, Precedes, ByTitle
  <2>3. ServedDocuments' \subseteq Documents
    BY <1>2 DEF ServedDocuments, Served, UploadedHasDocument
  <2>4. IsFiniteSet(after) /\ before \subseteq after
    BY <1>5, <2>3, FS_Subset
  <2>5. Rank(e) <= Rank(e)' /\ Rank(e) \in Nat /\ Rank(e)' \in Nat
    BY <2>2, <2>4, FS_Subset, FS_CardinalityType
  <2> QED
    BY <1>5, <2>1, <2>5, TurnType
<1>7. PagingSkipsNothing' /\ DetailIsWhole'
  BY DEF QueriesIInv, PagingSkipsNothing, DetailIsWhole
<1>8. DetailUnderWay'
  BY DEF QueriesIInv, QueriesTypeOK, DetailUnderWay
<1>9. ChunkUnderWay'
  BY DEF QueriesIInv, ChunkUnderWay
<1> QED
  BY <1>1, <1>2, <1>3, <1>4, <1>6, <1>7, <1>8, <1>9 DEF QueriesIInv

\* A version that is rejected is not served, and was not before.
LEMMA RejectKeeps ==
  ASSUME QueriesIInv, PoolIInv', NEW v \in Versions, Settle(v), Backend!Reject(v)
  PROVE  QueriesIInv'
<1> USE DEF Settle, Backend!Reject, Happens
<1> USE QueriesAssumption
<1>1. QueriesTypeOK'
  BY DEF QueriesIInv, PoolIInv, QueriesTypeOK, Backend!Stages
<1>2. UploadedHasDocument' /\ WithdrawnWithDocument' /\ SupersededIsReplaced'
  BY DEF QueriesIInv, QueriesTypeOK, UploadedHasDocument, WithdrawnWithDocument,
         SupersededIsReplaced
<1>3. TitleIsFromUpload' /\ UploadGaveTitle'
  BY DEF QueriesIInv, QueriesTypeOK, TitleIsFromUpload, UploadGaveTitle
<1>4. StatementIsDue'
  BY DEF QueriesIInv, StatementIsDue, poolVars
<1>5. ServedDocuments' = ServedDocuments
  BY DEF QueriesIInv, QueriesTypeOK, ServedDocuments, Served
<1>6. PagingUnderWay'
  BY <1>5 DEF QueriesIInv, PagingUnderWay, Rank, Precedes, ByTitle
<1>7. PagingSkipsNothing' /\ DetailIsWhole'
  BY DEF QueriesIInv, PagingSkipsNothing, DetailIsWhole
<1>8. DetailUnderWay' /\ ChunkUnderWay'
  BY DEF QueriesIInv, QueriesTypeOK, DetailUnderWay, ChunkUnderWay
<1> QED
  BY <1>1, <1>2, <1>3, <1>4, <1>6, <1>7, <1>8 DEF QueriesIInv

\* A delete is among the events of every task that has begun.
LEMMA DeleteKeeps ==
  ASSUME QueriesIInv, PoolIInv', NEW d \in Documents, Delete(d)
  PROVE  QueriesIInv'
<1> USE DEF Delete, Backend!Withdraw, Happens
<1>1. QueriesTypeOK'
  BY DEF QueriesIInv, PoolIInv, QueriesTypeOK, Backend!Stages, Events
<1>2. UploadedHasDocument' /\ WithdrawnWithDocument' /\ SupersededIsReplaced'
  BY QueriesAssumption
     DEF QueriesIInv, QueriesTypeOK, UploadedHasDocument, WithdrawnWithDocument,
         SupersededIsReplaced
<1>3. \A v \in Versions : stage'[v] = "absent" <=> stage[v] = "absent"
  BY QueriesAssumption DEF QueriesIInv, QueriesTypeOK, UploadedHasDocument
<1>4. TitleIsFromUpload' /\ UploadGaveTitle'
  BY <1>3 DEF QueriesIInv, QueriesTypeOK, TitleIsFromUpload, UploadGaveTitle
<1>5. StatementIsDue'
  BY DEF QueriesIInv, StatementIsDue, poolVars
<1>6. PagingUnderWay'
  BY DEF PagingUnderWay
<1>7. PagingSkipsNothing' /\ DetailIsWhole'
  BY DEF QueriesIInv, PagingSkipsNothing, DetailIsWhole
<1>8. DetailUnderWay'
  BY <1>3 DEF QueriesIInv, QueriesTypeOK, DetailUnderWay, Detail
<1>9. ChunkUnderWay'
  BY DEF QueriesIInv, QueriesTypeOK, ChunkUnderWay
<1> QED
  BY <1>1, <1>2, <1>4, <1>5, <1>6, <1>7, <1>8, <1>9 DEF QueriesIInv

-----------------------------------------------------------------------------
\* Everyone else leaves the stored rows alone.  A step that leaves the reader's
\* task alone, too, and keeps it in its place.
LEMMA OthersKeep ==
  ASSUME QueriesIInv, PoolIInv', UNCHANGED <<storeVars, taskVars>>,
         place'[Reader] # "idle" => place[Reader] # "idle" \/ turn > 0
  PROVE  QueriesIInv'
<1> USE DEF taskVars
<1>1. /\ UploadedHasDocument' /\ WithdrawnWithDocument' /\ SupersededIsReplaced'
      /\ TitleIsFromUpload' /\ UploadGaveTitle'
  BY StoreUntouched
<1>2. QueriesTypeOK'
  BY DEF QueriesIInv, PoolIInv, QueriesTypeOK, storeVars
<1>3. StatementIsDue'
  BY DEF QueriesIInv, StatementIsDue
<1>4. PagingUnderWay'
  BY StoreUntouched DEF QueriesIInv, PagingUnderWay
<1>5. PagingSkipsNothing' /\ DetailIsWhole'
  BY DEF QueriesIInv, PagingSkipsNothing, DetailIsWhole
<1>6. DetailUnderWay' /\ ChunkUnderWay'
  BY DEF QueriesIInv, DetailUnderWay, ChunkUnderWay, storeVars
<1> QED
  BY <1>1, <1>2, <1>3, <1>4, <1>5, <1>6 DEF QueriesIInv

\* A new task.
LEMMA BeginKeeps ==
  ASSUME QueriesIInv, PoolIInv', NEW t \in {"list", "tools", "chunk", "detail"},
         NEW s, t # "detail" => s = Nothing, t = "detail" => s \in Documents, Begin(t, s)
  PROVE  QueriesIInv'
<1> USE DEF Begin
<1>1. /\ UploadedHasDocument' /\ WithdrawnWithDocument' /\ SupersededIsReplaced'
      /\ TitleIsFromUpload' /\ UploadGaveTitle'
  BY StoreUntouched
<1>2. QueriesTypeOK'
  BY TurnType DEF QueriesIInv, PoolIInv, QueriesTypeOK, Tasks, storeVars
<1>3. StatementIsDue'
  BY DEF StatementIsDue
<1>4. PagingUnderWay' /\ PagingSkipsNothing' /\ DetailIsWhole'
  BY DEF PagingUnderWay, PagingSkipsNothing, DetailIsWhole
<1>5. DetailUnderWay' /\ ChunkUnderWay'
  BY DEF DetailUnderWay, ChunkUnderWay, Detail
<1> QED
  BY <1>1, <1>2, <1>3, <1>4, <1>5 DEF QueriesIInv

\* A task given up.
LEMMA ReaderRaisesKeeps ==
  ASSUME QueriesIInv, PoolIInv', ReaderRaises
  PROVE  QueriesIInv'
<1> USE DEF ReaderRaises, GivesUp
<1>1. /\ UploadedHasDocument' /\ WithdrawnWithDocument' /\ SupersededIsReplaced'
      /\ TitleIsFromUpload' /\ UploadGaveTitle'
  BY StoreUntouched
<1>2. QueriesTypeOK'
  BY TurnType DEF QueriesIInv, PoolIInv, QueriesTypeOK, Tasks, storeVars
<1>3. StatementIsDue'
  BY QueriesAssumption DEF PoolIInv, PoolTypeOK, StatementIsDue, PoolFails, Exit
<1>4. PagingUnderWay' /\ PagingSkipsNothing' /\ DetailIsWhole'
  BY DEF PagingUnderWay, PagingSkipsNothing, DetailIsWhole
<1>5. DetailUnderWay' /\ ChunkUnderWay'
  BY DEF DetailUnderWay, ChunkUnderWay
<1> QED
  BY <1>1, <1>2, <1>3, <1>4, <1>5 DEF QueriesIInv

-----------------------------------------------------------------------------
\* A page: what is not on it comes behind it, as long as it is a full one.
LEMMA FetchPageKeeps ==
  ASSUME QueriesIInv, PoolIInv', turn > 0, FetchPage, UNCHANGED storeVars
  PROVE  QueriesIInv'
<1> USE DEF FetchPage
<1>1. /\ UploadedHasDocument' /\ WithdrawnWithDocument' /\ SupersededIsReplaced'
      /\ TitleIsFromUpload' /\ UploadGaveTitle'
  BY StoreUntouched
<1>2. QueriesTypeOK'
  <2>1. turn' \in 0 .. Cardinality(Documents) + 1
    BY TurnType, PageIsFull
  <2>2. missed' \subseteq Documents
    BY ServedAreKnown DEF QueriesIInv, QueriesTypeOK
  <2> QED
    BY <2>1, <2>2 DEF QueriesIInv, PoolIInv, QueriesTypeOK, storeVars
<1>3. StatementIsDue'
  BY DEF PoolIInv, PoolTypeOK, StatementIsDue, Answer, Exit
<1>4. ASSUME "deleted" \notin events, ~(task = "tools" /\ "retitled" \in events),
             NEW d \in missed'
      PROVE  d \in ServedDocuments /\ Rank(d) > turn * PageSize
  <2>1. d \in ServedDocuments /\ Rank(d) > (turn - 1) * PageSize
    <3>1. CASE turn = 1
      <4>1. (turn - 1) * PageSize = 0
        BY <3>1, QueriesAssumption
      <4> QED
        BY <3>1, <4>1, RankType
    <3>2. CASE turn > 1
      BY <1>4, <3>2 DEF QueriesIInv, PagingUnderWay
    <3> QED
      BY <3>1, <3>2, TurnType
  <2> QED
    BY <2>1, RankType, TurnType DEF Page
<1>5. PagingUnderWay'
  <2> SUFFICES ASSUME turn' > 1, "deleted" \notin events,
                      ~(task = "tools" /\ "retitled" \in events), NEW d \in missed'
               PROVE  d \in ServedDocuments' /\ Rank(d)' > (turn' - 1) * PageSize
    BY DEF PagingUnderWay
  <2>1. turn' - 1 = turn
    BY TurnType
  <2> QED
    BY <1>4, <2>1, StoreUntouched
<1>6. PagingSkipsNothing'
  <2> SUFFICES ASSUME turn' = 0, "deleted" \notin events,
                      ~(task = "tools" /\ "retitled" \in events), NEW d \in missed'
               PROVE  FALSE
    BY DEF PagingSkipsNothing
  <2>1. d \in ServedDocuments /\ Rank(d) > turn * PageSize
    BY <1>4
  <2>2. Cardinality(Page) = PageSize
    BY <2>1, PageIsFull
  <2> QED
    BY <2>2, TurnType
<1>7. DetailIsWhole' /\ DetailUnderWay' /\ ChunkUnderWay'
  BY DEF DetailIsWhole, DetailUnderWay, ChunkUnderWay
<1> QED
  BY <1>1, <1>2, <1>3, <1>5, <1>6, <1>7 DEF QueriesIInv

\* The first statement of a detail.
LEMMA FetchDocumentKeeps ==
  ASSUME QueriesIInv, PoolIInv', turn > 0, FetchDocument, UNCHANGED storeVars
  PROVE  QueriesIInv'
<1> USE DEF FetchDocument
<1>1. /\ UploadedHasDocument' /\ WithdrawnWithDocument' /\ SupersededIsReplaced'
      /\ TitleIsFromUpload' /\ UploadGaveTitle'
  BY StoreUntouched
<1>2. subject \in Documents /\ turn = 1
  BY DEF QueriesIInv, DetailUnderWay, Detail
<1>3. Cardinality(Documents) # 0
  BY <1>2, QueriesAssumption, FS_EmptySet
<1>4. QueriesTypeOK'
  <2>1. turn' \in 0 .. Cardinality(Documents) + 1
    BY <1>2, <1>3, TurnType DEF NextTurn
  <2>2. shown' \in Versions \cup {Nothing}
    BY <1>2 DEF QueriesIInv, QueriesTypeOK
  <2> QED
    BY <2>1, <2>2 DEF QueriesIInv, PoolIInv, QueriesTypeOK, storeVars
<1>5. StatementIsDue'
  <2>1. CASE turn' = 0
    BY <2>1, QueriesAssumption DEF PoolIInv, PoolTypeOK, StatementIsDue, Answer, Exit
  <2>2. CASE turn' # 0
    <3>1. turn' = 2
      BY <1>2, <2>2 DEF NextTurn
    <3> QED
      BY <3>1 DEF StatementIsDue
  <2> QED
    BY <2>1, <2>2
<1>6. PagingUnderWay' /\ PagingSkipsNothing' /\ ChunkUnderWay'
  BY DEF PagingUnderWay, PagingSkipsNothing, ChunkUnderWay
<1>7. DetailUnderWay' /\ DetailIsWhole'
  BY DEF QueriesIInv, DetailUnderWay, DetailIsWhole, TitleIsFromUpload, NextTurn,
         Detail, storeVars
<1> QED
  BY <1>1, <1>4, <1>5, <1>6, <1>7 DEF QueriesIInv

\* The second one.
LEMMA FetchVersionsKeeps ==
  ASSUME QueriesIInv, PoolIInv', turn > 0, FetchVersions, UNCHANGED storeVars
  PROVE  QueriesIInv'
<1> USE DEF FetchVersions
<1>1. /\ UploadedHasDocument' /\ WithdrawnWithDocument' /\ SupersededIsReplaced'
      /\ TitleIsFromUpload' /\ UploadGaveTitle'
  BY StoreUntouched
<1>2. turn = 2 /\ turn' = 0
  BY DEF QueriesIInv, DetailUnderWay, NextTurn, Detail
<1>3. QueriesTypeOK'
  BY <1>2, TurnType DEF QueriesIInv, PoolIInv, QueriesTypeOK, storeVars
<1>4. StatementIsDue'
  BY <1>2, QueriesAssumption DEF PoolIInv, PoolTypeOK, StatementIsDue, Answer, Exit
<1>5. PagingUnderWay' /\ PagingSkipsNothing' /\ ChunkUnderWay'
  BY DEF PagingUnderWay, PagingSkipsNothing, ChunkUnderWay
<1>6. DetailUnderWay'
  BY <1>2 DEF QueriesIInv, DetailUnderWay
<1>7. DetailIsWhole'
  BY DEF QueriesIInv, QueriesTypeOK, WithdrawnWithDocument, DetailUnderWay, DetailIsWhole,
         Present, Detail
<1> QED
  BY <1>1, <1>3, <1>4, <1>5, <1>6, <1>7 DEF QueriesIInv

\* A search.
LEMMA FetchResultsKeeps ==
  ASSUME QueriesIInv, PoolIInv', turn > 0, FetchResults, UNCHANGED storeVars
  PROVE  QueriesIInv'
<1> USE DEF FetchResults, Search
<1>1. /\ UploadedHasDocument' /\ WithdrawnWithDocument' /\ SupersededIsReplaced'
      /\ TitleIsFromUpload' /\ UploadGaveTitle'
  BY StoreUntouched
<1>2. \/ turn' = 0 /\ subject' = subject
      \/ turn' = 2 /\ subject' \in {v \in Versions : Served(v)}
  BY QueriesAssumption DEF Searchable, Embeddable
<1>3. QueriesTypeOK'
  <2>1. CASE turn' = 0 /\ subject' = subject
    BY <2>1, TurnType DEF QueriesIInv, PoolIInv, QueriesTypeOK, storeVars
  <2>2. CASE turn' = 2 /\ subject' \in {v \in Versions : Served(v)}
    <3>1. Documents # {}
      BY <2>2, ServedAreKnown DEF ServedDocuments
    <3>2. Cardinality(Documents) # 0
      BY <3>1, QueriesAssumption, FS_EmptySet
    <3> QED
      BY <2>2, <3>2, TurnType DEF QueriesIInv, PoolIInv, QueriesTypeOK, storeVars
  <2> QED
    BY <1>2, <2>1, <2>2
<1>4. StatementIsDue'
  BY DEF PoolIInv, PoolTypeOK, StatementIsDue, Answer, Exit
<1>5. PagingUnderWay' /\ PagingSkipsNothing' /\ DetailUnderWay' /\ DetailIsWhole'
  BY DEF PagingUnderWay, PagingSkipsNothing, DetailUnderWay, DetailIsWhole
<1>6. ChunkUnderWay'
  BY <1>2, QueriesAssumption DEF QueriesIInv, ChunkUnderWay, Served, storeVars
<1> QED
  BY <1>1, <1>3, <1>4, <1>5, <1>6 DEF QueriesIInv

\* And get_chunk.
LEMMA FetchChunkKeeps ==
  ASSUME QueriesIInv, PoolIInv', turn > 0, FetchChunk, UNCHANGED storeVars
  PROVE  QueriesIInv'
<1> USE DEF FetchChunk
<1>1. /\ UploadedHasDocument' /\ WithdrawnWithDocument' /\ SupersededIsReplaced'
      /\ TitleIsFromUpload' /\ UploadGaveTitle'
  BY StoreUntouched
<1>2. QueriesTypeOK'
  BY TurnType DEF QueriesIInv, PoolIInv, QueriesTypeOK, storeVars, ChunkUnderWay
<1>3. StatementIsDue'
  BY DEF PoolIInv, PoolTypeOK, StatementIsDue, Answer, Exit
<1>4. PagingUnderWay' /\ PagingSkipsNothing' /\ DetailUnderWay' /\ DetailIsWhole'
  BY DEF PagingUnderWay, PagingSkipsNothing, DetailUnderWay, DetailIsWhole
<1>5. ChunkUnderWay'
  BY DEF QueriesIInv, ChunkUnderWay, storeVars
<1> QED
  BY <1>1, <1>2, <1>3, <1>4, <1>5 DEF QueriesIInv

-----------------------------------------------------------------------------
\* QueriesIInv is an inductive invariant of readers and writers.
THEOREM QueriesInvariance == QueriesSpec => []QueriesIInv
<1>1. QueriesInit => QueriesIInv
  <2> SUFFICES ASSUME QueriesInit PROVE QueriesIInv
    OBVIOUS
  <2> USE DEF QueriesInit, PoolInit, Backend!Init
  <2>1. Connecting = {} /\ \A p : Connections(p) = {}
    BY DEF Connecting, Connections
  <2>2. Cardinality(Requests) \in Nat /\ Cardinality(Documents) \in Nat
    BY RequestsAssumption, QueriesAssumption, FS_CardinalityType
  <2>3. PoolTypeOK
    BY PoolMaxAssumption DEF PoolTypeOK, Places
  <2>4. PoolIInv
    <3>1. PoolsToCome
      BY <2>1, <2>2, FS_EmptySet DEF PoolsToCome
    <3>2. LastPoolIsKept /\ UsesOpenPool
      BY DEF LastPoolIsKept, UsesOpenPool
    <3>3. ConnectionsCounted
      BY <2>1, FS_EmptySet DEF ConnectionsCounted
    <3> QED
      BY <2>3, <3>1, <3>2, <3>3 DEF PoolIInv
  <2>5. QueriesTypeOK
    BY <2>2, <2>3 DEF QueriesTypeOK, Backend!Stages, Tasks
  <2>6. /\ UploadedHasDocument /\ WithdrawnWithDocument /\ SupersededIsReplaced
        /\ TitleIsFromUpload /\ UploadGaveTitle
    BY DEF UploadedHasDocument, WithdrawnWithDocument, SupersededIsReplaced,
           TitleIsFromUpload, UploadGaveTitle
  <2>7. StatementIsDue /\ PagingUnderWay /\ PagingSkipsNothing
    BY QueriesAssumption DEF StatementIsDue, PagingUnderWay, PagingSkipsNothing
  <2>8. DetailUnderWay /\ DetailIsWhole /\ ChunkUnderWay
    BY DEF DetailUnderWay, DetailIsWhole, ChunkUnderWay
  <2> QED
    BY <2>4, <2>5, <2>6, <2>7, <2>8 DEF QueriesIInv
<1>2. QueriesIInv /\ [QueriesNext]_queriesVars => QueriesIInv'
  <2> SUFFICES ASSUME QueriesIInv, [QueriesNext]_queriesVars PROVE QueriesIInv'
    OBVIOUS
  <2>1. PoolIInv'
    BY PoolKept DEF QueriesIInv
  <2>2. CASE UNCHANGED queriesVars
    BY <2>1, <2>2, OthersKeep DEF queriesVars, poolVars
  <2>3. CASE Read
    <3>1. CASE AskAgain
      BY <2>1, <3>1, OthersKeep, TurnType DEF AskAgain
    <3> QED
      BY <2>1, <2>3, <3>1, BeginKeeps DEF Read
  <2>4. CASE Write
    BY <2>1, <2>4, UploadKeeps, PublishKeeps, RejectKeeps, DeleteKeeps
       DEF Write, Settle, Backend!Settle
  <2>5. ASSUME NEW r \in Requests, Acquires(r) PROVE QueriesIInv'
    BY <2>1, <2>5, OthersKeep DEF Acquires, Acquire
  <2>6. ASSUME NEW r \in Requests, Returns(r) PROVE QueriesIInv'
    <3>1. CASE Opens(r)
      BY <2>1, <3>1, OthersKeep DEF Opens, PoolOpens
    <3>2. CASE ProbeEnds(r)
      BY <2>1, <3>2, OthersKeep, QueriesAssumption
         DEF ProbeEnds, PoolFails, Exit, PoolIInv, PoolTypeOK
    <3>3. CASE r = Reader /\ Statement
      <4>1. turn > 0
        BY <3>3 DEF Statement, QueriesIInv, StatementIsDue
      <4> QED
        BY <2>1, <3>3, <4>1, FetchPageKeeps, FetchDocumentKeeps, FetchVersionsKeeps,
           FetchResultsKeeps, FetchChunkKeeps DEF Statement
    <3>4. CASE r = Reader /\ ReaderRaises
      BY <2>1, <3>4, ReaderRaisesKeeps
    <3> QED
      BY <2>6, <3>1, <3>2, <3>3, <3>4 DEF Returns
  <2>7. ASSUME NEW r \in Probes, Probe(r) PROVE QueriesIInv'
    BY <2>1, <2>7, OthersKeep DEF Probes, Probe, Enter
  <2> QED
    BY <2>2, <2>3, <2>4, <2>5, <2>6, <2>7 DEF QueriesNext
<1> QED
  BY <1>1, <1>2, PTL DEF QueriesSpec

\* Type correctness of readers, writers and the pool.
THEOREM QueriesTypeCorrect == QueriesSpec => []QueriesTypeOK
BY QueriesInvariance, PTL DEF QueriesIInv

\* Each connection goes back, once, to the pool it came from.
THEOREM ConnectionsComeBack == QueriesSpec => []ConnectionsCounted
BY QueriesInvariance, PTL DEF QueriesIInv, PoolIInv

\* A client that pages to the end was shown what was served all the time.
THEOREM PagesSkipNothing == QueriesSpec => []PagingSkipsNothing
BY QueriesInvariance, PTL DEF QueriesIInv

\* The two statements of a detail fit together, or the document was deleted.
THEOREM DetailsAreWhole == QueriesSpec => []DetailIsWhole
BY QueriesInvariance, PTL DEF QueriesIInv

\* A chunk that was found is there, replaced, or deleted with its document.
THEOREM ChunksAreTraceable == QueriesSpec => []ChunkIsTraceable
<1>1. QueriesIInv => ChunkIsTraceable
  BY DEF QueriesIInv, ChunkUnderWay, ChunkIsTraceable, WithdrawnWithDocument,
         SupersededIsReplaced,
         ServedDocuments, Served, Present
<1> QED
  BY <1>1, QueriesInvariance, PTL

\* A search that ends without a result had nothing to find, or was crowded out by
\* EfSearch embeddings that are not served or not similar enough.
THEOREM SearchesFindServed == QueriesSpec => SearchFindsServed
<1>1. [QueriesNext]_queriesVars =>
        [(turn = 1 /\ turn' = 0) =>
            \A near \in SUBSET Embeddable :
                (Matching(near) # {} /\ Cardinality(Crowd(near)) < EfSearch)
                   => ~Search(near)]_queriesVars
  <2> SUFFICES ASSUME turn' = 0, NEW near \in SUBSET Embeddable, Search(near),
                      NEW c \in Matching(near)
               PROVE  ~(Cardinality(Crowd(near)) < EfSearch)
    OBVIOUS
  <2>1. PICK rows \in Embeddings : \E list \in Candidates(rows) : list \cap Searchable(near) = {}
    BY DEF Search
  <2>2. PICK list \in Candidates(rows) : list \cap Searchable(near) = {}
    BY <2>1
  <2>3. c \in rows /\ c \notin list
    BY <2>2 DEF Matching, Searchable, Embeddings, Embedded, Embeddable, Served
  <2>4. list \subseteq rows /\ Cardinality(list) = EfSearch
    BY <2>3 DEF Candidates, kSubset
  <2>5. list \subseteq Crowd(near)
    BY <2>2, <2>4 DEF Embeddings, Crowd, Matching, Searchable
  <2>6. IsFiniteSet(Crowd(near))
    BY QueriesAssumption, FS_Subset DEF Crowd, Embeddable
  <2>7. EfSearch <= Cardinality(Crowd(near)) /\ Cardinality(Crowd(near)) \in Nat
    BY <2>4, <2>5, <2>6, FS_Subset, FS_CardinalityType
  <2> QED
    BY <2>7, QueriesAssumption
<1> QED
  BY <1>1, PTL DEF QueriesSpec, SearchFindsServed
=============================================================================
