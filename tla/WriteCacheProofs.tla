-------------------------- MODULE WriteCacheProofs --------------------------
(***************************************************************************)
(* Proofs about WriteCache for every buffer size, pool, limit and workload *)
(***************************************************************************)
EXTENDS WriteCache, WellFoundedInduction, SequenceTheorems, FiniteSetTheorems, TLAPS

\* A non-empty set of naturals has a least element, which Min selects.
LEMMA MinOfNats ==
    ASSUME NEW S \in SUBSET Nat, S # {}
    PROVE  Min(S) \in S /\ \A y \in S : Min(S) <= y
<1>1. PICK x \in S : \A y \in S : ~(<<y, x>> \in OpToRel(<, Nat))
  BY NatLessThanWellFounded, WFMin, Zenon
<1>2. \A y \in S : ~(y < x)
  BY <1>1, Zenon DEF OpToRel
<1>3. \A y \in S : x <= y
  BY <1>2
<1>. QED
  BY <1>3 DEF Min

\* A non-empty bounded set of naturals has a greatest element.
LEMMA MaxOfBounded ==
    ASSUME NEW N \in Nat, NEW S \in SUBSET (0 .. N), S # {}
    PROVE  Max(S) \in S /\ \A y \in S : y <= Max(S)
<1>. DEFINE T == {N - x : x \in S}
<1>1. \A x \in S : N - x \in Nat /\ N - x \in T
  OBVIOUS
<1>2. T \in SUBSET Nat /\ T # {}
  BY <1>1
<1>3. PICK t \in T : \A y \in T : t <= y
  BY <1>2, MinOfNats, Zenon
<1>4. PICK m \in S : t = N - m
  BY <1>3
<1>5. ASSUME NEW y \in S PROVE y <= m
  <2>1. t <= N - y
    BY <1>1, <1>3, Zenon
  <2>. QED
    BY <2>1, <1>4
<1>. QED
  BY <1>5 DEF Max

\* A write of at least one byte needs at least one buffer.
LEMMA BufsNeededPositive ==
    ASSUME NEW n \in Nat, n > 0
    PROVE  BufsNeeded(n) \in Int /\ BufsNeeded(n) >= 1
BY WriteCacheAssumption, Z3 DEF BufsNeeded

\* The sequence u is s with the elements a .. z replaced by e.
Replaced(u, s, a, z, e) ==
    /\ Len(u) = Len(s) - z + a
    /\ \A k \in 1 .. Len(u) :
         u[k] = IF k < a THEN s[k] ELSE IF k = a THEN e ELSE s[k + z - a]

\* Elements a .. z of a sequence are replaced by e.
LEMMA ReplaceFacts ==
    ASSUME NEW S, NEW s \in Seq(S), NEW a \in 1 .. Len(s) + 1,
           NEW z \in a - 1 .. Len(s), NEW e \in S
    PROVE  LET u == SubSeq(s, 1, a - 1) \o <<e>> \o SubSeq(s, z + 1, Len(s))
           IN  u \in Seq(S) /\ Replaced(u, s, a, z, e)
<1>. DEFINE x == SubSeq(s, 1, a - 1)
            y == <<e>>
            w == SubSeq(s, z + 1, Len(s))
<1>0. Len(s) \in Nat /\ a \in Nat /\ z \in Nat /\ a >= 1 /\ a - 1 <= z /\ z <= Len(s)
  OBVIOUS
<1>1. /\ x \in Seq(S) /\ Len(x) = a - 1
      /\ \A k \in 1 .. a - 1 : x[k] = s[k]
  BY <1>0, SubSeqProperties
<1>2. /\ w \in Seq(S) /\ Len(w) = Len(s) - z
      /\ \A k \in 1 .. Len(s) - z : w[k] = s[z + k]
  BY <1>0, SubSeqProperties
<1>3. y \in Seq(S) /\ Len(y) = 1 /\ y[1] = e
  OBVIOUS
<1>. HIDE DEF x, y, w
<1>. DEFINE d == x \o y
            t == d \o w
<1>4. /\ d \in Seq(S) /\ Len(d) = Len(x) + Len(y)
      /\ \A k \in 1 .. Len(x) + Len(y) :
           d[k] = IF k <= Len(x) THEN x[k] ELSE y[k - Len(x)]
  BY <1>1, <1>3, ConcatProperties, Zenon
<1>. HIDE DEF d
<1>5. d \in Seq(S) /\ w \in Seq(S)
  BY <1>4, <1>2, Zenon
<1>6. /\ t \in Seq(S) /\ Len(t) = Len(d) + Len(w)
      /\ \A k \in 1 .. Len(d) + Len(w) :
           t[k] = IF k <= Len(d) THEN d[k] ELSE w[k - Len(d)]
  BY <1>5, ConcatProperties, Zenon
<1>. HIDE DEF t
<1>7. Len(t) = Len(s) - z + a
  BY <1>0, <1>1, <1>2, <1>3, <1>4, <1>6
<1>8. ASSUME NEW k \in 1 .. Len(t)
      PROVE  t[k] = IF k < a THEN s[k] ELSE IF k = a THEN e ELSE s[k + z - a]
  <2>1. CASE k < a
    <3>1. k \in 1 .. a - 1 /\ k \in 1 .. Len(d) /\ k \in 1 .. Len(d) + Len(w)
      BY <2>1, <1>0, <1>1, <1>2, <1>3, <1>4, <1>6, <1>7
    <3>2. t[k] = d[k] /\ d[k] = x[k] /\ x[k] = s[k]
      BY <3>1, <1>0, <1>1, <1>3, <1>4, <1>6
    <3>. QED
      BY <3>2, <2>1
  <2>2. CASE k = a
    <3>1. k = Len(d) /\ k - Len(x) = 1 /\ k \in 1 .. Len(d) + Len(w)
      BY <2>2, <1>0, <1>1, <1>2, <1>3, <1>4, <1>6, <1>7
    <3>2. t[k] = d[k] /\ d[k] = y[1]
      BY <3>1, <1>0, <1>1, <1>3, <1>4, <1>6
    <3>. QED
      BY <3>2, <2>2, <1>3
  <2>3. CASE k > a
    <3>1. /\ k - a \in 1 .. Len(s) - z /\ z + (k - a) = k + z - a /\ Len(d) = a
          /\ k \in 1 .. Len(d) + Len(w) /\ ~(k <= Len(d))
      BY <2>3, <1>0, <1>1, <1>2, <1>3, <1>4, <1>6, <1>7
    <3>2. t[k] = w[k - a]
      BY <3>1, <1>6
    <3>3. w[k - a] = s[k + z - a]
      BY <3>1, <1>2
    <3>. QED
      BY <3>2, <3>3, <2>3, <1>0
  <2>. QED
    BY <2>1, <2>2, <2>3, <1>0
<1>9. t = SubSeq(s, 1, a - 1) \o <<e>> \o SubSeq(s, z + 1, Len(s))
  BY DEF t, d, x, y, w
<1>. QED
  BY <1>6, <1>7, <1>8, <1>9, Zenon DEF Replaced

LEMMA InsertAtFacts ==
    ASSUME NEW S, NEW s \in Seq(S), NEW i \in 1 .. Len(s) + 1, NEW e \in S
    PROVE  /\ InsertAt(s, i, e) \in Seq(S)
           /\ Len(InsertAt(s, i, e)) = Len(s) + 1
           /\ \A k \in 1 .. Len(s) + 1 :
                InsertAt(s, i, e)[k] = IF k < i THEN s[k]
                                       ELSE IF k = i THEN e ELSE s[k - 1]
<1>1. PICK z : z = i - 1
  OBVIOUS
<1>2. /\ i \in Nat /\ z \in i - 1 .. Len(s) /\ z + 1 = i /\ Len(s) \in Nat
      /\ Len(s) - z + i = Len(s) + 1 /\ \A k \in Nat : k + z - i = k - 1
  BY <1>1
<1>3. PICK u : u = InsertAt(s, i, e)
  OBVIOUS
<1>4. u \in Seq(S) /\ Replaced(u, s, i, z, e)
  BY <1>2, <1>3, ReplaceFacts, Zenon DEF InsertAt
<1>5. Len(u) = Len(s) + 1
  BY <1>2, <1>4 DEF Replaced
<1>6. \A k \in 1 .. Len(s) + 1 :
        u[k] = IF k < i THEN s[k] ELSE IF k = i THEN e ELSE s[k - 1]
  BY <1>2, <1>4, <1>5 DEF Replaced
<1>. QED
  BY <1>3, <1>4, <1>5, <1>6, Zenon

-----------------------------------------------------------------------------
\* An aligned buffer holds the position it was made for.
LEMMA AlignFacts ==
    ASSUME NEW pos \in Nat
    PROVE  /\ WBufAlignFileOffs(pos) \in Nat
           /\ NewWBuf(pos) \in Buffer
           /\ NewWBuf(pos).offs <= pos
           /\ Holds(NewWBuf(pos), pos)
<1>1. pos % MBUFSIZE \in 0 .. MBUFSIZE - 1 /\ pos % MBUFSIZE <= pos
  BY WriteCacheAssumption, Z3
<1>2. /\ WBufAlignFileOffs(pos) \in Nat
      /\ WBufAlignFileOffs(pos) <= pos
      /\ pos < WBufAlignFileOffs(pos) + MBUFSIZE
  BY <1>1, WriteCacheAssumption DEF WBufAlignFileOffs
<1>. QED
  BY <1>2 DEF NewWBuf, Buffer, Holds

LEMMA EndOfNat ==
    ASSUME NEW S \in SUBSET Offsets
    PROVE  EndOf(S) \in Nat
<1>1. CASE S = {}
  BY <1>1 DEF EndOf
<1>2. CASE S # {}
  <2>1. MaxFile \in Nat /\ S \in SUBSET (0 .. MaxFile)
    BY WriteCacheAssumption DEF Offsets
  <2>2. Max(S) \in S
    BY <2>1, <1>2, MaxOfBounded
  <2>3. Max(S) \in 0 .. MaxFile
    BY <2>1, <2>2, Zenon
  <2>4. EndOf(S) = Max(S) + 1
    BY <1>2 DEF EndOf
  <2>. HIDE DEF Max
  <2>. QED
    BY <2>1, <2>3, <2>4
<1>. QED
  BY <1>1, <1>2

\* What a flush may have sent of each buffer.
Sent == [DOMAIN chain -> SUBSET Offsets]

LEMMA ChainTypes ==
    ASSUME TypeOK
    PROVE  /\ Len(chain) \in Nat /\ DOMAIN chain = 1 .. Len(chain)
           /\ \A i \in DOMAIN chain :
                 /\ chain[i] \in Buffer /\ chain[i].offs \in Nat
                 /\ chain[i].dirty \subseteq Offsets
                 /\ chain[i].old \subseteq Offsets
<1>1. chain \in Seq(Buffer)
  BY DEF TypeOK
<1>2. Len(chain) \in Nat /\ DOMAIN chain = 1 .. Len(chain)
  BY <1>1
<1>3. \A i \in DOMAIN chain : chain[i] \in Buffer
  BY <1>1
<1>. QED
  BY <1>2, <1>3 DEF Buffer

LEMMA SentTypes ==
    ASSUME TypeOK
    PROVE  AllSent \in Sent /\ PartSent \subseteq Sent
<1>1. AllSent \in Sent
  BY ChainTypes DEF AllSent, Sent
<1>2. ASSUME NEW sent \in PartSent
      PROVE  sent \in Sent
  <2>0. PICK j \in DOMAIN chain :
               sent \in UNION {{SentBefore(j, r, s) : s \in SUBSET r} :
                                 r \in Runs(chain[j].dirty)}
    BY <1>2, Zenon DEF PartSent
  <2>4. PICK r \in Runs(chain[j].dirty) :
               sent \in {SentBefore(j, r, s) : s \in SUBSET r}
    BY <2>0, Zenon
  <2>1. PICK s \in SUBSET r : sent = SentBefore(j, r, s)
    BY <2>4, Zenon
  <2>2. r \subseteq chain[j].dirty
    BY <2>1 DEF Runs, RunFrom
  <2>3. \A i \in DOMAIN chain : chain[i].dirty \subseteq Offsets
    BY ChainTypes
  <2>. QED
    BY <2>1, <2>2, <2>3 DEF SentBefore, Sent
<1>. QED
  BY <1>1, <1>2

LEMMA FlushTypes ==
    ASSUME TypeOK, NEW sent \in Sent
    PROVE  BehindAfter(sent) \subseteq Offsets /\ LenAfter(sent) \in Nat
<1>1. BehindAfter(sent) \subseteq Offsets
  BY DEF BehindAfter, TypeOK
<1>2. UNION {sent[i] : i \in DOMAIN chain} \in SUBSET Offsets
  BY DEF Sent
<1>3. EndOf(UNION {sent[i] : i \in DOMAIN chain}) \in Nat
  BY <1>2, EndOfNat
<1>. QED
  BY <1>1, <1>3 DEF LenAfter, Larger, TypeOK

-----------------------------------------------------------------------------
\* The invariant: PoolConserved and NeverNoMem rest on CallSound.
Inv == TypeOK /\ PoolConserved /\ NeverNoMem /\ CallSound

DataOK ==
    /\ chain \in Seq(Buffer) /\ avail \in Nat
    /\ behind \subseteq Offsets /\ srvLen \in Nat

LEMMA EmptyChain ==
    <<>> \in Seq(Buffer) /\ Len(<<>>) = 0 /\ DOMAIN <<>> = {}
OBVIOUS

LEMMA OneBuffer ==
    ASSUME NEW b \in Buffer
    PROVE  /\ <<b>> \in Seq(Buffer) /\ Len(<<b>>) = 1
           /\ DOMAIN <<b>> = {1} /\ <<b>>[1] = b
OBVIOUS

LEMMA ReportTypes ==
    ASSUME TypeOK, behind' \subseteq Offsets, Report
    PROVE  told' \subseteq Offsets
BY DEF TypeOK, Report

LEMMA FlushOKFacts ==
    ASSUME TypeOK, NEW next \in Seq(Buffer),
           Len(next) <= avail + Len(chain), FlushOK(next)
    PROVE  DataOK' /\ chain' = next /\ avail' + Len(next) = avail + Len(chain)
<1>1. BehindAfter(AllSent) \subseteq Offsets /\ LenAfter(AllSent) \in Nat
  BY SentTypes, FlushTypes
<1>2. avail \in Nat /\ Len(chain) \in Nat /\ Len(next) \in Nat
  BY ChainTypes DEF TypeOK
<1>. QED
  BY <1>1, <1>2 DEF FlushOK, ReleaseAll, DataOK

LEMMA FlushFailsFacts ==
    ASSUME TypeOK, FlushFails
    PROVE  DataOK' /\ chain' = <<>> /\ avail' = avail + Len(chain)
<1>1. PICK sent \in PartSent :
             behind' = BehindAfter(sent) /\ srvLen' = LenAfter(sent)
  BY DEF FlushFails
<1>2. behind' \subseteq Offsets /\ srvLen' \in Nat
  BY <1>1, SentTypes, FlushTypes
<1>3. avail \in Nat /\ Len(chain) \in Nat
  BY ChainTypes DEF TypeOK
<1>. QED
  BY <1>2, <1>3, EmptyChain DEF FlushFails, ReleaseAll, DataOK

\* A chain that is flushed gives all its buffers back.
LEMMA EmptiedPool ==
    ASSUME Inv, chain' = <<>>, avail' = avail + Len(chain), UNCHANGED other
    PROVE  PoolConserved'
<1>1. Len(chain) \in Nat /\ avail \in Nat /\ other \in Nat
  BY ChainTypes DEF Inv, TypeOK
<1>2. Len(chain') = 0
  BY EmptyChain
<1>. QED
  BY <1>1, <1>2, WriteCacheAssumption DEF Inv, PoolConserved

LEMMA WriteFlushFailsInv ==
    ASSUME Inv, WriteFlushFails, UNCHANGED <<hasWBuf, other>>
    PROVE  Inv'
<1>1. DataOK' /\ chain' = <<>> /\ avail' = avail + Len(chain)
  BY FlushFailsFacts DEF Inv, WriteFlushFails
<1>2. told' \subseteq Offsets
  BY <1>1, ReportTypes DEF Inv, WriteFlushFails, DataOK
<1>3. pc' = "idle"
  BY DEF WriteFlushFails
<1>4. TypeOK'
  BY <1>1, <1>2, <1>3 DEF Inv, TypeOK, DataOK, WriteFlushFails, CallOver, file
<1>5. PoolConserved'
  BY <1>1, EmptiedPool
<1>. QED
  BY <1>3, <1>4, <1>5 DEF Inv, NeverNoMem, CallSound

\* WBufSeekAndPrepare finds a buffer that does not start behind pos.
LEMMA SeekIndexFacts ==
    ASSUME TypeOK, NEW pos \in Nat, ~NeedsHead(pos)
    PROVE  SeekIndex(pos) \in DOMAIN chain /\ chain[SeekIndex(pos)].offs <= pos
<1>. DEFINE K == {k \in DOMAIN chain : chain[k].offs >= pos - MBUFSIZE}
            i == Min(K)
<1>1. /\ Len(chain) \in Nat /\ DOMAIN chain = 1 .. Len(chain)
      /\ \A k \in DOMAIN chain : chain[k].offs \in Nat
  BY ChainTypes
<1>2. chain # <<>> /\ chain[1].offs \in Nat /\ chain[1].offs <= pos
  <2>1. chain # <<>> /\ ~(pos < chain[1].offs)
    BY DEF NeedsHead
  <2>2. Len(chain) # 0
    BY <2>1, EmptySeq DEF TypeOK
  <2>. QED
    BY <2>1, <2>2, <1>1
<1>3. Len(chain) > 0 /\ Last(chain) = chain[Len(chain)]
  BY <1>1, <1>2, EmptySeq DEF TypeOK, Last
<1>4. CASE pos >= Last(chain).offs + MBUFSIZE
  BY <1>1, <1>3, <1>4, WriteCacheAssumption DEF SeekIndex
<1>5. CASE ~(pos >= Last(chain).offs + MBUFSIZE)
  <2>1. Len(chain) \in K
    BY <1>1, <1>3, <1>5, WriteCacheAssumption
  <2>2. K \in SUBSET Nat /\ K # {}
    BY <1>1, <2>1
  <2>3. i \in K /\ \A k \in K : i <= k
    BY <2>2, MinOfNats, Zenon
  <2>4. SeekIndex(pos) = IF chain[i].offs > pos THEN i - 1 ELSE i
    BY <1>5 DEF SeekIndex
  <2>5. i \in DOMAIN chain
    BY <2>3
  <2>6. ASSUME NEW k \in DOMAIN chain, k < i PROVE chain[k].offs < pos
    <3>1. k \notin K
      <4>. HIDE DEF i, K
      <4>1. i \in Nat /\ k \in Nat /\ ~(i <= k)
        BY <2>5, <2>6, <1>1
      <4>. QED
        BY <4>1, <2>3, Zenon
    <3>. QED
      BY <3>1, <1>1, WriteCacheAssumption
  <2>. HIDE DEF i, K
  <2>7. CASE chain[i].offs > pos
    <3>1. i # 1
      BY <2>7, <1>2
    <3>2. i - 1 \in DOMAIN chain /\ i - 1 < i
      BY <3>1, <2>5, <1>1
    <3>. QED
      BY <2>4, <2>6, <2>7, <3>2, <1>1
  <2>8. CASE ~(chain[i].offs > pos)
    BY <2>4, <2>5, <2>8, <1>1
  <2>. QED
    BY <2>7, <2>8
<1>. QED
  BY <1>4, <1>5

\* The buffer check of wc_WriteCache leaves room for one buffer at least.
LEMMA FitsCacheFacts ==
    ASSUME TypeOK, NEW n \in Nat, n > 0, FitsCache(n)
    PROVE  WBufsMax >= 1 /\ avail + Len(chain) >= 1
BY BufsNeededPositive, ChainTypes, WriteCacheAssumption DEF FitsCache, TypeOK

\* A buffer is put in front of the chain or starts a new one.
LEMMA AddHeadFacts ==
    ASSUME TypeOK, NEW b \in Buffer
    PROVE  /\ <<b>> \o chain \in Seq(Buffer)
           /\ Len(<<b>> \o chain) = Len(chain) + 1
           /\ (<<b>> \o chain)[1] = b
           /\ 1 \in DOMAIN (<<b>> \o chain)
BY ChainTypes DEF TypeOK

-----------------------------------------------------------------------------
LEMMA DirectWriteInv ==
    ASSUME Inv, pc = "idle", NEW n \in Nat, filePos + n <= MaxFile,
           DirectWriteOK(n) \/ DirectWriteFails(n),
           UNCHANGED <<hasWBuf, other>>
    PROVE  Inv'
<1>1. BehindAfter(AllSent) \subseteq Offsets /\ LenAfter(AllSent) \in Nat
  BY SentTypes, FlushTypes DEF Inv
<1>2. filePos \in Nat /\ filePos + n \in Nat /\ Region(n) \subseteq Offsets
  BY WriteCacheAssumption DEF Inv, TypeOK, Region, Offsets
<1>3. chain' = <<>> /\ avail' = avail + Len(chain) /\ avail' \in Nat
  BY ChainTypes DEF Inv, TypeOK, DirectWriteOK, DirectWriteFails, ReleaseAll
<1>4. PoolConserved'
  BY <1>3, EmptiedPool
<1>5. pc' = "idle"
  BY DEF DirectWriteOK, DirectWriteFails
<1>6. /\ srvLen' \in Nat /\ behind' \subseteq Offsets /\ told' \subseteq Offsets
      /\ filePos' \in Nat /\ fileLen' \in Nat
  <2>1. CASE DirectWriteOK(n)
    BY <2>1, <1>1, <1>2 DEF Inv, TypeOK, DirectWriteOK, Larger
  <2>2. CASE DirectWriteFails(n)
    <3>1. PICK s \in SUBSET Region(n) :
             /\ behind' = (BehindAfter(AllSent) \cup Region(n)) \ s
             /\ srvLen' = Larger(LenAfter(AllSent), EndOf(s))
      BY <2>2 DEF DirectWriteFails
    <3>2. EndOf(s) \in Nat
      BY <1>2, EndOfNat
    <3>3. srvLen' \in Nat /\ behind' \subseteq Offsets
      BY <3>1, <3>2, <1>1, <1>2 DEF Larger
    <3>4. told' \subseteq Offsets
      BY <3>3, <2>2, ReportTypes DEF Inv, DirectWriteFails
    <3>. QED
      BY <3>3, <3>4, <2>2 DEF Inv, TypeOK, DirectWriteFails, file
  <2>. QED
    BY <2>1, <2>2
<1>7. TypeOK'
  BY <1>3, <1>5, <1>6, EmptyChain
  DEF Inv, TypeOK, DirectWriteOK, DirectWriteFails, call, file
<1>. QED
  BY <1>4, <1>5, <1>7 DEF Inv, NeverNoMem, CallSound

\* The three ways WBufSeekAndPrepare succeeds.
LEMMA SeekAndPrepareInv ==
    ASSUME Inv, pc = "idle", NEW n \in Nat, n > 0, filePos + n <= MaxFile,
           WBufSeekAndPrepare(n), UNCHANGED <<hasWBuf, other>>
    PROVE  Inv'
<1>. DEFINE b == NewWBuf(filePos)
<1>1. filePos \in Nat /\ b \in Buffer /\ b.offs <= filePos
  BY AlignFacts DEF Inv, TypeOK
<1>. HIDE DEF b
<1>2. /\ num' = n /\ left' = n /\ target' = 0 /\ filePos' = filePos
      /\ told' = told /\ fileLen' = fileLen /\ res2' = res2
  BY DEF WBufSeekAndPrepare, WBufAddHead, ObtainWBuf, file
<1>3. WbcPos' = filePos
  BY <1>1, <1>2 DEF WbcPos
<1>4. WBufsMax >= 1 /\ avail + Len(chain) >= 1
  BY FitsCacheFacts DEF Inv, WBufSeekAndPrepare, WBufAddHead, ObtainWBuf
<1>5. Len(chain) \in Nat /\ avail \in Nat /\ other \in Nat /\ chain \in Seq(Buffer)
  BY ChainTypes DEF Inv, TypeOK
<1>6. /\ pc' = "place" /\ DataOK'
      /\ posData' \in DOMAIN chain' /\ chain'[posData'].offs <= filePos
      /\ avail' + Len(chain') = avail + Len(chain)
      /\ Len(chain') <= WBufsMax
  <2>1. CASE /\ ~NeedsHead(filePos)
             /\ posData' = SeekIndex(filePos)
             /\ pc' = "place"
             /\ UNCHANGED <<data, told, file>>
    <3>1. posData' \in DOMAIN chain /\ chain[posData'].offs <= filePos
      BY <2>1, <1>1, SeekIndexFacts DEF Inv
    <3>. QED
      BY <3>1, <2>1, <1>5 DEF Inv, TypeOK, PoolConserved, DataOK, data
  <2>2. CASE /\ NeedsHead(filePos) /\ ~MustFlush
             /\ pc' = IF avail = 0 THEN "nomem" ELSE "place"
             /\ chain' = IF avail = 0 THEN chain ELSE <<NewWBuf(filePos)>> \o chain
             /\ avail' = IF avail = 0 THEN 0 ELSE avail - 1
             /\ posData' = 1
             /\ UNCHANGED <<srvLen, behind, told, file>>
    <3>1. avail # 0 /\ Len(chain) < WBufsMax
      <4>1. CASE chain = <<>>
        <5>1. Len(chain) = 0
          BY <4>1, EmptyChain
        <5>. QED
          BY <5>1, <1>4, <1>5, WriteCacheAssumption
      <4>2. CASE chain # <<>>
        BY <4>2, <2>2, <1>5, WriteCacheAssumption
        DEF MustFlush, HasBufferedWData, WBufCacheFull
      <4>. QED
        BY <4>1, <4>2
    <3>2. pc' = "place" /\ chain' = <<b>> \o chain /\ avail' = avail - 1
      BY <2>2, <3>1 DEF b
    <3>3. /\ chain' \in Seq(Buffer) /\ Len(chain') = Len(chain) + 1
          /\ chain'[1] = b /\ 1 \in DOMAIN chain'
      BY <3>2, <1>1, AddHeadFacts DEF Inv
    <3>. QED
      BY <2>2, <3>1, <3>2, <3>3, <1>1, <1>5, WriteCacheAssumption
      DEF Inv, TypeOK, DataOK
  <2>3. CASE /\ NeedsHead(filePos) /\ MustFlush
             /\ FlushOK(<<NewWBuf(filePos)>>)
             /\ posData' = 1
             /\ pc' = "place"
             /\ UNCHANGED <<told, file>>
    <3>1. /\ <<b>> \in Seq(Buffer) /\ Len(<<b>>) = 1
          /\ DOMAIN <<b>> = {1} /\ <<b>>[1] = b
      BY <1>1, OneBuffer
    <3>2. DataOK' /\ chain' = <<b>> /\ avail' + 1 = avail + Len(chain)
      BY <3>1, <2>3, <1>4, FlushOKFacts DEF Inv, b
    <3>. QED
      BY <3>1, <3>2, <2>3, <1>1, <1>4
  <2>. QED
    BY <2>1, <2>2, <2>3 DEF WBufSeekAndPrepare, WBufAddHead, ObtainWBuf
<1>7. TypeOK'
  <2>1. posData' \in Nat
    BY <1>6 DEF DataOK
  <2>. QED
    BY <2>1, <1>2, <1>6 DEF Inv, TypeOK, DataOK
<1>8. PoolConserved'
  <2>1. Len(chain') \in Nat /\ avail' \in Nat
    BY <1>6 DEF DataOK
  <2>. QED
    BY <2>1, <1>5, <1>6 DEF Inv, PoolConserved
<1>9. CallSound'
  BY <1>2, <1>3, <1>6, <1>1 DEF CallSound
<1>. QED
  BY <1>6, <1>7, <1>8, <1>9 DEF Inv, NeverNoMem

LEMMA WriteInv ==
    ASSUME Inv, act_WRITE
    PROVE  Inv'
<1>1. pc = "idle" /\ UNCHANGED <<hasWBuf, other>>
  BY DEF act_WRITE
<1>2. ASSUME NEW n \in Sizes, wc_WriteCache(n) PROVE Inv'
  <2>1. n \in Nat /\ n > 0 /\ filePos + n <= MaxFile
    BY <1>2, WriteCacheAssumption DEF wc_WriteCache
  <2>2. CASE FlushCacheAndWrite(n)
    BY <2>1, <2>2, <1>1, DirectWriteInv, WriteFlushFailsInv DEF FlushCacheAndWrite
  <2>3. CASE WBufSeekAndPrepare(n)
    BY <2>1, <2>3, <1>1, SeekAndPrepareInv
  <2>4. CASE PrepareFlushFails(n)
    BY <2>4, <1>1, WriteFlushFailsInv DEF PrepareFlushFails
  <2>. QED
    BY <1>2, <2>2, <2>3, <2>4 DEF wc_WriteCache
<1>3. CASE WriteNothing
  <2>1. CASE FlushOK(<<>>) /\ UNCHANGED <<pc, call, file, told>>
    <3>0. 0 <= avail + Len(chain) /\ avail \in Nat /\ Len(chain) \in Nat
      BY ChainTypes DEF Inv, TypeOK
    <3>1. DataOK' /\ chain' = <<>> /\ avail' + 0 = avail + Len(chain)
      BY <2>1, <3>0, EmptyChain, FlushOKFacts DEF Inv
    <3>2. avail' = avail + Len(chain)
      BY <3>1, <3>0 DEF DataOK
    <3>3. PoolConserved'
      BY <3>1, <3>2, <1>1, EmptiedPool
    <3>4. TypeOK'
      BY <3>1, <2>1, <1>1 DEF Inv, TypeOK, DataOK, call, file
    <3>. QED
      BY <3>3, <3>4, <2>1, <1>1 DEF Inv, NeverNoMem, CallSound
  <2>2. CASE WriteFlushFails
    BY <2>2, <1>1, WriteFlushFailsInv
  <2>. QED
    BY <1>3, <2>1, <2>2 DEF WriteNothing
<1>. QED
  BY <1>2, <1>3 DEF act_WRITE

-----------------------------------------------------------------------------
\* The steps of the loop in wc_WriteCache.
LEMMA PlaceInv ==
    ASSUME Inv, WBufPlace
    PROVE  Inv'
<1>. DEFINE b == NewWBuf(WbcPos)
<1>1. /\ pc = "place" /\ UNCHANGED <<hasWBuf, other>>
      /\ posData \in DOMAIN chain /\ chain[posData].offs <= WbcPos
      /\ left \in Nat /\ num \in Nat /\ filePos \in Nat /\ posData \in Nat
      /\ left > 0 /\ left <= num /\ filePos + num <= MaxFile
  BY DEF WBufPlace, Inv, CallSound, TypeOK
<1>2. /\ Len(chain) \in Nat /\ DOMAIN chain = 1 .. Len(chain)
      /\ \A i \in DOMAIN chain : chain[i].offs \in Nat
      /\ avail \in Nat /\ other \in Nat /\ chain \in Seq(Buffer)
  BY ChainTypes DEF Inv, TypeOK
<1>3. WbcPos \in Nat
  BY <1>1 DEF WbcPos
<1>4. b \in Buffer /\ b.offs <= WbcPos /\ Holds(b, WbcPos)
  BY <1>3, AlignFacts
<1>. HIDE DEF b
<1>5. CASE WriteFlushFails
  BY <1>1, <1>5, WriteFlushFailsInv
<1>6. CASE /\ PlaceHere \/ PlaceNext \/ PlaceInsert \/ PlaceAfterFlush
           /\ pc' = "copy"
           /\ UNCHANGED <<num, left, file, told>>
  <2>1. WbcPos' = WbcPos
    BY <1>6 DEF WbcPos, file
  <2>2. /\ DataOK' /\ avail' + Len(chain') = avail + Len(chain)
        /\ Len(chain') <= WBufsMax
        /\ posData' \in DOMAIN chain' /\ chain'[posData'].offs <= WbcPos
        /\ target' \in DOMAIN chain' /\ Holds(chain'[target'], WbcPos)
    <3>1. CASE PlaceHere
      BY <3>1, <1>1, <1>2, <1>3
      DEF PlaceHere, Inv, PoolConserved, TypeOK, DataOK, Holds
    <3>2. CASE PlaceNext
      BY <3>2, <1>1, <1>2
      DEF PlaceNext, NextHolds, Inv, PoolConserved, TypeOK, DataOK
    <3>3. CASE PlaceInsert
      <4>1. avail # 0 /\ Len(chain) < WBufsMax
        <5>1. chain # <<>>
          BY <1>1, EmptyChain
        <5>. QED
          BY <5>1, <3>3, <1>2, WriteCacheAssumption
          DEF PlaceInsert, ObtainWBuf, MustFlush, HasBufferedWData, WBufCacheFull
      <4>2. posData + 1 \in 1 .. Len(chain) + 1
        BY <1>1, <1>2
      <4>3. chain' = InsertAt(chain, posData + 1, b)
        BY <3>3 DEF PlaceInsert, ObtainWBuf, InsertAfter, b
      <4>9. chain \in Seq(Buffer) /\ b \in Buffer
        BY <1>2, <1>4
      <4>10. /\ InsertAt(chain, posData + 1, b) \in Seq(Buffer)
             /\ Len(InsertAt(chain, posData + 1, b)) = Len(chain) + 1
             /\ InsertAt(chain, posData + 1, b)[posData + 1] = b
        BY <4>2, <4>9, <1>1, <1>2, InsertAtFacts
      <4>4. /\ chain' \in Seq(Buffer) /\ Len(chain') = Len(chain) + 1
            /\ chain'[posData + 1] = b
        BY <4>3, <4>10, Zenon
      <4>5. posData + 1 \in DOMAIN chain' /\ chain'[posData + 1] = b
        BY <4>2, <4>4
      <4>6. avail' = avail - 1 /\ posData' = posData + 1 /\ target' = posData + 1
            /\ srvLen' = srvLen /\ behind' = behind
        BY <3>3 DEF PlaceInsert, ObtainWBuf
      <4>7. DataOK'
        BY <4>1, <4>4, <4>6, <1>2 DEF DataOK, Inv, TypeOK
      <4>8. avail' + Len(chain') = avail + Len(chain) /\ Len(chain') <= WBufsMax
        BY <4>1, <4>4, <4>6, <1>2, WriteCacheAssumption
      <4>. QED
        BY <4>5, <4>6, <4>7, <4>8, <1>4
    <3>4. CASE PlaceAfterFlush
      <4>1. /\ <<b>> \in Seq(Buffer) /\ Len(<<b>>) = 1
            /\ DOMAIN <<b>> = {1} /\ <<b>>[1] = b
        BY <1>4, OneBuffer
      <4>2. Len(chain) >= 1 /\ WBufsMax >= 1
        BY <1>1, <1>2, WriteCacheAssumption DEF Inv, PoolConserved
      <4>4. FlushOK(<<b>>) /\ TypeOK
        BY <3>4 DEF PlaceAfterFlush, b, Inv
      <4>5. Len(<<b>>) <= avail + Len(chain)
        BY <4>1, <4>2, <1>2
      <4>3. DataOK' /\ chain' = <<b>> /\ avail' + 1 = avail + Len(chain)
        BY <4>1, <4>4, <4>5, FlushOKFacts
      <4>. QED
        BY <4>1, <4>2, <4>3, <3>4, <1>4 DEF PlaceAfterFlush
    <3>. QED
      BY <1>6, <3>1, <3>2, <3>3, <3>4
  <2>3. Len(chain') \in Nat /\ avail' \in Nat /\ posData' \in Nat /\ target' \in Nat
    BY <2>2 DEF DataOK
  <2>4. TypeOK'
    BY <2>2, <2>3, <1>1, <1>6 DEF Inv, TypeOK, DataOK, file
  <2>5. PoolConserved'
    <3>1. avail + other + Len(chain) = PoolSize /\ other' = other
      BY <1>1 DEF Inv, PoolConserved
    <3>3. avail' + Len(chain') = avail + Len(chain)
      BY <2>2
    <3>4. avail \in Nat /\ other \in Nat /\ Len(chain) \in Nat
      BY <1>2
    <3>2. avail' + other' + Len(chain') = PoolSize
      BY <3>1, <3>3, <3>4, <2>3
    <3>. QED
      BY <3>2, <2>2 DEF PoolConserved
  <2>6. CallSound'
    BY <2>1, <2>2, <1>1, <1>6 DEF CallSound, file, Holds
  <2>. QED
    BY <2>4, <2>5, <2>6, <1>6 DEF Inv, NeverNoMem
<1>. QED
  BY <1>5, <1>6 DEF WBufPlace

LEMMA CopyInv ==
    ASSUME Inv, WBufCopy
    PROVE  Inv'
<1>1. /\ pc = "copy" /\ pc' = "check" /\ chain' = ChainAfterCopy
      /\ behind' = behind \cup Copied /\ told' = told \ Copied
      /\ left' = left - Cnt /\ target' = 0
      /\ UNCHANGED <<hasWBuf, posData, num, file, avail, other, srvLen>>
  BY DEF WBufCopy
<1>2. /\ posData \in DOMAIN chain /\ chain[posData].offs <= WbcPos
      /\ left \in Nat /\ num \in Nat /\ filePos \in Nat
      /\ left > 0 /\ left <= num /\ filePos + num <= MaxFile
      /\ target \in DOMAIN chain /\ Holds(chain[target], WbcPos)
  BY <1>1 DEF Inv, CallSound, TypeOK
<1>3. /\ Len(chain) \in Nat /\ DOMAIN chain = 1 .. Len(chain)
      /\ \A i \in DOMAIN chain : chain[i] \in Buffer /\ chain[i].offs \in Nat
  BY ChainTypes DEF Inv
<1>4. WbcPos \in Nat /\ WbcPos + left = filePos + num
  BY <1>2 DEF WbcPos
<1>5. Cnt \in Nat /\ Cnt > 0 /\ Cnt <= left
  BY <1>2, <1>3, <1>4, WriteCacheAssumption DEF Cnt, Smaller, Holds
<1>6. Copied \subseteq Offsets
  BY <1>2, <1>4, <1>5, WriteCacheAssumption DEF Copied, Offsets
<1>7. \A i \in DOMAIN chain :
         ChainAfterCopy[i] \in Buffer /\ ChainAfterCopy[i].offs = chain[i].offs
  BY <1>3, <1>6 DEF ChainAfterCopy, Buffer
<1>8. DOMAIN chain' = 1 .. Len(chain) /\ chain' \in Seq(Buffer)
      /\ Len(chain') = Len(chain)
  <2>1. DOMAIN ChainAfterCopy = 1 .. Len(chain)
    BY <1>3 DEF ChainAfterCopy
  <2>2. ChainAfterCopy = [i \in 1 .. Len(chain) |-> ChainAfterCopy[i]]
    BY <1>3 DEF ChainAfterCopy
  <2>. HIDE DEF ChainAfterCopy
  <2>3. ChainAfterCopy \in [1 .. Len(chain) -> Buffer]
    BY <2>1, <2>2, <1>3, <1>7
  <2>4. ChainAfterCopy \in Seq(Buffer)
    BY <2>3, <1>3, SeqDef
  <2>. QED
    BY <1>1, <1>3, <2>1, <2>4
<1>9. TypeOK'
  BY <1>1, <1>2, <1>5, <1>6, <1>8 DEF Inv, TypeOK, file
<1>10. PoolConserved'
  BY <1>1, <1>8 DEF Inv, PoolConserved
<1>11. CallSound'
  <2>1. WbcPos' = WbcPos + Cnt /\ left' <= num
    BY <1>1, <1>2, <1>4, <1>5 DEF WbcPos, file
  <2>2. chain'[posData].offs = chain[posData].offs
    BY <1>1, <1>2, <1>7
  <2>. QED
    BY <1>1, <1>2, <1>3, <1>4, <1>5, <1>8, <2>1, <2>2 DEF CallSound, file
<1>. QED
  BY <1>1, <1>9, <1>10, <1>11 DEF Inv, NeverNoMem

\* A flush that succeeds, outside or at the end of a call.
LEMMA FlushedFacts ==
    ASSUME Inv, FlushOK(<<>>), UNCHANGED other
    PROVE  DataOK' /\ chain' = <<>> /\ PoolConserved'
<1>1. avail \in Nat /\ Len(chain) \in Nat
  BY ChainTypes DEF Inv, TypeOK
<1>2. Len(<<>>) <= avail + Len(chain) /\ TypeOK
  BY <1>1, EmptyChain DEF Inv
<1>3. DataOK' /\ chain' = <<>> /\ avail' + Len(<<>>) = avail + Len(chain)
  BY <1>2, EmptyChain, FlushOKFacts
<1>4. avail' = avail + Len(chain)
  <2>1. avail' \in Nat
    BY <1>3 DEF DataOK
  <2>. QED
    BY <2>1, <1>1, <1>3, EmptyChain
<1>. QED
  BY <1>3, <1>4, EmptiedPool

LEMMA FailedFacts ==
    ASSUME Inv, FlushFails, UNCHANGED other
    PROVE  DataOK' /\ chain' = <<>> /\ PoolConserved'
BY FlushFailsFacts, EmptiedPool DEF Inv

LEMMA CheckInfoInv ==
    ASSUME Inv, WBufCheckInfo
    PROVE  Inv'
<1>1. /\ pc = "check" /\ UNCHANGED <<hasWBuf, other>>
      /\ posData \in DOMAIN chain /\ chain[posData].offs <= WbcPos
      /\ left \in Nat /\ num \in Nat /\ filePos \in Nat /\ fileLen \in Nat
      /\ left <= num /\ filePos + num <= MaxFile
  BY DEF WBufCheckInfo, Inv, CallSound, TypeOK
<1>2. ASSUME WriteDone
      PROVE  /\ pc' = "idle" /\ filePos' \in Nat /\ fileLen' \in Nat
             /\ num' = 0 /\ left' = 0 /\ posData' = 0 /\ target' = 0
  BY <1>1, <1>2 DEF WriteDone, Larger, CallOver
<1>3. CASE CheckKeep
  <2>1. CASE left = 0
    BY <2>1, <1>1, <1>2, <1>3
    DEF CheckKeep, Inv, TypeOK, PoolConserved, NeverNoMem, CallSound, data
  <2>2. CASE left # 0
    <3>1. WbcPos' = WbcPos
      BY <2>2, <1>3 DEF CheckKeep, WbcPos, call
    <3>. QED
      BY <2>2, <3>1, <1>1, <1>3
      DEF CheckKeep, Inv, TypeOK, PoolConserved, NeverNoMem, CallSound, data, call
  <2>. QED
    BY <2>1, <2>2
<1>4. CASE CheckFlush
  <2>1. DataOK' /\ chain' = <<>> /\ PoolConserved'
    BY <1>1, <1>4, FlushedFacts DEF CheckFlush
  <2>2. /\ pc' \in {"idle", "wild"} /\ filePos' \in Nat /\ fileLen' \in Nat
        /\ num' \in Nat /\ left' \in Nat /\ posData' \in Nat /\ target' \in Nat
    <3>1. CASE left = 0
      BY <3>1, <1>2, <1>4 DEF CheckFlush
    <3>2. CASE left # 0
      BY <3>2, <1>1, <1>4 DEF CheckFlush, Inv, TypeOK
    <3>. QED
      BY <3>1, <3>2
  <2>3. TypeOK'
    BY <2>1, <2>2, <1>1, <1>4 DEF Inv, TypeOK, DataOK, CheckFlush
  <2>. QED
    BY <2>1, <2>2, <2>3 DEF Inv, NeverNoMem, CallSound
<1>5. CASE WriteFlushFails
  BY <1>1, <1>5, WriteFlushFailsInv
<1>. QED
  BY <1>3, <1>4, <1>5 DEF WBufCheckInfo

-----------------------------------------------------------------------------
\* The other packets; none of them leaves a WRITE half done.
LEMMA FlushInv ==
    ASSUME Inv, act_FLUSH
    PROVE  Inv'
<1>1. DataOK' /\ chain' = <<>> /\ PoolConserved'
  BY FlushedFacts, FailedFacts DEF act_FLUSH
<1>2. pc' = "idle" /\ res2' \in BOOLEAN
  BY DEF act_FLUSH, Inv, TypeOK
<1>3. TypeOK'
  BY <1>1, <1>2 DEF act_FLUSH, Inv, TypeOK, DataOK, call
<1>. QED
  BY <1>1, <1>2, <1>3 DEF Inv, NeverNoMem, CallSound

LEMMA EndInv ==
    ASSUME Inv, act_END
    PROVE  Inv'
<1>1. DataOK' /\ chain' = <<>> /\ PoolConserved'
  BY FlushedFacts, FailedFacts DEF act_END, wc_DeleteCache
<1>2. told' \subseteq Offsets
  BY <1>1, ReportTypes DEF act_END, wc_DeleteCache, Inv, TypeOK, DataOK
<1>3. TypeOK'
  BY <1>1, <1>2 DEF act_END, wc_DeleteCache, Inv, TypeOK, DataOK, call
<1>. QED
  BY <1>1, <1>3 DEF act_END, wc_DeleteCache, Inv, NeverNoMem, CallSound

LEMMA SetFileSizeInv ==
    ASSUME Inv, act_SET_FILE_SIZE
    PROVE  Inv'
<1>1. /\ pc = "idle" /\ pc' = "idle" /\ chain' = <<>>
      /\ avail' = avail + Len(chain) /\ UNCHANGED <<hasWBuf, call, res2, other>>
  BY DEF act_SET_FILE_SIZE, ReleaseAll
<1>2. PoolConserved' /\ avail' \in Nat
  BY <1>1, EmptiedPool, ChainTypes DEF Inv, TypeOK
<1>3. PICK flushed \in {AllSent} \cup PartSent :
         \/ \E n \in 0 .. MaxFile : SetSize(n, BehindAfter(flushed))
         \/ /\ behind' = BehindAfter(flushed)
            /\ srvLen' = LenAfter(flushed)
            /\ Report
            /\ UNCHANGED <<filePos, fileLen>>
  BY DEF act_SET_FILE_SIZE
<1>4. BehindAfter(flushed) \subseteq Offsets /\ LenAfter(flushed) \in Nat
  BY SentTypes, FlushTypes DEF Inv
<1>5. /\ behind' \subseteq Offsets /\ told' \subseteq Offsets
      /\ srvLen' \in Nat /\ filePos' \in Nat /\ fileLen' \in Nat
  <2>1. ASSUME NEW n \in 0 .. MaxFile, SetSize(n, BehindAfter(flushed))
        PROVE  /\ behind' \subseteq Offsets /\ told' \subseteq Offsets
               /\ srvLen' \in Nat /\ filePos' \in Nat /\ fileLen' \in Nat
    BY <2>1, <1>4 DEF SetSize, Smaller, Inv, TypeOK
  <2>2. CASE /\ behind' = BehindAfter(flushed)
             /\ srvLen' = LenAfter(flushed)
             /\ Report
             /\ UNCHANGED <<filePos, fileLen>>
    BY <2>2, <1>4, ReportTypes DEF Inv, TypeOK
  <2>. QED
    BY <1>3, <2>1, <2>2
<1>6. TypeOK'
  BY <1>1, <1>2, <1>5, EmptyChain DEF Inv, TypeOK, call
<1>. QED
  BY <1>1, <1>2, <1>6 DEF Inv, NeverNoMem, CallSound

LEMMA SimplePacketsInv ==
    ASSUME Inv, ReportPending \/ act_SEEK \/ act_FINDOUTPUT \/ OtherHandles
    PROVE  Inv'
<1>1. CASE ReportPending
  <2>1. behind' = behind
    BY <1>1 DEF ReportPending, data
  <2>2. told' \subseteq Offsets
    BY <1>1, <2>1, ReportTypes DEF ReportPending, Inv, TypeOK
  <2>. QED
    BY <1>1, <2>2 DEF ReportPending, Inv, TypeOK, PoolConserved, NeverNoMem,
                      CallSound, data, call
<1>2. CASE act_SEEK
  BY <1>2 DEF act_SEEK, Inv, TypeOK, PoolConserved, NeverNoMem, CallSound,
              data, call
<1>3. CASE act_FINDOUTPUT
  BY <1>3 DEF act_FINDOUTPUT, wc_CreateCache, Inv, TypeOK, PoolConserved, NeverNoMem,
              CallSound, call
<1>4. CASE OtherHandles
  <2>1. Len(chain) \in Nat
    BY ChainTypes DEF Inv
  <2>2. /\ avail \in Nat /\ other \in Nat /\ pc \in {"idle", "closed"}
        /\ avail + other + Len(chain) = PoolSize /\ Len(chain) <= WBufsMax
    BY <1>4 DEF OtherHandles, Inv, TypeOK, PoolConserved
  <2>3. PICK n \in 0 .. other + avail : other' = n /\ avail' = other + avail - n
    BY <1>4 DEF OtherHandles
  <2>4. avail' \in Nat /\ other' \in Nat /\ avail' + other' = avail + other
    BY <2>2, <2>3
  <2>5. chain' = chain /\ pc' = pc
    BY <1>4 DEF OtherHandles
  <2>6. PoolConserved'
    BY <2>1, <2>2, <2>4, <2>5 DEF PoolConserved
  <2>7. TypeOK'
    BY <1>4, <2>4 DEF OtherHandles, Inv, TypeOK, call, file
  <2>. QED
    BY <2>2, <2>5, <2>6, <2>7 DEF Inv, NeverNoMem, CallSound
<1>. QED
  BY <1>1, <1>2, <1>3, <1>4

-----------------------------------------------------------------------------
\* Every state of every run satisfies the inductive invariant, whatever the
\* sizes of buffers, pool and writes, and whether or not the server fails.
THEOREM Invariance == Spec => []Inv
<1>1. Init => Inv
  <2>. SUFFICES ASSUME Init PROVE Inv
    OBVIOUS
  <2>1. TypeOK
    BY WriteCacheAssumption, EmptyChain DEF Init, TypeOK
  <2>2. PoolConserved
    <3>1. Len(chain) = 0
      BY EmptyChain DEF Init
    <3>. QED
      BY <3>1, WriteCacheAssumption DEF Init, PoolConserved
  <2>. QED
    BY <2>1, <2>2 DEF Init, Inv, NeverNoMem, CallSound
<1>2. Inv /\ [Next]_vars => Inv'
  <2>. SUFFICES ASSUME Inv, [Next]_vars PROVE Inv'
    OBVIOUS
  <2>1. CASE UNCHANGED vars
    BY <2>1 DEF vars, Inv, TypeOK, PoolConserved, NeverNoMem, CallSound,
                WbcPos, Holds
  <2>2. CASE Next
    BY <2>2, WriteInv, PlaceInv, CopyInv, CheckInfoInv, FlushInv, EndInv,
       SetFileSizeInv, SimplePacketsInv DEF Next
  <2>. QED
    BY <2>1, <2>2
<1>. QED
  BY <1>1, <1>2, PTL DEF Spec

\* The handler's state is well formed in every run.
THEOREM TypeCorrect == Spec => []TypeOK
<1>1. Inv => TypeOK
  BY DEF Inv
<1>. QED
  BY <1>1, Invariance, PTL

\* Buffers are neither leaked nor released twice, and no handle takes more
\* than its share, on any path through wc_WriteCache and iwc_FlushCache.
THEOREM BuffersConserved == Spec => []PoolConserved
<1>1. Inv => PoolConserved
  BY DEF Inv
<1>. QED
  BY <1>1, Invariance, PTL

\* The "no mem" exits in the middle of a buffered write are never taken.
THEOREM NoMemUnreachable == Spec => []NeverNoMem
<1>1. Inv => NeverNoMem
  BY DEF Inv
<1>. QED
  BY <1>1, Invariance, PTL

\* Inside a WRITE wbc_PosData is always a buffer at or before the position.
THEOREM CallsSound == Spec => []CallSound
<1>1. Inv => CallSound
  BY DEF Inv
<1>. QED
  BY <1>1, Invariance, PTL

-----------------------------------------------------------------------------
(***************************************************************************)
(* The layout of the cache.  Two facts about the constants are needed: the *)
(* client does not seek, or every write that is buffered fits into one     *)
(* buffer (a longer one over buffered data breaks the order of the chain,  *)
(* wbuf.c:655); and SET_FILE_SIZE does not meet a failing flush, which it  *)
(* would not report (find.c:646).                                          *)
(***************************************************************************)
NoSeek == "SEEK" \notin Packets

SmallWrites == \A n \in Sizes : n <= WriteBufferLimit => n <= MBUFSIZE

InPlace == NoSeek \/ SmallWrites

FlushReported == "SET_FILE_SIZE" \in Packets => ~ServerFails

Aligned(p) == WBufAlignFileOffs(p) = p

LEMMA DivMod ==
    ASSUME NEW M \in Nat \ {0}, NEW p \in Nat
    PROVE  p \div M \in Nat /\ p % M \in 0 .. M - 1 /\ p = M * (p \div M) + (p % M)
BY Z3

LEMMA NextMultiple ==
    ASSUME NEW M \in Nat \ {0}, NEW a \in Nat, NEW b \in Nat, a < b
    PROVE  M * a + M <= M * b
<1>1. PICK d \in Nat : b = a + 1 + d
  <2>1. b - a - 1 \in Nat /\ b = a + 1 + (b - a - 1)
    OBVIOUS
  <2>. QED
    BY <2>1, Zenon
<1>2. M * b = M * a + M + M * d
  BY <1>1, Z3
<1>3. M * d \in Nat /\ M * a \in Nat
  BY Z3
<1>. QED
  BY <1>2, <1>3

LEMMA MultipleMod ==
    ASSUME NEW M \in Nat \ {0}, NEW q \in Nat
    PROVE  (M * q) % M = 0 /\ M * q \in Nat
BY Z3

\* Positions before and behind an aligned buffer are aligned to other buffers.
LEMMA AlignedFacts ==
    ASSUME NEW p \in Nat, NEW a \in Nat, Aligned(a)
    PROVE  /\ Aligned(WBufAlignFileOffs(p))
           /\ a + MBUFSIZE <= p => a + MBUFSIZE <= WBufAlignFileOffs(p)
           /\ p < a => WBufAlignFileOffs(p) + MBUFSIZE <= a
<1>. DEFINE M == MBUFSIZE
            q == p \div M
            r == p % M
            k == a \div M
<1>1. M \in Nat \ {0}
  BY WriteCacheAssumption
<1>2. q \in Nat /\ r \in 0 .. M - 1 /\ p = M * q + r
  BY <1>1, DivMod
<1>3. k \in Nat /\ a % M \in 0 .. M - 1 /\ a = M * k + (a % M)
  BY <1>1, DivMod
<1>4. a % M = 0
  BY <1>1, <1>3 DEF Aligned, WBufAlignFileOffs
<1>5. WBufAlignFileOffs(p) = p - r
  BY DEF WBufAlignFileOffs
<1>6. (M * q) % M = 0 /\ M * q \in Nat /\ M * k \in Nat
  BY <1>1, <1>2, <1>3, MultipleMod
<1>. HIDE DEF M, q, r, k
<1>7. WBufAlignFileOffs(p) = M * q
  BY <1>1, <1>2, <1>5, <1>6
<1>8. Aligned(WBufAlignFileOffs(p))
  <2>1. WBufAlignFileOffs(M * q) = M * q - 0
    BY <1>6 DEF WBufAlignFileOffs, M
  <2>. QED
    BY <2>1, <1>6, <1>7 DEF Aligned
<1>9. a = M * k
  BY <1>3, <1>4, <1>6
<1>10. ASSUME a + M <= p PROVE a + M <= M * q
  <2>1. CASE k < q
    BY <2>1, <1>1, <1>2, <1>3, <1>9, NextMultiple
  <2>2. CASE q <= k
    <3>1. M * q <= M * k
      <4>1. CASE q = k
        BY <4>1, <1>6
      <4>2. CASE q < k
        <5>1. M * q + M <= M * k
          BY <4>2, <1>1, <1>2, <1>3, NextMultiple
        <5>. QED
          BY <5>1, <1>1, <1>6
      <4>. QED
        BY <4>1, <4>2, <2>2, <1>2, <1>3
    <3>. QED
      BY <3>1, <1>10, <1>1, <1>2, <1>6, <1>9
  <2>. QED
    BY <2>1, <2>2, <1>2, <1>3
<1>11. ASSUME p < a PROVE M * q + M <= a
  <2>1. CASE q < k
    BY <2>1, <1>1, <1>2, <1>3, <1>9, NextMultiple
  <2>2. CASE k <= q
    <3>1. M * k <= M * q
      <4>1. CASE q = k
        BY <4>1, <1>6
      <4>2. CASE k < q
        <5>1. M * k + M <= M * q
          BY <4>2, <1>1, <1>2, <1>3, NextMultiple
        <5>. QED
          BY <5>1, <1>1, <1>6
      <4>. QED
        BY <4>1, <4>2, <2>2, <1>2, <1>3
    <3>. QED
      BY <3>1, <1>11, <1>1, <1>2, <1>6, <1>9
  <2>. QED
    BY <2>1, <2>2, <1>2, <1>3
<1>. QED
  BY <1>7, <1>8, <1>10, <1>11 DEF M

LEMMA NewBufferFacts ==
    ASSUME NEW pos \in Nat
    PROVE  /\ NewWBuf(pos) \in Buffer /\ NewWBuf(pos).offs = WBufAlignFileOffs(pos)
           /\ WBufAlignFileOffs(pos) \in Nat /\ Aligned(WBufAlignFileOffs(pos))
           /\ WBufAlignFileOffs(pos) <= pos
           /\ pos < WBufAlignFileOffs(pos) + MBUFSIZE
           /\ NewWBuf(pos).dirty = {} /\ NewWBuf(pos).old = {}
<1>1. /\ WBufAlignFileOffs(pos) \in Nat /\ NewWBuf(pos) \in Buffer
      /\ Holds(NewWBuf(pos), pos)
  BY AlignFacts
<1>2. /\ NewWBuf(pos).offs = WBufAlignFileOffs(pos)
      /\ NewWBuf(pos).dirty = {} /\ NewWBuf(pos).old = {}
  BY DEF NewWBuf
<1>3. Aligned(0)
  BY WriteCacheAssumption, Z3 DEF Aligned, WBufAlignFileOffs
<1>4. Aligned(WBufAlignFileOffs(pos))
  BY <1>3, AlignedFacts
<1>. QED
  BY <1>1, <1>2, <1>4 DEF Holds

-----------------------------------------------------------------------------
\* The buffers lie on aligned places, ascending and apart, each with bytes of
\* its own range only, so that none is ever superseded in another buffer.
OrderedChain(c) ==
    /\ \A i, j \in DOMAIN c : i < j => c[i].offs + MBUFSIZE <= c[j].offs
    /\ \A i \in DOMAIN c :
         /\ Aligned(c[i].offs) /\ c[i].old = {}
         /\ \A p \in c[i].dirty : Holds(c[i], p)

LEMMA OrderedEmpty == OrderedChain(<<>>)
BY EmptyChain DEF OrderedChain

LEMMA OrderedOne ==
    ASSUME NEW pos \in Nat
    PROVE  OrderedChain(<<NewWBuf(pos)>>)
<1>. DEFINE b == NewWBuf(pos)
<1>1. b \in Buffer /\ Aligned(b.offs) /\ b.old = {} /\ b.dirty = {}
  BY NewBufferFacts
<1>. HIDE DEF b
<1>2. DOMAIN <<b>> = {1} /\ <<b>>[1] = b
  BY <1>1, OneBuffer
<1>3. OrderedChain(<<b>>)
  BY <1>1, <1>2 DEF OrderedChain
<1>. QED
  BY <1>3 DEF b

\* A buffer is added between two neighbours; i = 0 is the head of the chain.
LEMMA OrderedInsert ==
    ASSUME TypeOK, OrderedChain(chain), NEW pos \in Nat, NEW i \in 0 .. Len(chain),
           i > 0 => chain[i].offs + MBUFSIZE <= pos,
           i < Len(chain) => pos < chain[i + 1].offs,
           NEW c \in Seq(Buffer), Len(c) = Len(chain) + 1,
           \A k \in 1 .. Len(chain) + 1 :
              c[k] = IF k < i + 1 THEN chain[k]
                     ELSE IF k = i + 1 THEN NewWBuf(pos) ELSE chain[k - 1]
    PROVE  OrderedChain(c)
<1>. DEFINE b == NewWBuf(pos)
            n == Len(chain)
<1>1. /\ b.offs \in Nat /\ Aligned(b.offs) /\ b.old = {} /\ b.dirty = {}
      /\ b.offs = WBufAlignFileOffs(pos)
  BY NewBufferFacts
<1>2. /\ n \in Nat /\ DOMAIN chain = 1 .. n /\ DOMAIN c = 1 .. n + 1
      /\ \A k \in 1 .. n : chain[k].offs \in Nat
  BY ChainTypes
<1>3. \A k \in 1 .. n + 1 :
        c[k] = IF k < i + 1 THEN chain[k] ELSE IF k = i + 1 THEN b ELSE chain[k - 1]
  OBVIOUS
<1>. HIDE DEF b, n
<1>4. /\ \A k, l \in 1 .. n : k < l => chain[k].offs + MBUFSIZE <= chain[l].offs
      /\ \A k \in 1 .. n : /\ Aligned(chain[k].offs) /\ chain[k].old = {}
                           /\ \A p \in chain[k].dirty : Holds(chain[k], p)
  BY <1>2 DEF OrderedChain
<1>5. i \in 0 .. n /\ MBUFSIZE \in Nat
  BY WriteCacheAssumption DEF n
<1>6. ASSUME NEW k \in 1 .. n, k <= i PROVE chain[k].offs + MBUFSIZE <= b.offs
  <2>1. i \in 1 .. n /\ chain[i].offs + MBUFSIZE <= pos
    BY <1>5, <1>6
  <2>2. chain[i].offs + MBUFSIZE <= b.offs
    BY <2>1, <1>1, <1>2, <1>4, AlignedFacts
  <2>3. CASE k = i
    BY <2>2, <2>3
  <2>4. CASE k < i
    <3>1. chain[k].offs + MBUFSIZE <= chain[i].offs
      BY <2>1, <2>4, <1>4
    <3>. QED
      BY <3>1, <2>1, <2>2, <1>1, <1>2, <1>5
  <2>. QED
    BY <2>3, <2>4, <1>5, <1>6
<1>7. ASSUME NEW k \in 1 .. n, k > i PROVE b.offs + MBUFSIZE <= chain[k].offs
  <2>1. i + 1 \in 1 .. n /\ pos < chain[i + 1].offs
    BY <1>5, <1>7 DEF n
  <2>2. b.offs + MBUFSIZE <= chain[i + 1].offs
    BY <2>1, <1>1, <1>2, <1>4, AlignedFacts
  <2>3. CASE k = i + 1
    BY <2>2, <2>3
  <2>4. CASE k > i + 1
    <3>1. chain[i + 1].offs + MBUFSIZE <= chain[k].offs
      BY <2>1, <2>4, <1>4
    <3>. QED
      BY <3>1, <2>1, <2>2, <1>1, <1>2, <1>5
  <2>. QED
    BY <2>3, <2>4, <1>5, <1>7
<1>8. ASSUME NEW k \in 1 .. n + 1
      PROVE  /\ Aligned(c[k].offs) /\ c[k].old = {}
             /\ \A p \in c[k].dirty : Holds(c[k], p)
  <2>1. CASE k < i + 1
    <3>1. k \in 1 .. n /\ c[k] = chain[k]
      BY <2>1, <1>2, <1>3, <1>5
    <3>. QED
      BY <3>1, <1>4
  <2>2. CASE k = i + 1
    <3>1. c[k] = b
      BY <2>2, <1>3, <1>5
    <3>. QED
      BY <3>1, <1>1
  <2>3. CASE k > i + 1
    <3>1. k - 1 \in 1 .. n /\ c[k] = chain[k - 1]
      BY <2>3, <1>2, <1>3, <1>5
    <3>. QED
      BY <3>1, <1>4
  <2>. QED
    BY <2>1, <2>2, <2>3, <1>5
<1>9. ASSUME NEW k \in 1 .. n + 1, NEW l \in 1 .. n + 1, k < l
      PROVE  c[k].offs + MBUFSIZE <= c[l].offs
  <2>1. CASE l < i + 1
    <3>1. k \in 1 .. n /\ l \in 1 .. n /\ c[k] = chain[k] /\ c[l] = chain[l]
      BY <2>1, <1>9, <1>2, <1>3, <1>5
    <3>. QED
      BY <3>1, <1>4, <1>9
  <2>2. CASE l = i + 1
    <3>1. k \in 1 .. n /\ k <= i /\ c[k] = chain[k] /\ c[l] = b
      BY <2>2, <1>9, <1>2, <1>3, <1>5
    <3>. QED
      BY <3>1, <1>6
  <2>3. CASE l > i + 1 /\ k = i + 1
    <3>1. l - 1 \in 1 .. n /\ l - 1 > i /\ c[l] = chain[l - 1] /\ c[k] = b
      BY <2>3, <1>9, <1>2, <1>3, <1>5
    <3>. QED
      BY <3>1, <1>7
  <2>4. CASE l > i + 1 /\ k < i + 1
    <3>1. /\ l - 1 \in 1 .. n /\ l - 1 > k /\ c[l] = chain[l - 1]
          /\ k \in 1 .. n /\ c[k] = chain[k]
      BY <2>4, <1>9, <1>2, <1>3, <1>5
    <3>. QED
      BY <3>1, <1>4
  <2>5. CASE l > i + 1 /\ k > i + 1
    <3>1. /\ l - 1 \in 1 .. n /\ l - 1 > k - 1 /\ c[l] = chain[l - 1]
          /\ k - 1 \in 1 .. n /\ c[k] = chain[k - 1]
      BY <2>5, <1>9, <1>2, <1>3, <1>5
    <3>. QED
      BY <3>1, <1>4
  <2>. QED
    BY <2>1, <2>2, <2>3, <2>4, <2>5, <1>5
<1>. QED
  BY <1>2, <1>8, <1>9 DEF OrderedChain

\* An aligned chain stays one when bytes are copied to the buffer that holds
\* them.
LEMMA OrderedCopy ==
    ASSUME Inv, OrderedChain(chain), WBufCopy
    PROVE  /\ OrderedChain(chain') /\ DOMAIN chain' = DOMAIN chain
           /\ Len(chain') = Len(chain)
           /\ \A i \in DOMAIN chain : chain'[i].offs = chain[i].offs
           /\ \A i \in DOMAIN chain : i # target => chain'[i].dirty = chain[i].dirty
           /\ chain'[target].dirty = chain[target].dirty \cup Copied
           /\ Cnt \in Nat /\ Cnt > 0 /\ Cnt <= left /\ WbcPos' = WbcPos + Cnt
           /\ WbcPos \in Nat /\ WbcPos + Cnt <= chain[target].offs + MBUFSIZE
           /\ left - Cnt > 0 => WbcPos' = chain[target].offs + MBUFSIZE
<1>1. /\ chain' = ChainAfterCopy /\ left' = left - Cnt /\ num' = num
      /\ filePos' = filePos /\ target \in DOMAIN chain /\ Holds(chain[target], WbcPos)
      /\ left \in Nat /\ left > 0 /\ left <= num /\ num \in Nat /\ filePos \in Nat
      /\ MBUFSIZE \in Nat
  BY WriteCacheAssumption DEF WBufCopy, Inv, CallSound, TypeOK, file
<1>2. /\ Len(chain) \in Nat /\ DOMAIN chain = 1 .. Len(chain)
      /\ \A i \in DOMAIN chain :
            /\ chain[i] \in Buffer /\ chain[i].offs \in Nat
            /\ chain[i] = [offs |-> chain[i].offs, dirty |-> chain[i].dirty,
                           old |-> chain[i].old]
  BY ChainTypes DEF Inv, Buffer
<1>3. WbcPos \in Nat
  BY <1>1 DEF WbcPos
<1>4. /\ Cnt \in Nat /\ Cnt > 0 /\ Cnt <= left
      /\ WbcPos + Cnt <= chain[target].offs + MBUFSIZE
      /\ left - Cnt > 0 => WbcPos + Cnt = chain[target].offs + MBUFSIZE
  BY <1>1, <1>2, <1>3 DEF Cnt, Smaller, Holds
<1>5. WbcPos' = WbcPos + Cnt
  <2>. HIDE DEF Cnt
  <2>. QED
    BY <1>1, <1>4 DEF WbcPos
<1>6. \A p \in Copied : p \in Nat /\ Holds(chain[target], p)
  <2>. HIDE DEF Cnt, WbcPos
  <2>. QED
    BY <1>1, <1>2, <1>3, <1>4 DEF Copied, Holds
<1>. HIDE DEF Cnt, WbcPos, Copied
<1>7. ASSUME NEW i \in DOMAIN chain, i # target
      PROVE  chain[i].dirty \cap Copied = {}
  <2>1. ASSUME NEW p \in Copied, p \in chain[i].dirty PROVE FALSE
    <3>1. p \in Nat /\ Holds(chain[target], p) /\ Holds(chain[i], p)
      BY <2>1, <1>6 DEF OrderedChain
    <3>2. \/ chain[i].offs + MBUFSIZE <= chain[target].offs
          \/ chain[target].offs + MBUFSIZE <= chain[i].offs
      BY <1>1, <1>2, <1>7 DEF OrderedChain
    <3>. QED
      BY <3>1, <3>2, <1>1, <1>2 DEF Holds
  <2>. QED
    BY <2>1
<1>8. ASSUME NEW i \in DOMAIN chain
      PROVE  /\ chain'[i].offs = chain[i].offs /\ chain'[i].old = {}
             /\ chain'[i].dirty = IF i = target THEN chain[i].dirty \cup Copied
                                  ELSE chain[i].dirty
  <2>1. chain[i].old = {}
    BY DEF OrderedChain
  <2>2. CASE i = target
    <3>1. chain'[i] = [chain[i] EXCEPT !.dirty = @ \cup Copied, !.old = @ \ Copied]
      BY <2>2, <1>1 DEF ChainAfterCopy
    <3>. QED
      BY <3>1, <2>1, <2>2, <1>2
  <2>3. CASE i # target
    <3>1. chain'[i] = [chain[i] EXCEPT !.old = @ \cup (chain[i].dirty \cap Copied)]
      BY <2>3, <1>1 DEF ChainAfterCopy
    <3>. QED
      BY <3>1, <2>1, <2>3, <1>2, <1>7
  <2>. QED
    BY <2>2, <2>3
<1>9. DOMAIN chain' = DOMAIN chain /\ Len(chain') = Len(chain)
  <2>1. DOMAIN chain' = DOMAIN chain
    BY <1>1 DEF ChainAfterCopy
  <2>. QED
    BY <2>1, <1>2, CopyInv, LenProperties DEF Inv, TypeOK
<1>10. OrderedChain(chain')
  <2>1. ASSUME NEW i \in DOMAIN chain, NEW p \in chain'[i].dirty
        PROVE  Holds(chain'[i], p)
    <3>1. chain'[i].offs = chain[i].offs
      BY <1>8
    <3>2. Holds(chain[i], p)
      BY <1>6, <1>8, <2>1 DEF OrderedChain
    <3>. QED
      BY <3>1, <3>2 DEF Holds
  <2>2. ASSUME NEW i \in DOMAIN chain
        PROVE  Aligned(chain'[i].offs) /\ chain'[i].old = {}
    BY <1>8 DEF OrderedChain
  <2>3. ASSUME NEW i \in DOMAIN chain, NEW j \in DOMAIN chain, i < j
        PROVE  chain'[i].offs + MBUFSIZE <= chain'[j].offs
    BY <1>8, <2>3 DEF OrderedChain
  <2>. QED
    BY <2>1, <2>2, <2>3, <1>9 DEF OrderedChain
<1>. QED
  BY <1>1, <1>3, <1>4, <1>5, <1>8, <1>9, <1>10, Zenon

-----------------------------------------------------------------------------
(***************************************************************************)
(* The invariant of the layout.                                            *)
(***************************************************************************)
InCall == pc \in {"place", "copy", "check"}

\* The position lies before, or at the start of, the buffer after PosData.
BeforeNext == posData < Len(chain) => WbcPos <= chain[posData + 1].offs

\* Where PosData is.  A write that goes to the buffer after it starts there
\* and ends there: PosData does not follow.
Near ==
    /\ pc = "place" => BeforeNext
    /\ pc = "copy" =>
         \/ target = posData /\ BeforeNext
         \/ /\ target = posData + 1 /\ WbcPos = chain[target].offs
            /\ left <= MBUFSIZE
    /\ pc = "check" /\ left > 0 => BeforeNext

\* A write is short, or it goes to the end of the chain.
Stays ==
    \/ SmallWrites /\ (InCall => num <= MBUFSIZE)
    \/ /\ NoSeek
       /\ pc = "idle" => \A i \in DOMAIN chain : chain[i].offs < filePos
       /\ InCall => posData = Len(chain)
       /\ pc = "check" => chain[posData].offs < WbcPos

\* The file's length covers the buffers but for what this write has copied.
Covers ==
    \A i \in DOMAIN chain : \A p \in chain[i].dirty :
        p < fileLen \/ (InCall /\ p < WbcPos)

LayoutInv == OrderedChain(chain) /\ Near /\ Stays /\ Covers

\* A step that ends with an empty chain outside a write.
LEMMA EmptyLayout ==
    ASSUME InPlace, chain' = <<>>, pc' \notin {"place", "copy", "check"}
    PROVE  LayoutInv'
<1>1. OrderedChain(chain') /\ DOMAIN chain' = {}
  BY OrderedEmpty, EmptyChain
<1>2. OrderedChain(chain)'
  BY <1>1 DEF OrderedChain, Aligned, WBufAlignFileOffs, Holds
<1>. QED
  BY <1>1, <1>2 DEF LayoutInv, Near, Stays, Covers, InCall, InPlace, SmallWrites, NoSeek

LEMMA PrimedOrder == OrderedChain(chain)' <=> OrderedChain(chain')
BY DEF OrderedChain, Aligned, WBufAlignFileOffs, Holds

\* In an ordered chain SeekIndex finds the last buffer before pos or at pos,
\* or the buffer that ends where pos is.
LEMMA SeekIndexNear ==
    ASSUME TypeOK, OrderedChain(chain), NEW pos \in Nat, ~NeedsHead(pos),
           SeekIndex(pos) < Len(chain)
    PROVE  pos <= chain[SeekIndex(pos) + 1].offs
<1>. DEFINE K == {k \in DOMAIN chain : chain[k].offs >= pos - MBUFSIZE}
            i == Min(K)
<1>1. /\ Len(chain) \in Nat /\ DOMAIN chain = 1 .. Len(chain)
      /\ \A k \in DOMAIN chain : chain[k].offs \in Nat
      /\ MBUFSIZE \in Nat
  BY ChainTypes, WriteCacheAssumption
<1>2. chain # <<>>
  BY DEF NeedsHead
<1>3. Len(chain) > 0 /\ Last(chain) = chain[Len(chain)]
  BY <1>1, <1>2, EmptySeq DEF TypeOK, Last
<1>4. ~(pos >= Last(chain).offs + MBUFSIZE)
  BY <1>1 DEF SeekIndex
<1>5. SeekIndex(pos) = IF chain[i].offs > pos THEN i - 1 ELSE i
  BY <1>4 DEF SeekIndex
<1>6. Len(chain) \in K
  BY <1>1, <1>3, <1>4
<1>7. K \in SUBSET Nat /\ K # {}
  BY <1>1, <1>6
<1>8. i \in K
  BY <1>7, MinOfNats, Zenon
<1>9. i \in DOMAIN chain /\ chain[i].offs >= pos - MBUFSIZE
  BY <1>8
<1>. HIDE DEF i, K
<1>10. CASE chain[i].offs > pos
  <2>1. SeekIndex(pos) + 1 = i
    BY <1>10, <1>5, <1>9, <1>1
  <2>. QED
    BY <2>1, <1>10, <1>9, <1>1
<1>11. CASE ~(chain[i].offs > pos)
  <2>1. SeekIndex(pos) = i /\ i + 1 \in DOMAIN chain
    BY <1>11, <1>5, <1>9, <1>1
  <2>2. chain[i].offs + MBUFSIZE <= chain[i + 1].offs
    BY <2>1, <1>9, <1>1 DEF OrderedChain
  <2>. QED
    BY <2>1, <2>2, <1>9, <1>1
<1>. QED
  BY <1>10, <1>11

\* The layout at the start of a buffered write.
LEMMA PrepareLayout ==
    ASSUME Inv, LayoutInv, pc = "idle", NEW n \in Sizes, n > 0, filePos + n <= MaxFile,
           WBufSeekAndPrepare(n), UNCHANGED <<hasWBuf, other>>
    PROVE  LayoutInv'
<1>1. /\ filePos \in Nat /\ n \in Nat /\ MBUFSIZE \in Nat
      /\ num' = n /\ left' = n /\ filePos' = filePos /\ fileLen' = fileLen
  BY WriteCacheAssumption DEF WBufSeekAndPrepare, file, Inv, TypeOK
<1>2. WbcPos' = filePos
  BY <1>1 DEF WbcPos
<1>3. n <= WriteBufferLimit
  BY DEF WBufSeekAndPrepare, FitsCache
<1>4. /\ Len(chain) \in Nat /\ DOMAIN chain = 1 .. Len(chain) /\ chain \in Seq(Buffer)
      /\ \A i \in DOMAIN chain : chain[i].offs \in Nat
  BY ChainTypes DEF Inv, TypeOK
<1>5. /\ OrderedChain(chain)
      /\ \A i \in DOMAIN chain : \A p \in chain[i].dirty : p < fileLen
  BY DEF LayoutInv, Covers, InCall
<1>6. SmallWrites \/ (NoSeek /\ \A i \in DOMAIN chain : chain[i].offs < filePos)
  BY DEF LayoutInv, Stays
<1>7. /\ NewWBuf(filePos) \in Buffer /\ NewWBuf(filePos).dirty = {}
      /\ NewWBuf(filePos).offs \in Nat /\ NewWBuf(filePos).offs <= filePos
  BY <1>1, NewBufferFacts
<1>8. pc' = "place"
  <2>1. Inv'
    BY <1>1, SeekAndPrepareInv
  <2>2. pc' \in {"place", "nomem"}
    BY DEF WBufSeekAndPrepare
  <2>. QED
    BY <2>1, <2>2 DEF Inv, NeverNoMem
<1>9. ASSUME OrderedChain(chain'),
             posData' < Len(chain') => filePos <= chain'[posData' + 1].offs,
             SmallWrites \/ posData' = Len(chain'),
             \A i \in DOMAIN chain' : \A p \in chain'[i].dirty : p < fileLen
      PROVE  LayoutInv'
  <2>1. Near'
    BY <1>2, <1>8, <1>9 DEF Near, BeforeNext
  <2>2. Stays'
    <3>1. CASE SmallWrites
      <4>1. num' <= MBUFSIZE
        BY <3>1, <1>1, <1>3 DEF SmallWrites
      <4>. QED
        BY <4>1, <3>1 DEF Stays, SmallWrites
    <3>2. CASE ~SmallWrites
      BY <3>2, <1>6, <1>8, <1>9 DEF Stays, NoSeek
    <3>. QED
      BY <3>1, <3>2
  <2>3. Covers'
    BY <1>1, <1>9 DEF Covers
  <2>. QED
    BY <2>1, <2>2, <2>3, <1>9, PrimedOrder DEF LayoutInv
<1>10. CASE /\ ~NeedsHead(filePos)
            /\ posData' = SeekIndex(filePos)
            /\ chain' = chain
  <2>1. SeekIndex(filePos) \in DOMAIN chain
    BY <1>1, <1>10, SeekIndexFacts DEF Inv
  <2>2. SeekIndex(filePos) < Len(chain) => filePos <= chain[SeekIndex(filePos) + 1].offs
    BY <1>1, <1>5, <1>10, SeekIndexNear DEF Inv
  <2>3. SmallWrites \/ SeekIndex(filePos) = Len(chain)
    <3>1. ASSUME \A i \in DOMAIN chain : chain[i].offs < filePos,
                 SeekIndex(filePos) < Len(chain)
          PROVE  FALSE
      <4>1. SeekIndex(filePos) + 1 \in DOMAIN chain
        BY <2>1, <3>1, <1>4
      <4>. HIDE DEF SeekIndex
      <4>. QED
        BY <4>1, <2>2, <3>1, <1>1, <1>4
    <3>. HIDE DEF SeekIndex
    <3>. QED
      BY <3>1, <2>1, <1>4, <1>6
  <2>. HIDE DEF SeekIndex
  <2>. QED
    BY <2>2, <2>3, <1>5, <1>9, <1>10
<1>11. CASE /\ NeedsHead(filePos) /\ posData' = 1
            /\ chain' = <<NewWBuf(filePos)>> \o chain
  <2>. DEFINE b == NewWBuf(filePos)
              c == <<b>> \o chain
  <2>1. /\ c \in Seq(Buffer) /\ Len(c) = Len(chain) + 1
        /\ \A k \in 1 .. Len(chain) + 1 : c[k] = IF k = 1 THEN b ELSE chain[k - 1]
    <3>. HIDE DEF b
    <3>. QED
      BY <1>4, <1>7 DEF b
  <2>2. 0 < Len(chain) => filePos < chain[1].offs
    BY <1>4, <1>11, EmptyChain DEF NeedsHead
  <2>3. OrderedChain(c)
    <3>1. \A k \in 1 .. Len(chain) + 1 :
              c[k] = IF k < 0 + 1 THEN chain[k]
                     ELSE IF k = 0 + 1 THEN b ELSE chain[k - 1]
      <4>. HIDE DEF b, c
      <4>. QED
        BY <2>1, <1>4
    <3>2. /\ 0 \in 0 .. Len(chain) /\ (0 > 0 => chain[0].offs + MBUFSIZE <= filePos)
          /\ 0 < Len(chain) => filePos < chain[0 + 1].offs
      BY <2>2, <1>4
    <3>. HIDE DEF c
    <3>. QED
      BY <3>1, <3>2, <2>1, <1>1, <1>5, OrderedInsert DEF Inv
  <2>4. ASSUME 1 < Len(c) PROVE filePos <= c[2].offs
    <3>. HIDE DEF b, c
    <3>1. c[2] = chain[1] /\ filePos < chain[1].offs /\ 1 \in DOMAIN chain
      BY <2>1, <2>2, <2>4, <1>4
    <3>. QED
      BY <3>1, <1>1, <1>4
  <2>5. SmallWrites \/ 1 = Len(c)
    <3>1. ASSUME \A i \in DOMAIN chain : chain[i].offs < filePos PROVE Len(chain) = 0
      <4>1. CASE 0 < Len(chain)
        BY <4>1, <3>1, <2>2, <1>1, <1>4
      <4>. QED
        BY <4>1, <1>4
    <3>. HIDE DEF b, c
    <3>. QED
      BY <3>1, <2>1, <1>4, <1>6
  <2>6. ASSUME NEW i \in DOMAIN c, NEW p \in c[i].dirty PROVE p < fileLen
    <3>. HIDE DEF c
    <3>1. CASE i = 1
      BY <3>1, <2>1, <2>6, <1>7 DEF b
    <3>2. CASE i # 1
      <4>1. i - 1 \in DOMAIN chain /\ c[i] = chain[i - 1]
        BY <3>2, <2>1, <2>6, <1>4
      <4>. QED
        BY <4>1, <2>6, <1>5
    <3>. QED
      BY <3>1, <3>2
  <2>7. chain' = c /\ posData' = 1 /\ 1 + 1 = 2
    BY <1>11
  <2>. HIDE DEF b, c
  <2>. QED
    BY <2>3, <2>4, <2>5, <2>6, <2>7, <1>9
<1>12. CASE posData' = 1 /\ chain' = <<NewWBuf(filePos)>>
  <2>1. DOMAIN chain' = {1} /\ chain'[1] = NewWBuf(filePos) /\ Len(chain') = 1
    BY <1>7, <1>12, OneBuffer
  <2>2. OrderedChain(chain')
    BY <1>1, <1>12, OrderedOne
  <2>. QED
    BY <2>1, <2>2, <1>7, <1>9, <1>12
<1>. QED
  BY <1>8, <1>10, <1>11, <1>12 DEF WBufSeekAndPrepare, WBufAddHead, FlushOK, data

LEMMA InsertBuffer ==
    ASSUME NEW s \in Seq(Buffer), NEW i \in 1 .. Len(s) + 1, NEW b \in Buffer
    PROVE  /\ InsertAt(s, i, b) \in Seq(Buffer)
           /\ Len(InsertAt(s, i, b)) = Len(s) + 1
           /\ \A k \in 1 .. Len(s) + 1 :
                InsertAt(s, i, b)[k] = IF k < i THEN s[k]
                                       ELSE IF k = i THEN b ELSE s[k - 1]
BY InsertAtFacts

\* A buffer is chosen or inserted for the position of a write.
LEMMA PlaceLayout ==
    ASSUME Inv, LayoutInv, InPlace, WBufPlace
    PROVE  LayoutInv'
<1>1. /\ pc = "place" /\ posData \in DOMAIN chain /\ chain[posData].offs <= WbcPos
      /\ left \in Nat /\ left > 0 /\ left <= num /\ num \in Nat /\ filePos \in Nat
      /\ posData \in Nat /\ MBUFSIZE \in Nat
  BY WriteCacheAssumption DEF WBufPlace, Inv, CallSound, TypeOK
<1>2. /\ Len(chain) \in Nat /\ DOMAIN chain = 1 .. Len(chain) /\ chain \in Seq(Buffer)
      /\ \A i \in DOMAIN chain : chain[i].offs \in Nat
  BY ChainTypes DEF Inv, TypeOK
<1>3. WbcPos \in Nat
  BY <1>1 DEF WbcPos
<1>4. /\ OrderedChain(chain) /\ BeforeNext
      /\ \A i \in DOMAIN chain : \A p \in chain[i].dirty : p < fileLen \/ p < WbcPos
  BY <1>1 DEF LayoutInv, Near, Covers
<1>5. (SmallWrites /\ num <= MBUFSIZE) \/ (NoSeek /\ posData = Len(chain))
  BY <1>1 DEF LayoutInv, Stays, InCall
<1>6. CASE WriteFlushFails
  BY <1>6, EmptyLayout DEF WriteFlushFails, FlushFails
<1>7. CASE /\ PlaceHere \/ PlaceNext \/ PlaceInsert \/ PlaceAfterFlush
           /\ pc' = "copy"
           /\ UNCHANGED <<num, left, file, told>>
  <2>1. WbcPos' = WbcPos /\ fileLen' = fileLen /\ num' = num /\ left' = left
    BY <1>7 DEF WbcPos, file
  <2>2. ASSUME OrderedChain(chain'),
               \/ /\ target' = posData'
                  /\ posData' < Len(chain') => WbcPos <= chain'[posData' + 1].offs
               \/ /\ target' = posData' + 1 /\ WbcPos = chain'[target'].offs
                  /\ left <= MBUFSIZE,
               posData = Len(chain) => posData' = Len(chain'),
               \A i \in DOMAIN chain' : \A p \in chain'[i].dirty :
                  p < fileLen \/ p < WbcPos
        PROVE  LayoutInv'
    <3>1. Near'
      BY <1>7, <2>1, <2>2 DEF Near, BeforeNext
    <3>2. Stays'
      <4>1. CASE SmallWrites /\ num <= MBUFSIZE
        BY <4>1, <2>1 DEF Stays, SmallWrites
      <4>2. CASE NoSeek /\ posData = Len(chain)
        BY <4>2, <2>2, <1>7 DEF Stays, NoSeek
      <4>. QED
        BY <4>1, <4>2, <1>5
    <3>3. Covers'
      BY <1>7, <2>1, <2>2 DEF Covers, InCall
    <3>. QED
      BY <3>1, <3>2, <3>3, <2>2, PrimedOrder DEF LayoutInv
  <2>3. CASE PlaceHere
    <3>1. target' = posData /\ posData' = posData /\ chain' = chain
      BY <2>3 DEF PlaceHere
    <3>. QED
      BY <3>1, <2>2, <1>4 DEF BeforeNext
  <2>4. CASE PlaceNext
    <3>1. /\ target' = posData + 1 /\ posData' = posData /\ chain' = chain
          /\ posData < Len(chain) /\ Holds(chain[posData + 1], WbcPos)
      BY <2>4 DEF PlaceNext, NextHolds
    <3>2. posData + 1 \in DOMAIN chain
      BY <3>1, <1>1, <1>2
    <3>3. WbcPos = chain[posData + 1].offs
      BY <3>1, <3>2, <1>2, <1>3, <1>4 DEF Holds, BeforeNext
    <3>4. left <= MBUFSIZE
      BY <3>1, <1>1, <1>2, <1>5
    <3>. QED
      BY <3>1, <3>3, <3>4, <2>2, <1>4
  <2>5. CASE PlaceInsert
    <3>. DEFINE b == NewWBuf(WbcPos)
                c == InsertAt(chain, posData + 1, b)
    <3>1. /\ target' = posData + 1 /\ posData' = posData + 1 /\ chain' = c
          /\ WbcPos >= chain[posData].offs + MBUFSIZE /\ ~NextHolds(WbcPos)
      BY <2>5 DEF PlaceInsert, NeedsInsert, InsertAfter
    <3>2. posData + 1 \in 1 .. Len(chain) + 1 /\ posData \in 0 .. Len(chain)
      BY <1>1, <1>2
    <3>3. b \in Buffer /\ b.dirty = {}
      BY <1>3, NewBufferFacts
    <3>. HIDE DEF b, c
    <3>4. /\ c \in Seq(Buffer) /\ Len(c) = Len(chain) + 1
          /\ \A k \in 1 .. Len(chain) + 1 :
               c[k] = IF k < posData + 1 THEN chain[k]
                      ELSE IF k = posData + 1 THEN b ELSE chain[k - 1]
      <4>1. /\ chain \in Seq(Buffer) /\ b \in Buffer
            /\ posData + 1 \in 1 .. Len(chain) + 1
        BY <1>2, <3>2, <3>3
      <4>2. PICK i : i = posData + 1
        OBVIOUS
      <4>3. PICK d : d = InsertAt(chain, i, b)
        OBVIOUS
      <4>4. /\ d \in Seq(Buffer) /\ Len(d) = Len(chain) + 1
            /\ \A k \in 1 .. Len(chain) + 1 :
                 d[k] = IF k < i THEN chain[k] ELSE IF k = i THEN b ELSE chain[k - 1]
        <5>1. i \in 1 .. Len(chain) + 1
          BY <4>1, <4>2
        <5>2. chain \in Seq(Buffer) /\ b \in Buffer
          BY <4>1
        <5>3. /\ InsertAt(chain, i, b) \in Seq(Buffer)
              /\ Len(InsertAt(chain, i, b)) = Len(chain) + 1
              /\ \A k \in 1 .. Len(chain) + 1 :
                   InsertAt(chain, i, b)[k] = IF k < i THEN chain[k]
                                              ELSE IF k = i THEN b ELSE chain[k - 1]
          BY <5>1, <5>2, InsertBuffer, Zenon
        <5>. QED
          BY <4>3, <5>3, Zenon
      <4>5. c = d
        BY <4>2, <4>3 DEF c
      <4>. QED
        BY <4>2, <4>4, <4>5
    <3>5. ASSUME posData < Len(chain) PROVE WbcPos < chain[posData + 1].offs
      <4>1. posData + 1 \in DOMAIN chain
        BY <3>5, <1>1, <1>2
      <4>2. WbcPos <= chain[posData + 1].offs /\ ~Holds(chain[posData + 1], WbcPos)
        BY <3>1, <3>5, <1>4 DEF BeforeNext, NextHolds
      <4>. QED
        BY <4>1, <4>2, <1>2, <1>3, WriteCacheAssumption DEF Holds
    <3>6. chain[posData].offs + MBUFSIZE <= WbcPos
      BY <3>1, <1>1, <1>2, <1>3
    <3>7. OrderedChain(c)
      BY <3>2, <3>4, <3>5, <3>6, <1>3, <1>4, OrderedInsert DEF b, Inv
    <3>8. ASSUME posData + 1 < Len(c) PROVE WbcPos <= c[posData + 1 + 1].offs
      <4>1. posData < Len(chain) /\ posData + 1 \in DOMAIN chain
        BY <3>4, <3>8, <1>1, <1>2
      <4>2. c[posData + 1 + 1] = chain[posData + 1]
        BY <4>1, <3>4, <1>1, <1>2
      <4>. QED
        BY <4>1, <4>2, <3>5, <1>2, <1>3
    <3>9. ASSUME NEW i \in DOMAIN c, NEW p \in c[i].dirty
          PROVE  p < fileLen \/ p < WbcPos
      <4>1. i \in 1 .. Len(chain) + 1
        BY <3>4, <3>9
      <4>2. CASE i < posData + 1
        <5>1. i \in DOMAIN chain /\ c[i] = chain[i]
          BY <4>1, <4>2, <3>2, <3>4, <1>2
        <5>. QED
          BY <5>1, <3>9, <1>4
      <4>3. CASE i = posData + 1
        BY <4>1, <4>3, <3>3, <3>4, <3>9
      <4>4. CASE i > posData + 1
        <5>1. i - 1 \in DOMAIN chain /\ c[i] = chain[i - 1]
          BY <4>1, <4>4, <3>2, <3>4, <1>2
        <5>. QED
          BY <5>1, <3>9, <1>4
      <4>. QED
        BY <4>1, <4>2, <4>3, <4>4, <1>1
    <3>10. posData = Len(chain) => posData + 1 = Len(c)
      BY <3>4
    <3>. QED
      BY <3>1, <3>7, <3>8, <3>9, <3>10, <2>2, Zenon
  <2>6. CASE PlaceAfterFlush
    <3>1. target' = 1 /\ posData' = 1 /\ chain' = <<NewWBuf(WbcPos)>>
      BY <2>6 DEF PlaceAfterFlush, FlushOK
    <3>2. NewWBuf(WbcPos) \in Buffer /\ NewWBuf(WbcPos).dirty = {}
      BY <1>3, NewBufferFacts
    <3>3. DOMAIN chain' = {1} /\ chain'[1] = NewWBuf(WbcPos) /\ Len(chain') = 1
      BY <3>1, <3>2, OneBuffer
    <3>4. OrderedChain(chain')
      BY <3>1, <1>3, OrderedOne
    <3>. QED
      BY <3>1, <3>2, <3>3, <3>4, <2>2
  <2>. QED
    BY <2>3, <2>4, <2>5, <2>6, <1>7
<1>. QED
  BY <1>6, <1>7 DEF WBufPlace

\* Bytes are copied up to the end of the buffer.
LEMMA CopyLayout ==
    ASSUME Inv, LayoutInv, WBufCopy
    PROVE  LayoutInv'
<1>1. /\ pc = "copy" /\ pc' = "check" /\ left' = left - Cnt /\ num' = num
      /\ posData' = posData /\ fileLen' = fileLen
      /\ posData \in DOMAIN chain /\ target \in DOMAIN chain
      /\ Holds(chain[target], WbcPos) /\ chain[posData].offs <= WbcPos
      /\ left \in Nat /\ MBUFSIZE \in Nat /\ posData \in Nat /\ fileLen \in Nat
  BY WriteCacheAssumption DEF WBufCopy, Inv, CallSound, TypeOK, file
<1>2. /\ Len(chain) \in Nat /\ DOMAIN chain = 1 .. Len(chain)
      /\ \A i \in DOMAIN chain : /\ chain[i].offs \in Nat
                                 /\ chain[i].dirty \subseteq Offsets
  BY ChainTypes DEF Inv
<1>3. /\ OrderedChain(chain') /\ DOMAIN chain' = DOMAIN chain
      /\ Len(chain') = Len(chain)
      /\ \A i \in DOMAIN chain : chain'[i].offs = chain[i].offs
      /\ \A i \in DOMAIN chain : i # target => chain'[i].dirty = chain[i].dirty
      /\ chain'[target].dirty = chain[target].dirty \cup Copied
      /\ Cnt \in Nat /\ Cnt > 0 /\ Cnt <= left /\ WbcPos' = WbcPos + Cnt
      /\ WbcPos \in Nat /\ WbcPos + Cnt <= chain[target].offs + MBUFSIZE
      /\ left - Cnt > 0 => WbcPos' = chain[target].offs + MBUFSIZE
  BY OrderedCopy DEF LayoutInv
<1>4. \/ target = posData
      \/ target = posData + 1 /\ WbcPos = chain[target].offs /\ left <= MBUFSIZE
  BY <1>1 DEF LayoutInv, Near
<1>5. Near'
  <2>. HIDE DEF Cnt, WbcPos
  <2>1. ASSUME left' > 0, posData < Len(chain)
        PROVE  WbcPos' <= chain[posData + 1].offs
    <3>1. CASE target = posData
      <4>1. posData + 1 \in DOMAIN chain
        BY <2>1, <1>1, <1>2
      <4>2. chain[posData].offs + MBUFSIZE <= chain[posData + 1].offs
        BY <4>1, <1>1, <1>2 DEF LayoutInv, OrderedChain
      <4>. QED
        BY <4>2, <3>1, <2>1, <1>1, <1>3
    <3>2. CASE target = posData + 1 /\ WbcPos = chain[target].offs /\ left <= MBUFSIZE
      BY <3>2, <2>1, <1>1, <1>2, <1>3
    <3>. QED
      BY <3>1, <3>2, <1>4
  <2>2. BeforeNext' <=> (posData' < Len(chain') => WbcPos' <= chain'[posData' + 1].offs)
    BY DEF BeforeNext
  <2>3. ASSUME left' > 0 PROVE BeforeNext'
    BY <2>1, <2>2, <2>3, <1>1, <1>2, <1>3
  <2>. QED
    BY <2>3, <1>1 DEF Near
<1>6. Stays'
  <2>1. CASE SmallWrites /\ num <= MBUFSIZE
    BY <2>1, <1>1 DEF Stays, SmallWrites
  <2>2. CASE NoSeek /\ posData = Len(chain)
    <3>. HIDE DEF Cnt, WbcPos
    <3>1. chain'[posData].offs < WbcPos'
      BY <1>1, <1>2, <1>3
    <3>. QED
      BY <3>1, <2>2, <1>1, <1>3 DEF Stays, NoSeek
  <2>. QED
    BY <2>1, <2>2, <1>1 DEF LayoutInv, Stays, InCall
<1>7. Covers'
  <2>1. \A i \in DOMAIN chain : \A p \in chain[i].dirty : p < fileLen \/ p < WbcPos
    BY DEF LayoutInv, Covers
  <2>2. \A p \in Copied : p < WbcPos'
    <3>. HIDE DEF Cnt, WbcPos
    <3>. QED
      BY <1>3 DEF Copied
  <2>. HIDE DEF Cnt, WbcPos, Copied
  <2>3. ASSUME NEW i \in DOMAIN chain, NEW p \in chain'[i].dirty
        PROVE  p < fileLen \/ p < WbcPos'
    <3>1. CASE p \in chain[i].dirty
      <4>1. p \in Nat
        BY <3>1, <1>2 DEF Offsets
      <4>. QED
        BY <4>1, <3>1, <2>1, <1>1, <1>3
    <3>2. CASE p \notin chain[i].dirty
      BY <3>2, <2>2, <2>3, <1>3
    <3>. QED
      BY <3>1, <3>2
  <2>. QED
    BY <2>3, <1>1, <1>3 DEF Covers, InCall
<1>. QED
  BY <1>3, <1>5, <1>6, <1>7, PrimedOrder DEF LayoutInv

\* After the copy: the write goes on, ends, or empties the cache.
LEMMA CheckLayout ==
    ASSUME Inv, LayoutInv, InPlace, WBufCheckInfo
    PROVE  LayoutInv'
<1>1. /\ pc = "check" /\ posData \in DOMAIN chain
      /\ left \in Nat /\ left <= num /\ num \in Nat /\ filePos \in Nat /\ fileLen \in Nat
      /\ MBUFSIZE \in Nat
  BY WriteCacheAssumption DEF WBufCheckInfo, Inv, CallSound, TypeOK
<1>2. /\ Len(chain) \in Nat /\ DOMAIN chain = 1 .. Len(chain)
      /\ \A i \in DOMAIN chain : /\ chain[i].offs \in Nat
                                 /\ chain[i].dirty \subseteq Offsets
  BY ChainTypes DEF Inv
<1>3. CASE WriteFlushFails
  BY <1>3, EmptyLayout DEF WriteFlushFails, FlushFails
<1>4. CASE CheckFlush
  BY <1>4, EmptyLayout DEF CheckFlush, FlushOK, WriteDone
<1>5. CASE CheckKeep /\ left # 0
  <2>1. /\ chain' = chain /\ pc' = "place" /\ WbcPos' = WbcPos /\ num' = num
        /\ posData' = posData /\ fileLen' = fileLen /\ filePos' = filePos
    BY <1>5 DEF CheckKeep, data, call, WbcPos
  <2>2. OrderedChain(chain) /\ BeforeNext
    BY <1>1, <1>5 DEF LayoutInv, Near
  <2>3. Near'
    BY <2>1, <2>2 DEF Near, BeforeNext
  <2>4. Stays'
    BY <2>1, <1>1 DEF LayoutInv, Stays, SmallWrites, NoSeek, InCall
  <2>5. Covers'
    BY <2>1, <1>1 DEF LayoutInv, Covers, InCall
  <2>. QED
    BY <2>1, <2>2, <2>3, <2>4, <2>5, PrimedOrder DEF LayoutInv
<1>6. CASE CheckKeep /\ left = 0
  <2>1. /\ chain' = chain /\ pc' = "idle" /\ filePos' = filePos + num
        /\ fileLen' = Larger(fileLen, filePos + num)
    BY <1>6 DEF CheckKeep, WriteDone, data
  <2>2. WbcPos = filePos + num
    BY <1>1, <1>6 DEF WbcPos
  <2>3. fileLen' \in Nat /\ fileLen <= fileLen' /\ WbcPos <= fileLen'
    BY <2>1, <2>2, <1>1 DEF Larger
  <2>4. Stays'
    <3>1. CASE SmallWrites
      BY <3>1, <2>1 DEF Stays, SmallWrites, InCall
    <3>2. CASE NoSeek /\ posData = Len(chain) /\ chain[posData].offs < WbcPos
      <4>1. ASSUME NEW i \in DOMAIN chain PROVE chain[i].offs < filePos'
        <5>1. CASE i = Len(chain)
          BY <5>1, <3>2, <2>1, <2>2
        <5>2. CASE i < Len(chain)
          <6>1. chain[i].offs + MBUFSIZE <= chain[posData].offs
            BY <5>2, <3>2, <1>1 DEF LayoutInv, OrderedChain
          <6>. QED
            BY <6>1, <3>2, <2>1, <2>2, <1>1, <1>2
        <5>. QED
          BY <5>1, <5>2, <1>2
      <4>. QED
        BY <4>1, <3>2, <2>1 DEF Stays, NoSeek, InCall
    <3>. QED
      BY <3>1, <3>2, <1>1 DEF LayoutInv, Stays, InCall
  <2>5. Covers'
    <3>1. ASSUME NEW i \in DOMAIN chain, NEW p \in chain[i].dirty PROVE p < fileLen'
      <4>1. p < fileLen \/ p < WbcPos
        BY DEF LayoutInv, Covers
      <4>2. p \in Nat
        BY <1>2 DEF Offsets
      <4>3. WbcPos \in Nat
        BY <2>2, <1>1
      <4>. HIDE DEF WbcPos
      <4>. QED
        BY <4>1, <4>2, <4>3, <2>3, <1>1
    <3>. QED
      BY <3>1, <2>1 DEF Covers
  <2>6. Near'
    BY <2>1 DEF Near
  <2>. QED
    BY <2>1, <2>4, <2>5, <2>6, PrimedOrder DEF LayoutInv
<1>. QED
  BY <1>3, <1>4, <1>5, <1>6 DEF WBufCheckInfo

LEMMA WriteLayout ==
    ASSUME Inv, LayoutInv, InPlace, act_WRITE
    PROVE  LayoutInv'
<1>1. pc = "idle" /\ UNCHANGED <<hasWBuf, other>>
  BY DEF act_WRITE
<1>2. CASE WriteNothing
  BY <1>1, <1>2, EmptyLayout
  DEF WriteNothing, FlushOK, WriteFlushFails, FlushFails
<1>3. CASE \E n \in Sizes : wc_WriteCache(n)
  <2>1. PICK n \in Sizes : wc_WriteCache(n)
    BY <1>3
  <2>2. n > 0 /\ filePos + n <= MaxFile
    BY <2>1 DEF wc_WriteCache
  <2>3. CASE FlushCacheAndWrite(n)
    BY <2>3, <1>1, EmptyLayout
    DEF FlushCacheAndWrite, DirectWriteOK, DirectWriteFails, WriteFlushFails, FlushFails
  <2>4. CASE WBufSeekAndPrepare(n)
    BY <2>2, <2>4, <1>1, PrepareLayout
  <2>5. CASE PrepareFlushFails(n)
    BY <2>5, EmptyLayout DEF PrepareFlushFails, WriteFlushFails, FlushFails
  <2>. QED
    BY <2>1, <2>3, <2>4, <2>5 DEF wc_WriteCache
<1>. QED
  BY <1>2, <1>3 DEF act_WRITE

LEMMA PacketsLayout ==
    ASSUME Inv, LayoutInv, InPlace,
           \/ ReportPending \/ act_SEEK \/ act_FLUSH \/ act_SET_FILE_SIZE
           \/ act_END \/ act_FINDOUTPUT \/ OtherHandles
    PROVE  LayoutInv'
<1>1. CASE act_FLUSH \/ act_SET_FILE_SIZE \/ act_END
  BY <1>1, EmptyLayout
  DEF act_FLUSH, act_SET_FILE_SIZE, act_END, FlushOK, FlushFails
<1>2. CASE act_FINDOUTPUT
  <2>1. chain' = <<>> /\ pc' = "idle"
    BY <1>2 DEF act_FINDOUTPUT, Inv, CallSound
  <2>. QED
    BY <2>1, EmptyLayout
<1>3. ASSUME pc \in {"idle", "closed"}, pc' = pc, chain' = chain, fileLen' = fileLen,
             filePos' = filePos \/ ~NoSeek
      PROVE  LayoutInv'
  <2>1. Near' /\ Covers'
    BY <1>3 DEF LayoutInv, Near, Covers, InCall
  <2>2. Stays'
    BY <1>3 DEF LayoutInv, Stays, InCall, SmallWrites, NoSeek
  <2>3. OrderedChain(chain')
    BY <1>3 DEF LayoutInv
  <2>. QED
    BY <2>1, <2>2, <2>3, PrimedOrder DEF LayoutInv
<1>4. CASE ReportPending
  BY <1>3, <1>4 DEF ReportPending, data
<1>5. CASE act_SEEK
  BY <1>3, <1>5 DEF act_SEEK, data, NoSeek
<1>6. CASE OtherHandles
  BY <1>3, <1>6 DEF OtherHandles, file
<1>. QED
  BY <1>1, <1>2, <1>4, <1>5, <1>6

LEMMA NextLayout ==
    ASSUME Inv, LayoutInv, InPlace, [Next]_vars
    PROVE  LayoutInv'
<1>1. CASE UNCHANGED vars
  <2>1. OrderedChain(chain')
    BY <1>1 DEF vars, LayoutInv
  <2>2. Near' /\ Stays' /\ Covers'
    BY <1>1 DEF vars, LayoutInv, Near, Stays, Covers, BeforeNext, InCall, WbcPos,
                SmallWrites, NoSeek
  <2>. QED
    BY <2>1, <2>2, PrimedOrder DEF LayoutInv
<1>2. CASE Next
  BY <1>2, WriteLayout, PlaceLayout, CopyLayout, CheckLayout, PacketsLayout DEF Next
<1>. QED
  BY <1>1, <1>2

\* The layout has the properties the comments of wbuf.c ask for.
LEMMA LayoutSuffices ==
    ASSUME Inv, LayoutInv
    PROVE  CacheSound
<1>1. /\ Len(chain) \in Nat /\ DOMAIN chain = 1 .. Len(chain)
      /\ \A i \in DOMAIN chain : chain[i].offs \in Nat
      /\ MBUFSIZE \in Nat
  BY ChainTypes, WriteCacheAssumption DEF Inv
<1>2. ChainSorted
  BY DEF ChainSorted, LayoutInv, OrderedChain
<1>3. WBufWriteRequires
  <2>. SUFFICES ASSUME pc = "place"
                PROVE  /\ posData \in DOMAIN chain
                       /\ \/ Holds(chain[posData], WbcPos)
                          \/ NextHolds(WbcPos)
                          \/ /\ chain[posData].offs < WbcPos
                             /\ posData < Len(chain) => WbcPos < chain[posData + 1].offs
                             /\ \A i \in DOMAIN chain : ~Holds(chain[i], WbcPos)
    BY DEF WBufWriteRequires
  <2>1. /\ posData \in DOMAIN chain /\ chain[posData].offs <= WbcPos
        /\ filePos \in Nat /\ num \in Nat /\ left \in Nat /\ left <= num
    BY DEF Inv, CallSound, TypeOK
  <2>2. WbcPos \in Nat
    BY <2>1 DEF WbcPos
  <2>. HIDE DEF WbcPos
  <2>3. BeforeNext
    BY DEF LayoutInv, Near
  <2>4. SUFFICES ASSUME ~Holds(chain[posData], WbcPos), ~NextHolds(WbcPos)
                 PROVE  /\ chain[posData].offs < WbcPos
                        /\ posData < Len(chain) => WbcPos < chain[posData + 1].offs
                        /\ \A i \in DOMAIN chain : ~Holds(chain[i], WbcPos)
    BY <2>1
  <2>5. chain[posData].offs + MBUFSIZE <= WbcPos /\ chain[posData].offs < WbcPos
    BY <2>1, <2>2, <2>4, <1>1, WriteCacheAssumption DEF Holds
  <2>6. ASSUME posData < Len(chain) PROVE WbcPos < chain[posData + 1].offs
    <3>1. posData + 1 \in DOMAIN chain
      BY <2>1, <2>6, <1>1
    <3>. QED
      BY <3>1, <2>2, <2>3, <2>4, <2>6, <1>1, WriteCacheAssumption
      DEF NextHolds, BeforeNext, Holds
  <2>7. ASSUME NEW i \in DOMAIN chain PROVE ~Holds(chain[i], WbcPos)
    <3>1. CASE i = posData
      BY <3>1, <2>4
    <3>2. CASE i < posData
      <4>1. chain[i].offs + MBUFSIZE <= chain[posData].offs
        BY <3>2, <2>1, <1>2 DEF ChainSorted
      <4>. QED
        BY <4>1, <2>1, <2>2, <1>1 DEF Holds
    <3>3. CASE i = posData + 1
      BY <3>3, <2>1, <2>2, <2>6, <1>1 DEF Holds
    <3>4. CASE i > posData + 1
      <4>1. posData + 1 \in DOMAIN chain /\ posData < Len(chain)
        BY <3>4, <2>1, <1>1
      <4>2. chain[posData + 1].offs + MBUFSIZE <= chain[i].offs
        BY <3>4, <4>1, <1>2 DEF ChainSorted
      <4>. QED
        BY <4>1, <4>2, <2>2, <2>6, <1>1 DEF Holds
    <3>. QED
      BY <3>1, <3>2, <3>3, <3>4, <2>1, <1>1
  <2>. QED
    BY <2>5, <2>6, <2>7
<1>4. LengthCoversBuffers
  BY DEF LengthCoversBuffers, Buffered, LayoutInv, Covers, InCall
<1>. QED
  BY <1>2, <1>3, <1>4 DEF CacheSound, Inv

LEMMA LayoutHolds == InPlace => (Spec => []LayoutInv)
<1>. SUFFICES ASSUME InPlace PROVE Spec => []LayoutInv
  OBVIOUS
<1>1. Init => LayoutInv
  <2>. SUFFICES ASSUME Init PROVE LayoutInv
    OBVIOUS
  <2>1. chain = <<>> /\ pc = "closed"
    BY DEF Init
  <2>2. OrderedChain(chain) /\ DOMAIN chain = {}
    BY <2>1, OrderedEmpty, EmptyChain
  <2>. QED
    BY <2>1, <2>2 DEF LayoutInv, Near, Stays, Covers, InCall, InPlace
<1>2. Inv /\ LayoutInv /\ [Next]_vars => LayoutInv'
  BY NextLayout
<1>. QED
  BY <1>1, <1>2, Invariance, PTL DEF Spec

\* The chain stays sorted, WBufWrite finds PosData where it requires it and
\* efh_FileLen covers the buffers, for every client that writes without
\* seeking, and for one that seeks if its buffered writes fit into a buffer.
THEOREM CacheStaysSound == InPlace => (Spec => []CacheSound)
<1>1. Inv /\ LayoutInv => CacheSound
  BY LayoutSuffices
<1>. QED
  BY <1>1, Invariance, LayoutHolds, PTL

-----------------------------------------------------------------------------
(***************************************************************************)
(* Losses.  In an ordered chain a byte that is not on the server is in a   *)
(* buffer, the client has been told of it, or an error waits for it.       *)
(***************************************************************************)
InBuffer(p) == \E i \in DOMAIN chain : p \in chain[i].dirty

Accounted ==
    /\ res2 => pc = "idle" /\ chain = <<>>
    /\ res2 \/ \A p \in behind : p \in told \/ InBuffer(p)

\* A complete flush leaves behind only what was in no buffer.
LEMMA FlushedBytes ==
    ASSUME TypeOK, OrderedChain(chain), NEW p \in BehindAfter(AllSent)
    PROVE  p \in behind /\ ~InBuffer(p)
<1>. DEFINE H == Holders(AllSent, p)
<1>1. H = {i \in DOMAIN chain : p \in chain[i].dirty}
  BY DEF Holders, AllSent
<1>2. ASSUME H # {} PROVE chain[Max(H)].old = {}
  <2>1. Len(chain) \in Nat /\ H \in SUBSET (0 .. Len(chain))
    BY <1>1, ChainTypes
  <2>2. Max(H) \in H
    BY <2>1, <1>2, MaxOfBounded, Zenon
  <2>3. Max(H) \in DOMAIN chain
    BY <2>2, <1>1, Zenon
  <2>. HIDE DEF H, Max
  <2>. QED
    BY <2>3 DEF OrderedChain
<1>3. (p \in behind /\ H = {}) \/ (H # {} /\ p \in chain[Max(H)].old)
  BY Zenon DEF BehindAfter
<1>4. p \in behind /\ H = {}
  <2>. HIDE DEF H
  <2>. QED
    BY <1>2, <1>3
<1>. QED
  BY <1>1, <1>4 DEF InBuffer

\* What a complete flush leaves behind, the client knows of.
LEMMA FlushedTold ==
    ASSUME Inv, LayoutInv, Accounted, ~res2
    PROVE  BehindAfter(AllSent) \subseteq told
BY FlushedBytes DEF Inv, LayoutInv, Accounted

\* An error that is returned after the chain was emptied tells of all losses.
LEMMA ReportedAll ==
    ASSUME Report, chain' = <<>>
    PROVE  behind' \subseteq told'
<1>1. DOMAIN chain' = {}
  BY EmptyChain
<1>. QED
  BY <1>1 DEF Report

LEMMA NothingUntold ==
    ASSUME res2' = FALSE, behind' \subseteq told'
    PROVE  Accounted'
BY DEF Accounted

LEMMA FailedWriteAccounted ==
    ASSUME ~res2, res2 \in BOOLEAN, WriteFlushFails
    PROVE  Accounted'
<1>1. chain' = <<>> /\ Report /\ res2' = FALSE
  BY DEF WriteFlushFails, FlushFails, file
<1>. QED
  BY <1>1, ReportedAll, NothingUntold

\* The chain keeps its bytes and gets an empty buffer, or none.
LEMMA KeptAccounted ==
    ASSUME Accounted, res2 = FALSE, res2' = FALSE, behind' = behind, told' = told,
           \A i \in DOMAIN chain : \E j \in DOMAIN chain' : chain'[j] = chain[i]
    PROVE  Accounted'
BY DEF Accounted, InBuffer

LEMMA WriteAccounted ==
    ASSUME Inv, LayoutInv, Accounted, act_WRITE
    PROVE  Accounted'
<1>1. pc = "idle" /\ res2 = FALSE
  BY DEF act_WRITE, Inv, TypeOK
<1>2. BehindAfter(AllSent) \subseteq told
  BY <1>1, FlushedTold
<1>3. CASE WriteNothing
  <2>1. CASE FlushOK(<<>>) /\ UNCHANGED <<pc, call, file, told>>
    BY <2>1, <1>1, <1>2, NothingUntold DEF FlushOK, file
  <2>2. CASE WriteFlushFails
    BY <2>2, <1>1, FailedWriteAccounted
  <2>. QED
    BY <2>1, <2>2, <1>3 DEF WriteNothing
<1>4. CASE \E n \in Sizes : wc_WriteCache(n)
  <2>1. PICK n \in Sizes : wc_WriteCache(n)
    BY <1>4
  <2>2. CASE DirectWriteOK(n)
    BY <2>2, <1>1, <1>2, NothingUntold DEF DirectWriteOK
  <2>3. CASE DirectWriteFails(n)
    BY <2>3, <1>1, ReportedAll, NothingUntold DEF DirectWriteFails, file
  <2>4. CASE WriteFlushFails
    BY <2>4, <1>1, FailedWriteAccounted
  <2>5. CASE WBufSeekAndPrepare(n)
    <3>1. res2' = FALSE /\ told' = told
      BY <2>5, <1>1 DEF WBufSeekAndPrepare, file
    <3>2. CASE behind' = behind /\ chain' = chain
      BY <3>1, <3>2, <1>1, KeptAccounted
    <3>3. CASE behind' = behind /\ chain' = <<NewWBuf(filePos)>> \o chain
      <4>. DEFINE b == NewWBuf(filePos)
                  c == <<b>> \o chain
      <4>1. filePos \in Nat /\ b \in Buffer /\ chain \in Seq(Buffer)
        BY NewBufferFacts DEF Inv, TypeOK
      <4>. HIDE DEF b
      <4>2. \A i \in DOMAIN chain : i + 1 \in DOMAIN c /\ c[i + 1] = chain[i]
        BY <4>1
      <4>3. chain' = c
        BY <3>3 DEF b
      <4>. HIDE DEF c
      <4>. QED
        BY <4>2, <4>3, <3>1, <3>3, <1>1, KeptAccounted
    <3>4. CASE FlushOK(<<NewWBuf(filePos)>>)
      BY <3>1, <3>4, <1>2, NothingUntold DEF FlushOK
    <3>. QED
      BY <3>2, <3>3, <3>4, <2>5 DEF WBufSeekAndPrepare, WBufAddHead, data
  <2>. QED
    BY <2>1, <2>2, <2>3, <2>4, <2>5
    DEF wc_WriteCache, FlushCacheAndWrite, PrepareFlushFails
<1>. QED
  BY <1>3, <1>4 DEF act_WRITE

LEMMA PlaceAccounted ==
    ASSUME Inv, LayoutInv, Accounted, WBufPlace
    PROVE  Accounted'
<1>1. pc = "place" /\ res2 = FALSE
  BY DEF WBufPlace, Inv, TypeOK, Accounted
<1>2. BehindAfter(AllSent) \subseteq told
  BY <1>1, FlushedTold
<1>3. CASE WriteFlushFails
  BY <1>1, <1>3, FailedWriteAccounted
<1>4. CASE PlaceHere \/ PlaceNext \/ PlaceInsert \/ PlaceAfterFlush
  <2>0. CASE WriteFlushFails
    BY <2>0, <1>3
  <2>1. CASE res2' = FALSE /\ told' = told
    <3>1. CASE PlaceHere \/ PlaceNext
      BY <2>1, <3>1, <1>1, KeptAccounted DEF PlaceHere, PlaceNext
    <3>2. CASE PlaceInsert
      <4>. DEFINE b == NewWBuf(WbcPos)
                  c == InsertAt(chain, posData + 1, b)
      <4>1. /\ chain \in Seq(Buffer) /\ Len(chain) \in Nat /\ DOMAIN chain = 1 .. Len(chain)
            /\ posData \in DOMAIN chain /\ filePos \in Nat /\ num \in Nat /\ left \in Nat
            /\ left <= num
        BY <1>1, ChainTypes DEF Inv, TypeOK, CallSound
      <4>2. WbcPos \in Nat
        BY <4>1 DEF WbcPos
      <4>3. b \in Buffer
        BY <4>2, NewBufferFacts
      <4>4. posData + 1 \in 1 .. Len(chain) + 1
        BY <4>1
      <4>. HIDE DEF b
      <4>5. /\ c \in Seq(Buffer) /\ Len(c) = Len(chain) + 1
            /\ \A k \in 1 .. Len(chain) + 1 :
                 c[k] = IF k < posData + 1 THEN chain[k]
                        ELSE IF k = posData + 1 THEN b ELSE chain[k - 1]
        <5>1. PICK i : i = posData + 1
          OBVIOUS
        <5>2. PICK d : d = InsertAt(chain, i, b)
          OBVIOUS
        <5>3. /\ d \in Seq(Buffer) /\ Len(d) = Len(chain) + 1
              /\ \A k \in 1 .. Len(chain) + 1 :
                   d[k] = IF k < i THEN chain[k] ELSE IF k = i THEN b ELSE chain[k - 1]
          <6>1. /\ chain \in Seq(Buffer) /\ b \in Buffer
                /\ i \in 1 .. Len(chain) + 1
            BY <4>1, <4>3, <4>4, <5>1
          <6>2. /\ InsertAt(chain, i, b) \in Seq(Buffer)
                /\ Len(InsertAt(chain, i, b)) = Len(chain) + 1
                /\ \A k \in 1 .. Len(chain) + 1 :
                     InsertAt(chain, i, b)[k] =
                         IF k < i THEN chain[k] ELSE IF k = i THEN b ELSE chain[k - 1]
            BY <6>1, InsertBuffer, Zenon
          <6>. QED
            BY <6>2, <5>2, Zenon
        <5>4. c = d
          BY <5>1, <5>2 DEF c
        <5>. HIDE DEF c
        <5>. QED
          BY <5>1, <5>3, <5>4
      <4>6. chain' = c /\ behind' = behind
        BY <3>2 DEF PlaceInsert, InsertAfter, b
      <4>. HIDE DEF c
      <4>7. ASSUME NEW i \in DOMAIN chain PROVE \E j \in DOMAIN c : c[j] = chain[i]
        <5>1. CASE i < posData + 1
          <6>1. i \in DOMAIN c /\ c[i] = chain[i]
            BY <5>1, <4>1, <4>5
          <6>. QED
            BY <6>1
        <5>2. CASE ~(i < posData + 1)
          <6>1. i + 1 \in DOMAIN c /\ c[i + 1] = chain[i]
            BY <5>2, <4>1, <4>5
          <6>. QED
            BY <6>1
        <5>. QED
          BY <5>1, <5>2
      <4>. QED
        BY <4>6, <4>7, <2>1, <1>1, KeptAccounted
    <3>3. CASE PlaceAfterFlush
      BY <2>1, <3>3, <1>2, NothingUntold DEF PlaceAfterFlush, FlushOK
    <3>. QED
      BY <3>1, <3>2, <3>3, <1>4
  <2>. QED
    BY <2>0, <2>1, <1>1 DEF WBufPlace, file
<1>. QED
  BY <1>3, <1>4 DEF WBufPlace

LEMMA CopyAccounted ==
    ASSUME Inv, LayoutInv, Accounted, WBufCopy
    PROVE  Accounted'
<1>1. /\ pc = "copy" /\ res2 = FALSE /\ res2' = FALSE /\ target \in DOMAIN chain
      /\ behind' = behind \cup Copied /\ told' = told \ Copied
  BY DEF WBufCopy, Inv, TypeOK, Accounted, CallSound, file
<1>2. /\ DOMAIN chain' = DOMAIN chain
      /\ \A i \in DOMAIN chain : i # target => chain'[i].dirty = chain[i].dirty
      /\ chain'[target].dirty = chain[target].dirty \cup Copied
  BY OrderedCopy DEF LayoutInv
<1>. HIDE DEF Copied
<1>3. \A p : InBuffer(p)' <=> \E i \in DOMAIN chain' : p \in chain'[i].dirty
  BY DEF InBuffer
<1>4. ASSUME NEW p \in behind' PROVE p \in told' \/ InBuffer(p)'
  <2>1. CASE p \in Copied
    BY <2>1, <1>1, <1>2, <1>3
  <2>2. CASE p \notin Copied
    <3>1. p \in behind
      BY <2>2, <1>1, <1>4
    <3>2. p \in told \/ \E i \in DOMAIN chain : p \in chain[i].dirty
      BY <3>1, <1>1 DEF Accounted, InBuffer
    <3>. QED
      BY <3>2, <2>2, <1>1, <1>2, <1>3
  <2>. QED
    BY <2>1, <2>2
<1>. QED
  BY <1>1, <1>4 DEF Accounted

LEMMA CheckAccounted ==
    ASSUME Inv, LayoutInv, Accounted, WBufCheckInfo
    PROVE  Accounted'
<1>1. pc = "check" /\ res2 = FALSE
  BY DEF WBufCheckInfo, Inv, TypeOK, Accounted
<1>2. CASE WriteFlushFails
  BY <1>1, <1>2, FailedWriteAccounted
<1>3. CASE CheckFlush
  <2>1. BehindAfter(AllSent) \subseteq told
    BY <1>1, FlushedTold
  <2>. QED
    BY <2>1, <1>1, <1>3, NothingUntold DEF CheckFlush, FlushOK
<1>4. CASE CheckKeep
  BY <1>1, <1>4, KeptAccounted DEF CheckKeep, data
<1>. QED
  BY <1>2, <1>3, <1>4 DEF WBufCheckInfo

LEMMA PacketsAccounted ==
    ASSUME Inv, LayoutInv, Accounted, FlushReported,
           \/ ReportPending \/ act_SEEK \/ act_FLUSH \/ act_SET_FILE_SIZE
           \/ act_END \/ act_FINDOUTPUT \/ OtherHandles
    PROVE  Accounted'
<1>. USE DEF Inv
<1>1. res2 \in BOOLEAN
  BY DEF TypeOK
<1>2. ~res2 => BehindAfter(AllSent) \subseteq told
  BY FlushedTold
<1>3. CASE ReportPending
  <2>1. res2' = FALSE /\ Report /\ chain' = chain /\ res2
    BY <1>3 DEF ReportPending, data
  <2>2. chain' = <<>>
    BY <2>1 DEF Accounted
  <2>. QED
    BY <2>1, <2>2, ReportedAll, NothingUntold
<1>4. CASE act_SEEK
  BY <1>4 DEF act_SEEK, data, Accounted, InBuffer
<1>5. CASE act_FLUSH
  <2>1. ~res2 /\ pc' = "idle" /\ told' = told
    BY <1>5 DEF act_FLUSH, HasBufferedWData, Accounted
  <2>2. CASE FlushOK(<<>>) /\ UNCHANGED res2
    BY <2>1, <2>2, <1>1, <1>2, NothingUntold DEF FlushOK
  <2>3. CASE FlushFails /\ res2' = TRUE
    BY <2>1, <2>3 DEF FlushFails, Accounted
  <2>. QED
    BY <2>2, <2>3, <1>5 DEF act_FLUSH
<1>6. CASE act_SET_FILE_SIZE
  <2>1. chain' = <<>> /\ pc' = "idle" /\ res2' = res2 /\ ~ServerFails
    BY <1>6 DEF act_SET_FILE_SIZE, FlushReported
  <2>2. CASE res2
    BY <2>1, <2>2 DEF Accounted
  <2>3. CASE ~res2
    <3>1. PICK flushed \in {AllSent} \cup PartSent :
             \/ \E n \in 0 .. MaxFile : SetSize(n, BehindAfter(flushed))
             \/ Report
      BY <1>6 DEF act_SET_FILE_SIZE
    <3>2. flushed = AllSent
      BY <3>1, <2>1 DEF PartSent
    <3>3. CASE Report
      BY <3>3, <2>1, <2>3, <1>1, ReportedAll, NothingUntold
    <3>4. CASE \E n \in 0 .. MaxFile : SetSize(n, BehindAfter(flushed))
      <4>1. behind' \subseteq told'
        BY <3>2, <3>4, <2>3, <1>2 DEF SetSize
      <4>. QED
        BY <4>1, <2>1, <2>3, <1>1, NothingUntold
    <3>. QED
      BY <3>1, <3>3, <3>4
  <2>. QED
    BY <2>2, <2>3
<1>7. CASE act_END
  <2>1. res2' = FALSE /\ chain' = <<>>
    BY <1>7 DEF act_END, FlushOK, FlushFails
  <2>2. CASE Report
    BY <2>1, <2>2, ReportedAll, NothingUntold
  <2>3. CASE ~res2 /\ FlushOK(<<>>) /\ UNCHANGED told
    BY <2>1, <2>3, <1>2, NothingUntold DEF FlushOK
  <2>. QED
    BY <2>2, <2>3, <1>7 DEF act_END
<1>8. CASE act_FINDOUTPUT
  <2>1. res2' = FALSE /\ behind' = {}
    BY <1>1, <1>8 DEF act_FINDOUTPUT, Accounted
  <2>. QED
    BY <2>1, NothingUntold
<1>9. CASE OtherHandles
  BY <1>9 DEF OtherHandles, file, Accounted, InBuffer
<1>. QED
  BY <1>3, <1>4, <1>5, <1>6, <1>7, <1>8, <1>9

LEMMA AccountedSuffices ==
    ASSUME Inv, LayoutInv, Accounted
    PROVE  NoSilentLoss
<1>1. ASSUME ~res2, NEW p \in Lost PROVE p \in told
  <2>1. /\ p \in behind
        /\ \A i \in DOMAIN chain : p \notin chain[i].dirty \ chain[i].old
    BY <1>1 DEF Lost
  <2>2. \A i \in DOMAIN chain : chain[i].old = {}
    BY DEF LayoutInv, OrderedChain
  <2>. QED
    BY <2>1, <2>2, <1>1 DEF Accounted, InBuffer
<1>2. res2 => pc # "closed" /\ chain = <<>>
  BY DEF Accounted
<1>. QED
  BY <1>1, <1>2 DEF NoSilentLoss

\* No acknowledged byte is lost without an error that has been returned or
\* waits in efh_Res2, whichever RPCs fail, whenever the flush comes and
\* however often the handle is closed and opened again.
THEOREM NothingLostSilently == InPlace /\ FlushReported => (Spec => []NoSilentLoss)
<1>. SUFFICES ASSUME InPlace, FlushReported PROVE Spec => []NoSilentLoss
  OBVIOUS
<1>1. Init => Accounted
  BY DEF Init, Accounted
<1>2. ASSUME Inv, LayoutInv, Accounted, [Next]_vars PROVE Accounted'
  <2>1. CASE UNCHANGED vars
    BY <1>2, <2>1 DEF vars, Accounted, InBuffer
  <2>2. CASE Next
    BY <1>2, <2>2, WriteAccounted, PlaceAccounted, CopyAccounted, CheckAccounted,
       PacketsAccounted DEF Next
  <2>. QED
    BY <1>2, <2>1, <2>2
<1>3. Inv /\ LayoutInv /\ Accounted => NoSilentLoss
  BY AccountedSuffices
<1>. QED
  BY <1>1, <1>2, <1>3, Invariance, LayoutHolds, PTL DEF Spec

-----------------------------------------------------------------------------
(***************************************************************************)
(* The interval table of a buffer.  A sequence of entries is a table of a  *)
(* set of bytes if it lists exactly these, ascending and without touching  *)
(* entries.  WBufUpdateInfo turns a table into a table, and a set has only *)
(* one: so the array is what InfoTable says, and its length is NumRuns.    *)
(***************************************************************************)
Entry == [wbi_From : Nat, wbi_To : Nat]

InEntry(e, p) == e.wbi_From <= p /\ p <= e.wbi_To

\* t lists the bytes of D: entries that are not empty, ascending, and never
\* touching.
IsTable(t, D) ==
    /\ t \in Seq(Entry)
    /\ \A k \in 1 .. Len(t) : t[k].wbi_From <= t[k].wbi_To
    /\ \A j, k \in 1 .. Len(t) : j < k => t[j].wbi_To + 1 < t[k].wbi_From
    /\ D \subseteq Nat
    /\ \A p \in Nat : p \in D <=> \E k \in 1 .. Len(t) : InEntry(t[k], p)

LEMMA TableTypes ==
    ASSUME NEW t \in Seq(Entry)
    PROVE  /\ Len(t) \in Nat /\ DOMAIN t = 1 .. Len(t)
           /\ \A k \in 1 .. Len(t) :
                /\ t[k] \in Entry /\ t[k].wbi_From \in Nat /\ t[k].wbi_To \in Nat
                /\ t[k] = Interval(t[k].wbi_From, t[k].wbi_To)
<1>1. Len(t) \in Nat /\ DOMAIN t = 1 .. Len(t)
  OBVIOUS
<1>2. \A k \in 1 .. Len(t) : t[k] \in Entry
  OBVIOUS
<1>. QED
  BY <1>1, <1>2 DEF Entry, Interval

\* Entry k is the run that starts at its first byte.
LEMMA TableRuns ==
    ASSUME NEW t, NEW D, IsTable(t, D)
    PROVE  /\ RunStarts(D) = {t[k].wbi_From : k \in 1 .. Len(t)}
           /\ \A k \in 1 .. Len(t) :
                RunFrom(D, t[k].wbi_From) = t[k].wbi_From .. t[k].wbi_To
<1>1. /\ Len(t) \in Nat
      /\ \A k \in 1 .. Len(t) :
           /\ t[k].wbi_From \in Nat /\ t[k].wbi_To \in Nat
           /\ t[k].wbi_From <= t[k].wbi_To
      /\ \A j, k \in 1 .. Len(t) : j < k => t[j].wbi_To + 1 < t[k].wbi_From
      /\ D \subseteq Nat
      /\ \A p \in Nat : p \in D <=> \E k \in 1 .. Len(t) : InEntry(t[k], p)
  BY TableTypes DEF IsTable
<1>2. ASSUME NEW k \in 1 .. Len(t), NEW p \in D,
             p = t[k].wbi_From - 1 \/ p = t[k].wbi_To + 1
      PROVE  FALSE
  <2>1. PICK j \in 1 .. Len(t) : InEntry(t[j], p)
    BY <1>1
  <2>2. /\ t[j].wbi_From <= p /\ p <= t[j].wbi_To /\ p \in Nat
        /\ t[j].wbi_From \in Nat /\ t[j].wbi_To \in Nat
        /\ t[k].wbi_From \in Nat /\ t[k].wbi_To \in Nat
        /\ t[k].wbi_From <= t[k].wbi_To
    BY <1>1, <2>1 DEF InEntry
  <2>3. CASE j = k
    BY <1>2, <2>2, <2>3
  <2>4. CASE j < k
    <3>1. t[j].wbi_To + 1 < t[k].wbi_From
      BY <1>1, <2>4
    <3>. QED
      BY <1>2, <2>2, <3>1
  <2>5. CASE k < j
    <3>1. t[k].wbi_To + 1 < t[j].wbi_From
      BY <1>1, <2>5
    <3>. QED
      BY <1>2, <2>2, <3>1
  <2>. QED
    BY <1>1, <2>3, <2>4, <2>5
<1>3. ASSUME NEW d \in RunStarts(D)
      PROVE  \E k \in 1 .. Len(t) : d = t[k].wbi_From
  <2>1. d \in D /\ d - 1 \notin D /\ d \in Nat
    BY <1>1 DEF RunStarts
  <2>2. PICK k \in 1 .. Len(t) : InEntry(t[k], d)
    BY <1>1, <2>1
  <2>3. ASSUME t[k].wbi_From < d PROVE FALSE
    <3>1. d - 1 \in Nat /\ InEntry(t[k], d - 1)
      BY <1>1, <2>1, <2>2, <2>3 DEF InEntry
    <3>. QED
      BY <3>1, <1>1, <2>1
  <2>. QED
    BY <1>1, <2>1, <2>2, <2>3 DEF InEntry
<1>4. ASSUME NEW k \in 1 .. Len(t), NEW p \in t[k].wbi_From .. t[k].wbi_To
      PROVE  p \in D
  BY <1>1 DEF InEntry
<1>5. ASSUME NEW k \in 1 .. Len(t) PROVE t[k].wbi_From \in RunStarts(D)
  <2>1. t[k].wbi_From \in D
    BY <1>1, <1>4
  <2>. QED
    BY <2>1, <1>2 DEF RunStarts
<1>6. ASSUME NEW k \in 1 .. Len(t)
      PROVE  RunFrom(D, t[k].wbi_From) = t[k].wbi_From .. t[k].wbi_To
  <2>0. t[k].wbi_From \in Nat /\ t[k].wbi_To \in Nat /\ t[k].wbi_From <= t[k].wbi_To
    BY <1>1
  <2>1. ASSUME NEW e \in RunFrom(D, t[k].wbi_From)
        PROVE  e \in t[k].wbi_From .. t[k].wbi_To
    <3>1. e \in Nat /\ t[k].wbi_From <= e /\ t[k].wbi_From .. e \subseteq D
      BY <1>1 DEF RunFrom
    <3>2. ASSUME t[k].wbi_To < e PROVE FALSE
      <4>1. t[k].wbi_To + 1 \in t[k].wbi_From .. e
        BY <2>0, <3>1, <3>2
      <4>2. t[k].wbi_To + 1 \in D
        BY <4>1, <3>1
      <4>. QED
        BY <4>2, <1>2
    <3>. QED
      BY <2>0, <3>1, <3>2
  <2>2. ASSUME NEW e \in t[k].wbi_From .. t[k].wbi_To
        PROVE  e \in RunFrom(D, t[k].wbi_From)
    <3>1. e \in D /\ t[k].wbi_From <= e
      BY <1>4, <2>0
    <3>2. \A q \in t[k].wbi_From .. e : q \in t[k].wbi_From .. t[k].wbi_To
      BY <2>0
    <3>3. t[k].wbi_From .. e \subseteq D
      BY <3>2, <1>4
    <3>. QED
      BY <3>1, <3>3 DEF RunFrom
  <2>. QED
    BY <2>1, <2>2
<1>. QED
  BY <1>3, <1>5, <1>6

LEMMA IntervalBounds ==
    ASSUME NEW a \in Nat, NEW b \in Nat, a <= b
    PROVE  Min(a .. b) = a /\ Max(a .. b) = b
<1>1. a \in a .. b /\ b \in a .. b
  OBVIOUS
<1>2. \A x \in a .. b : (\A y \in a .. b : x <= y) => x = a
  BY <1>1
<1>3. \A x \in a .. b : (\A y \in a .. b : x >= y) => x = b
  BY <1>1
<1>4. (\A y \in a .. b : a <= y) /\ (\A y \in a .. b : b >= y)
  OBVIOUS
<1>. QED
  BY <1>1, <1>2, <1>3, <1>4 DEF Min, Max

\* The number of runs is the number of entries, and their intervals are the
\* entries.
LEMMA TableEntries ==
    ASSUME NEW t, NEW D, IsTable(t, D)
    PROVE  /\ NumRuns(D) = Len(t)
           /\ {Interval(Min(r), Max(r)) : r \in Runs(D)} = {t[k] : k \in 1 .. Len(t)}
<1>1. /\ Len(t) \in Nat
      /\ \A k \in 1 .. Len(t) :
           /\ t[k].wbi_From \in Nat /\ t[k].wbi_To \in Nat
           /\ t[k].wbi_From <= t[k].wbi_To
           /\ t[k] = Interval(t[k].wbi_From, t[k].wbi_To)
      /\ \A j, k \in 1 .. Len(t) : j < k => t[j].wbi_To + 1 < t[k].wbi_From
  BY TableTypes DEF IsTable
<1>2. /\ RunStarts(D) = {t[k].wbi_From : k \in 1 .. Len(t)}
      /\ \A k \in 1 .. Len(t) :
           RunFrom(D, t[k].wbi_From) = t[k].wbi_From .. t[k].wbi_To
  BY TableRuns
<1>3. NumRuns(D) = Len(t)
  <2>. DEFINE S == 1 .. Len(t)
              T == RunStarts(D)
              f == [k \in S |-> t[k].wbi_From]
  <2>1. \A k \in S : f[k] = t[k].wbi_From /\ f[k] \in T
    BY <1>2
  <2>2. f \in [S -> T]
    BY <2>1
  <2>3. ASSUME NEW j \in S, NEW k \in S, f[j] = f[k] PROVE j = k
    <3>1. j < k => f[j] < f[k]
      BY <1>1, <2>1
    <3>2. k < j => f[k] < f[j]
      BY <1>1, <2>1
    <3>3. f[j] \in Nat /\ f[k] \in Nat
      BY <1>1, <2>1
    <3>. HIDE DEF f
    <3>. QED
      BY <2>3, <3>1, <3>2, <3>3, <1>1
  <2>4. \A x \in T : \E k \in S : f[k] = x
    BY <1>2, <2>1
  <2>. HIDE DEF f
  <2>5. f \in Bijection(S, T)
    BY <2>2, <2>3, <2>4, Zenon DEF Bijection, Injection, Surjection, IsInjective
  <2>6. ExistsBijection(S, T)
    BY <2>5, Zenon DEF ExistsBijection
  <2>7. Cardinality(T) = Len(t)
    BY <2>6, <1>1, FS_CountingElements
  <2>. QED
    BY <2>7 DEF NumRuns
<1>4. \A k \in 1 .. Len(t) :
        t[k] = Interval(Min(RunFrom(D, t[k].wbi_From)), Max(RunFrom(D, t[k].wbi_From)))
  BY <1>1, <1>2, IntervalBounds
<1>5. Runs(D) = {RunFrom(D, t[k].wbi_From) : k \in 1 .. Len(t)}
  BY <1>2 DEF Runs
<1>6. ASSUME NEW x PROVE x \in {Interval(Min(r), Max(r)) : r \in Runs(D)}
                          <=> x \in {t[k] : k \in 1 .. Len(t)}
  <2>1. ASSUME NEW r \in Runs(D), x = Interval(Min(r), Max(r))
        PROVE  \E k \in 1 .. Len(t) : x = t[k]
    <3>1. PICK k \in 1 .. Len(t) : r = RunFrom(D, t[k].wbi_From)
      BY <1>5, Zenon
    <3>. QED
      BY <2>1, <3>1, <1>4, Zenon
  <2>2. ASSUME NEW k \in 1 .. Len(t), x = t[k]
        PROVE  \E r \in Runs(D) : x = Interval(Min(r), Max(r))
    <3>1. RunFrom(D, t[k].wbi_From) \in Runs(D)
      BY <1>5, Zenon
    <3>. QED
      BY <2>2, <3>1, <1>4, Zenon
  <2>. QED
    BY <2>1, <2>2, Zenon
<1>7. {Interval(Min(r), Max(r)) : r \in Runs(D)} = {t[k] : k \in 1 .. Len(t)}
  BY <1>6, Zenon
<1>. QED
  BY <1>3, <1>7, Zenon

\* An ascending map of 1 .. n to itself is the identity.
LEMMA AscendingIdentity ==
    ASSUME NEW n \in Nat, NEW h \in [1 .. n -> 1 .. n],
           \A j, k \in 1 .. n : j < k => h[j] < h[k]
    PROVE  \A k \in 1 .. n : h[k] = k
<1>1. ASSUME NEW x \in 1 .. n, h[x] < x PROVE FALSE
  <2>. DEFINE S == {k \in 1 .. n : h[k] < k}
  <2>1. S \in SUBSET Nat /\ S # {}
    BY <1>1
  <2>2. PICK k \in S : \A y \in S : k <= y
    BY <2>1, MinOfNats, Zenon
  <2>3. k \in 1 .. n /\ h[k] < k /\ h[k] \in 1 .. n
    BY <2>2
  <2>4. h[h[k]] < h[k]
    BY <2>3
  <2>5. h[k] \in S
    BY <2>3, <2>4
  <2>. QED
    BY <2>2, <2>3, <2>5
<1>2. ASSUME NEW x \in 1 .. n, h[x] > x PROVE FALSE
  <2>. DEFINE T == {n - k : k \in {l \in 1 .. n : h[l] > l}}
  <2>0. \A k \in 1 .. n : h[k] > k => n - k \in T
    OBVIOUS
  <2>1. T \in SUBSET Nat /\ T # {}
    BY <1>2
  <2>2. PICK d \in T : \A y \in T : d <= y
    BY <2>1, MinOfNats, Zenon
  <2>3. PICK k \in 1 .. n : h[k] > k /\ d = n - k
    BY <2>2
  <2>4. h[k] \in 1 .. n /\ h[h[k]] > h[k]
    BY <2>3
  <2>5. n - h[k] \in T
    BY <2>0, <2>4
  <2>6. d <= n - h[k]
    BY <2>2, <2>5
  <2>. HIDE DEF T
  <2>. QED
    BY <2>3, <2>4, <2>6
<1>. QED
  BY <1>1, <1>2

\* InfoTable(D) is the only table of D.
LEMMA TableUnique ==
    ASSUME NEW t, NEW D, IsTable(t, D)
    PROVE  InfoTable(D) = t
<1>. DEFINE n == Len(t)
            R == {t[k] : k \in 1 .. n}
            Sorted(f) == \A j, k \in 1 .. n : j < k => f[j].wbi_From < f[k].wbi_From
<1>1. /\ n \in Nat /\ DOMAIN t = 1 .. n
      /\ \A k \in 1 .. n : t[k].wbi_From \in Nat /\ t[k].wbi_To \in Nat
                            /\ t[k].wbi_From <= t[k].wbi_To
      /\ \A j, k \in 1 .. n : j < k => t[j].wbi_To + 1 < t[k].wbi_From
      /\ t \in Seq(Entry)
  BY TableTypes DEF IsTable
<1>2. NumRuns(D) = n /\ {Interval(Min(r), Max(r)) : r \in Runs(D)} = R
  BY TableEntries
<1>3. t \in [1 .. n -> R]
  <2>1. t = [k \in 1 .. n |-> t[k]]
    BY <1>1
  <2>. QED
    BY <2>1
<1>4. \A j, k \in 1 .. n : j < k => t[j].wbi_From < t[k].wbi_From
  BY <1>1
<1>5. Sorted(t)
  BY <1>4
<1>6. ASSUME NEW f \in [1 .. n -> R], Sorted(f) PROVE f = t
  <2>. DEFINE h == [k \in 1 .. n |-> CHOOSE l \in 1 .. n : t[l] = f[k]]
  <2>1. \A k \in 1 .. n : h[k] \in 1 .. n /\ t[h[k]] = f[k]
    <3>. SUFFICES ASSUME NEW k \in 1 .. n PROVE h[k] \in 1 .. n /\ t[h[k]] = f[k]
      OBVIOUS
    <3>1. f[k] \in R
      OBVIOUS
    <3>2. \E l \in 1 .. n : t[l] = f[k]
      BY <3>1
    <3>. QED
      BY <3>2
  <2>2. h \in [1 .. n -> 1 .. n]
    BY <2>1
  <2>. HIDE DEF h
  <2>3. ASSUME NEW j \in 1 .. n, NEW k \in 1 .. n, j < k PROVE h[j] < h[k]
    <3>1. t[h[j]].wbi_From < t[h[k]].wbi_From
      BY <2>1, <2>3, <1>6
    <3>2. h[j] \in 1 .. n /\ h[k] \in 1 .. n
      BY <2>1
    <3>3. h[k] < h[j] => t[h[k]].wbi_From < t[h[j]].wbi_From
      BY <3>2, <1>4
    <3>. QED
      BY <3>1, <3>2, <3>3, <1>1
  <2>4. \A k \in 1 .. n : h[k] = k
    BY <2>2, <2>3, <1>1, AscendingIdentity
  <2>5. \A k \in 1 .. n : f[k] = t[k]
    BY <2>1, <2>4
  <2>. QED
    BY <2>5, <1>3
<1>7. InfoTable(D) = CHOOSE f \in [1 .. n -> R] : Sorted(f)
  BY <1>2, Zenon DEF InfoTable
<1>. HIDE DEF Sorted, R, n
<1>. QED
  BY <1>3, <1>5, <1>6, <1>7

\* The entry m stands for the bytes N and the entries a .. z of t, and touches
\* none of the others.
StandsFor(m, N, t, a, z) ==
    /\ m \in Entry /\ m.wbi_From <= m.wbi_To
    /\ \A k \in 1 .. Len(t) : k < a => t[k].wbi_To + 1 < m.wbi_From
    /\ \A k \in 1 .. Len(t) : z < k => m.wbi_To + 1 < t[k].wbi_From
    /\ \A p \in Nat :
         InEntry(m, p) <=> p \in N \/ \E k \in a .. z : InEntry(t[k], p)

\* Such an entry in the place of a .. z adds the bytes N to a table.
LEMMA Splice ==
    ASSUME NEW t, NEW D, IsTable(t, D), NEW N \in SUBSET Nat,
           NEW a \in 1 .. Len(t) + 1, NEW z \in a - 1 .. Len(t),
           NEW m, StandsFor(m, N, t, a, z),
           NEW u \in Seq(Entry), Replaced(u, t, a, z, m)
    PROVE  IsTable(u, D \cup N)
<1>. DEFINE n == Len(t)
            l == Len(u)
<1>1. /\ n \in Nat
      /\ \A k \in 1 .. n :
           /\ t[k].wbi_From \in Nat /\ t[k].wbi_To \in Nat
           /\ t[k].wbi_From <= t[k].wbi_To
      /\ \A j, k \in 1 .. n : j < k => t[j].wbi_To + 1 < t[k].wbi_From
      /\ D \subseteq Nat
      /\ \A p \in Nat : p \in D <=> \E k \in 1 .. n : InEntry(t[k], p)
  BY TableTypes DEF IsTable
<1>2. /\ l \in Nat /\ l = n - z + a /\ a \in Nat /\ z \in Nat /\ a <= n + 1 /\ a >= 1
      /\ a - 1 <= z /\ z <= n
      /\ m.wbi_From \in Nat /\ m.wbi_To \in Nat /\ m.wbi_From <= m.wbi_To
  BY <1>1 DEF Entry, StandsFor, Replaced
<1>3. /\ \A k \in 1 .. n : k < a => t[k].wbi_To + 1 < m.wbi_From
      /\ \A k \in 1 .. n : z < k => m.wbi_To + 1 < t[k].wbi_From
  BY DEF StandsFor
<1>4. \A p \in Nat : InEntry(m, p)
                        <=> p \in N \/ \E k \in a .. z : InEntry(t[k], p)
  BY DEF StandsFor
<1>5. \A k \in 1 .. l :
         u[k] = IF k < a THEN t[k] ELSE IF k = a THEN m ELSE t[k + z - a]
  BY DEF Replaced
<1>. HIDE DEF n, l
<1>6. /\ \A k \in 1 .. l : k < a => k \in 1 .. n /\ u[k] = t[k]
      /\ a \in 1 .. l /\ u[a] = m
      /\ \A k \in 1 .. l : k > a => /\ k + z - a \in 1 .. n /\ k + z - a > z
                                    /\ u[k] = t[k + z - a]
  <2>1. a \in 1 .. l /\ u[a] = m
    BY <1>1, <1>2, <1>5
  <2>2. ASSUME NEW k \in 1 .. l, k < a PROVE k \in 1 .. n /\ u[k] = t[k]
    BY <2>2, <1>1, <1>2, <1>5
  <2>3. ASSUME NEW k \in 1 .. l, k > a
        PROVE  k + z - a \in 1 .. n /\ k + z - a > z /\ u[k] = t[k + z - a]
    <3>1. k + z - a \in 1 .. n /\ k + z - a > z
      BY <2>3, <1>1, <1>2
    <3>2. ~(k < a) /\ k # a
      BY <2>3, <1>2
    <3>. QED
      BY <3>1, <3>2, <1>5
  <2>. QED
    BY <2>1, <2>2, <2>3
<1>7. ASSUME NEW k \in 1 .. l PROVE u[k].wbi_From <= u[k].wbi_To
  <2>1. k < a \/ k = a \/ k > a
    BY <1>2
  <2>. QED
    BY <2>1, <1>1, <1>2, <1>6
<1>8. ASSUME NEW j \in 1 .. l, NEW k \in 1 .. l, j < k
      PROVE  u[j].wbi_To + 1 < u[k].wbi_From
  <2>1. CASE k < a
    BY <2>1, <1>8, <1>1, <1>2, <1>6
  <2>2. CASE k = a
    BY <2>2, <1>8, <1>3, <1>2, <1>6
  <2>3. CASE k > a /\ j = a
    BY <2>3, <1>8, <1>3, <1>2, <1>6
  <2>4. CASE k > a /\ j < a
    <3>1. /\ j \in 1 .. n /\ u[j] = t[j]
          /\ k + z - a \in 1 .. n /\ u[k] = t[k + z - a] /\ j < k + z - a
      BY <2>4, <1>2, <1>6
    <3>. QED
      BY <3>1, <1>1
  <2>5. CASE k > a /\ j > a
    <3>1. /\ j + z - a \in 1 .. n /\ u[j] = t[j + z - a]
          /\ k + z - a \in 1 .. n /\ u[k] = t[k + z - a] /\ j + z - a < k + z - a
      BY <2>5, <1>8, <1>2, <1>6
    <3>. QED
      BY <3>1, <1>1
  <2>. QED
    BY <2>1, <2>2, <2>3, <2>4, <2>5, <1>2
<1>9. ASSUME NEW p \in Nat, p \in D \cup N
      PROVE  \E k \in 1 .. l : InEntry(u[k], p)
  <2>1. CASE InEntry(m, p)
    BY <2>1, <1>6
  <2>2. CASE ~InEntry(m, p)
    <3>1. p \notin N /\ ~(\E k \in a .. z : InEntry(t[k], p))
      BY <2>2, <1>4
    <3>2. PICK k \in 1 .. n : InEntry(t[k], p)
      BY <3>1, <1>9, <1>1
    <3>3. k < a \/ k > z
      BY <3>1, <3>2, <1>1, <1>2
    <3>4. CASE k < a
      <4>1. k \in 1 .. l /\ u[k] = t[k]
        BY <3>4, <1>1, <1>2, <1>6
      <4>. QED
        BY <4>1, <3>2
    <3>5. CASE k > z
      <4>1. /\ k - z + a \in 1 .. l /\ k - z + a > a
            /\ (k - z + a) + z - a = k
        BY <3>5, <1>1, <1>2
      <4>2. u[k - z + a] = t[k]
        BY <4>1, <1>6
      <4>. QED
        BY <4>1, <4>2, <3>2
    <3>. QED
      BY <3>3, <3>4, <3>5
  <2>. QED
    BY <2>1, <2>2
<1>10. ASSUME NEW p \in Nat, NEW k \in 1 .. l, InEntry(u[k], p)
       PROVE  p \in D \cup N
  <2>1. CASE k < a
    <3>1. k \in 1 .. n /\ InEntry(t[k], p)
      BY <2>1, <1>6, <1>10
    <3>. QED
      BY <3>1, <1>1
  <2>2. CASE k = a
    <3>1. InEntry(m, p)
      BY <2>2, <1>6, <1>10
    <3>2. CASE p \in N
      BY <3>2
    <3>3. CASE p \notin N
      <4>1. PICK j \in a .. z : InEntry(t[j], p)
        BY <3>1, <3>3, <1>4
      <4>2. j \in 1 .. n
        BY <1>1, <1>2
      <4>. QED
        BY <4>1, <4>2, <1>1
    <3>. QED
      BY <3>2, <3>3
  <2>3. CASE k > a
    <3>1. k + z - a \in 1 .. n /\ InEntry(t[k + z - a], p)
      BY <2>3, <1>6, <1>10
    <3>. QED
      BY <3>1, <1>1
  <2>. QED
    BY <2>1, <2>2, <2>3, <1>2
<1>11. D \cup N \subseteq Nat
  BY <1>1
<1>. QED
  BY <1>7, <1>8, <1>9, <1>10, <1>11 DEF IsTable, l

LEMMA PairBounds ==
    ASSUME NEW a \in Nat, NEW b \in Nat
    PROVE  /\ Min({a, b}) = IF a <= b THEN a ELSE b
           /\ Max({a, b}) = IF a <= b THEN b ELSE a
<1>1. \A x \in {a, b} : (\A y \in {a, b} : x <= y) => x = IF a <= b THEN a ELSE b
  OBVIOUS
<1>2. \A x \in {a, b} : (\A y \in {a, b} : x >= y) => x = IF a <= b THEN b ELSE a
  OBVIOUS
<1>3. /\ (IF a <= b THEN a ELSE b) \in {a, b}
      /\ \A y \in {a, b} : (IF a <= b THEN a ELSE b) <= y
  OBVIOUS
<1>4. /\ (IF a <= b THEN b ELSE a) \in {a, b}
      /\ \A y \in {a, b} : (IF a <= b THEN b ELSE a) >= y
  OBVIOUS
<1>5. Min({a, b}) = IF a <= b THEN a ELSE b
  BY <1>1, <1>3 DEF Min
<1>6. Max({a, b}) = IF a <= b THEN b ELSE a
  BY <1>2, <1>4 DEF Max
<1>. QED
  BY <1>5, <1>6

\* The interval Offs .. To melts with the entries a .. z of a table: what the
\* one that replaces them has to be.
LEMMA MeltedEntry ==
    ASSUME NEW t, NEW D, IsTable(t, D), NEW Offs \in Nat, NEW To \in Nat, Offs <= To,
           NEW a \in 1 .. Len(t), NEW z \in a .. Len(t),
           Offs <= t[a].wbi_To + 1, t[z].wbi_From <= To + 1,
           \A k \in 1 .. Len(t) : k < a => t[k].wbi_To + 1 < Offs,
           \A k \in 1 .. Len(t) : z < k => To + 1 < t[k].wbi_From,
           NEW m, m = Interval(Min({t[a].wbi_From, Offs}), Max({To, t[z].wbi_To}))
    PROVE  StandsFor(m, Offs .. To, t, a, z)
<1>1. /\ Len(t) \in Nat
      /\ \A k \in 1 .. Len(t) :
           /\ t[k].wbi_From \in Nat /\ t[k].wbi_To \in Nat
           /\ t[k].wbi_From <= t[k].wbi_To
      /\ \A j, k \in 1 .. Len(t) : j < k => t[j].wbi_To + 1 < t[k].wbi_From
  BY TableTypes DEF IsTable
<1>2. /\ a \in Nat /\ z \in Nat /\ z \in 1 .. Len(t) /\ a <= z
      /\ t[a].wbi_From \in Nat /\ t[z].wbi_To \in Nat
      /\ t[a].wbi_To \in Nat /\ t[z].wbi_From \in Nat
  BY <1>1
<1>3. PICK f \in Nat : f = Min({t[a].wbi_From, Offs})
                         /\ f <= Offs /\ f <= t[a].wbi_From
                         /\ (f = Offs \/ f = t[a].wbi_From)
  <2>1. Min({t[a].wbi_From, Offs}) = IF t[a].wbi_From <= Offs THEN t[a].wbi_From ELSE Offs
    BY <1>2, PairBounds
  <2>. QED
    BY <2>1, <1>2
<1>4. PICK g \in Nat : g = Max({To, t[z].wbi_To})
                         /\ To <= g /\ t[z].wbi_To <= g
                         /\ (g = To \/ g = t[z].wbi_To)
  <2>1. Max({To, t[z].wbi_To}) = IF To <= t[z].wbi_To THEN t[z].wbi_To ELSE To
    BY <1>2, PairBounds
  <2>. QED
    BY <2>1, <1>2
<1>5. m = [wbi_From |-> f, wbi_To |-> g]
  BY <1>3, <1>4, Zenon DEF Interval
<1>6. m \in Entry /\ m.wbi_From = f /\ m.wbi_To = g /\ f <= g
  BY <1>5, <1>3, <1>4 DEF Entry
<1>7. ASSUME NEW k \in 1 .. Len(t), k < a PROVE t[k].wbi_To + 1 < m.wbi_From
  <2>1. t[k].wbi_To \in Nat /\ t[k].wbi_To + 1 < t[a].wbi_From /\ t[k].wbi_To + 1 < Offs
    BY <1>1, <1>2, <1>7
  <2>2. t[k].wbi_To + 1 < f
    BY <2>1, <1>2, <1>3
  <2>. QED
    BY <2>2, <1>6
<1>8. ASSUME NEW k \in 1 .. Len(t), z < k PROVE m.wbi_To + 1 < t[k].wbi_From
  <2>1. /\ t[k].wbi_From \in Nat /\ t[z].wbi_To + 1 < t[k].wbi_From
        /\ To + 1 < t[k].wbi_From
    BY <1>1, <1>2, <1>8
  <2>2. g + 1 < t[k].wbi_From
    BY <2>1, <1>2, <1>4
  <2>. QED
    BY <2>2, <1>6
<1>9. ASSUME NEW k \in a .. z
      PROVE  /\ k \in 1 .. Len(t) /\ t[a].wbi_From <= t[k].wbi_From
             /\ t[k].wbi_To <= t[z].wbi_To
  <2>1. k \in 1 .. Len(t) /\ (k = a \/ a < k) /\ (k = z \/ k < z)
    BY <1>1, <1>2
  <2>2. t[a].wbi_From <= t[k].wbi_From
    BY <2>1, <1>1, <1>2
  <2>3. t[k].wbi_To <= t[z].wbi_To
    BY <2>1, <1>1, <1>2
  <2>. QED
    BY <2>1, <2>2, <2>3
<1>10. ASSUME NEW p \in Nat
       PROVE  InEntry(m, p) <=> p \in Offs .. To \/ \E k \in a .. z : InEntry(t[k], p)
  <2>0. InEntry(m, p) <=> f <= p /\ p <= g
    BY <1>6 DEF InEntry
  <2>1. ASSUME f <= p, p <= g, p \notin Offs .. To
        PROVE  \E k \in a .. z : InEntry(t[k], p)
    <3>2. CASE p < Offs
      <4>1. t[a].wbi_From <= p /\ p <= t[a].wbi_To
        BY <2>1, <3>2, <1>2, <1>3
      <4>2. a \in a .. z
        BY <1>2
      <4>. QED
        BY <4>1, <4>2, Zenon DEF InEntry
    <3>3. CASE To < p
      <4>1. t[z].wbi_From <= p /\ p <= t[z].wbi_To
        BY <2>1, <3>3, <1>2, <1>4
      <4>2. z \in a .. z
        BY <1>2
      <4>. QED
        BY <4>1, <4>2, Zenon DEF InEntry
    <3>. QED
      BY <2>1, <3>2, <3>3
  <2>2. ASSUME p \in Offs .. To PROVE f <= p /\ p <= g
    BY <2>2, <1>3, <1>4
  <2>3. ASSUME NEW k \in a .. z, InEntry(t[k], p) PROVE f <= p /\ p <= g
    <3>1. /\ t[k].wbi_From \in Nat /\ t[k].wbi_To \in Nat
          /\ t[a].wbi_From <= t[k].wbi_From /\ t[k].wbi_To <= t[z].wbi_To
      BY <1>1, <1>9
    <3>2. t[k].wbi_From <= p /\ p <= t[k].wbi_To
      BY <2>3, Zenon DEF InEntry
    <3>3. f <= t[a].wbi_From /\ t[z].wbi_To <= g
      BY <1>3, <1>4
    <3>4. \A u, v, w, x \in Nat : u <= v /\ v <= w /\ w <= x => u <= x
      OBVIOUS
    <3>5. f <= p
      BY <3>1, <3>2, <3>3, <3>4, <1>2
    <3>6. p <= g
      BY <3>1, <3>2, <3>3, <3>4, <1>2
    <3>. QED
      BY <3>5, <3>6
  <2>. QED
    BY <2>0, <2>1, <2>2, <2>3, Zenon
<1>11. m.wbi_From <= m.wbi_To
  BY <1>6
<1>. QED
  BY <1>6, <1>7, <1>8, <1>10, <1>11, Zenon DEF StandsFor

\* WBufDoMelt ends at an entry that the interval touches, and before one that
\* it does not.
LEMMA MeltLastFacts ==
    ASSUME NEW t, NEW D, IsTable(t, D), NEW To \in Nat, NEW i \in 1 .. Len(t),
           i < Len(t), t[i + 1].wbi_From <= To + 1
    PROVE  /\ MeltLast(t, i, To) \in i + 1 .. Len(t)
           /\ t[MeltLast(t, i, To)].wbi_From <= To + 1
           /\ \A k \in 1 .. Len(t) :
                MeltLast(t, i, To) < k => To + 1 < t[k].wbi_From
<1>. DEFINE K == {k \in i + 1 .. Len(t) : k = Len(t) \/ To <= t[k].wbi_To}
            stop == Min(K)
<1>1. /\ Len(t) \in Nat
      /\ \A k \in 1 .. Len(t) :
           /\ t[k].wbi_From \in Nat /\ t[k].wbi_To \in Nat
           /\ t[k].wbi_From <= t[k].wbi_To
      /\ \A j, k \in 1 .. Len(t) : j < k => t[j].wbi_To + 1 < t[k].wbi_From
  BY TableTypes DEF IsTable
<1>2. K \in SUBSET Nat /\ Len(t) \in K
  BY <1>1
<1>3. stop \in K /\ \A k \in K : stop <= k
  BY <1>2, MinOfNats, Zenon
<1>4. stop \in i + 1 .. Len(t) /\ (stop = Len(t) \/ To <= t[stop].wbi_To)
  BY <1>3
<1>5. \A k \in i + 1 .. Len(t) : k < stop => t[k].wbi_To < To
  <2>1. ASSUME NEW k \in i + 1 .. Len(t), k < stop PROVE t[k].wbi_To < To
    <3>1. k \notin K
      BY <1>3, <1>4, <2>1
    <3>. QED
      BY <3>1, <1>1
  <2>. QED
    BY <2>1
<1>6. MeltLast(t, i, To)
        = IF t[stop].wbi_From <= To + 1 THEN stop ELSE stop - 1
  BY DEF MeltLast, Touches
<1>. HIDE DEF K, stop
<1>7. stop \in 1 .. Len(t) /\ t[stop].wbi_From \in Nat /\ t[stop].wbi_To \in Nat
  BY <1>1, <1>4
<1>8. CASE t[stop].wbi_From <= To + 1
  <2>1. MeltLast(t, i, To) = stop
    BY <1>6, <1>8
  <2>2. ASSUME NEW k \in 1 .. Len(t), stop < k PROVE To + 1 < t[k].wbi_From
    <3>1. To <= t[stop].wbi_To /\ t[stop].wbi_To + 1 < t[k].wbi_From
      BY <1>1, <1>4, <1>7, <2>2
    <3>. QED
      BY <3>1, <1>1, <1>7
  <2>. QED
    BY <2>1, <2>2, <1>4, <1>8
<1>9. CASE ~(t[stop].wbi_From <= To + 1)
  <2>1. MeltLast(t, i, To) = stop - 1
    BY <1>6, <1>9
  <2>2. stop # i + 1
    BY <1>9
  <2>3. stop - 1 \in i + 1 .. Len(t) /\ stop - 1 < stop /\ stop - 1 \in 1 .. Len(t)
    BY <2>2, <1>4, <1>1
  <2>4. t[stop - 1].wbi_From <= To + 1
    BY <2>3, <1>1, <1>5
  <2>5. ASSUME NEW k \in 1 .. Len(t), stop - 1 < k PROVE To + 1 < t[k].wbi_From
    <3>1. k = stop \/ stop < k
      BY <2>5, <1>7
    <3>2. CASE k = stop
      BY <3>2, <1>9, <1>7
    <3>3. CASE stop < k
      <4>1. t[stop].wbi_To + 1 < t[k].wbi_From /\ t[stop].wbi_From <= t[stop].wbi_To
        BY <3>3, <1>1, <1>7
      <4>. QED
        BY <4>1, <1>9, <1>1, <1>7
    <3>. QED
      BY <3>1, <3>2, <3>3
  <2>. QED
    BY <2>1, <2>3, <2>4, <2>5
<1>. QED
  BY <1>8, <1>9

\* The first entry that ends at Offs - 1 or later.
LEMMA FirstTouched ==
    ASSUME NEW t \in Seq(Entry), NEW Offs \in Nat
    PROVE  LET i == SelectInSeq(t, LAMBDA wbi : Touches(wbi.wbi_To, Offs))
           IN  \/ i = 0 /\ \A k \in 1 .. Len(t) : t[k].wbi_To + 1 < Offs
               \/ /\ i \in 1 .. Len(t) /\ Offs <= t[i].wbi_To + 1
                  /\ \A k \in 1 .. Len(t) : k < i => t[k].wbi_To + 1 < Offs
<1>. DEFINE I == {k \in 1 .. Len(t) : Touches(t[k].wbi_To, Offs)}
<1>1. SelectInSeq(t, LAMBDA wbi : Touches(wbi.wbi_To, Offs))
        = IF I # {} THEN Min(I) ELSE 0
  BY DEF SelectInSeq
<1>2. \A k \in 1 .. Len(t) : k \notin I => t[k].wbi_To + 1 < Offs
  BY TableTypes DEF Touches
<1>3. CASE I = {}
  BY <1>1, <1>2, <1>3
<1>4. CASE I # {}
  <2>1. I \in SUBSET Nat
    OBVIOUS
  <2>2. Min(I) \in I /\ \A y \in I : Min(I) <= y
    BY <2>1, <1>4, MinOfNats, Zenon
  <2>3. PICK i : i = Min(I)
    OBVIOUS
  <2>4. i \in 1 .. Len(t) /\ Offs <= t[i].wbi_To + 1
    BY <2>2, <2>3 DEF Touches
  <2>5. ASSUME NEW k \in 1 .. Len(t), k < i PROVE t[k].wbi_To + 1 < Offs
    <3>1. k \notin I
      BY <2>2, <2>3, <2>4, <2>5
    <3>. QED
      BY <3>1, <1>2
  <2>. HIDE DEF I
  <2>6. SelectInSeq(t, LAMBDA wbi : Touches(wbi.wbi_To, Offs)) = i
    BY <1>1, <1>4, <2>3
  <2>. QED
    BY <2>4, <2>5, <2>6
<1>. QED
  BY <1>3, <1>4

\* WBufUpdateInfo makes the table of D the table of D with the new bytes.  It
\* adds at most one entry, and none if the first byte was listed before.
LEMMA UpdateTable ==
    ASSUME NEW t, NEW D, IsTable(t, D), NEW Offs \in Nat, NEW Length \in Nat \ {0}
    PROVE  LET u == WBufUpdateInfo(t, Offs, Length)
           IN  /\ IsTable(u, D \cup (Offs .. Offs + Length - 1))
               /\ Len(u) <= Len(t) + 1
               /\ Offs \in D => Len(u) <= Len(t)
<1>. DEFINE To == Offs + Length - 1
            n == Len(t)
            u == WBufUpdateInfo(t, Offs, Length)
            e == Interval(Offs, To)
<1>1. PICK i : i = SelectInSeq(t, LAMBDA wbi : Touches(wbi.wbi_To, Offs))
  OBVIOUS
<1>2. /\ n \in Nat /\ t \in Seq(Entry) /\ DOMAIN t = 1 .. n
      /\ \A k \in 1 .. n :
           /\ t[k].wbi_From \in Nat /\ t[k].wbi_To \in Nat
           /\ t[k].wbi_From <= t[k].wbi_To
      /\ \A j, k \in 1 .. n : j < k => t[j].wbi_To + 1 < t[k].wbi_From
      /\ \A p \in Nat : p \in D => \E k \in 1 .. n : InEntry(t[k], p)
  BY TableTypes DEF IsTable
<1>3. \/ i = 0 /\ \A k \in 1 .. n : t[k].wbi_To + 1 < Offs
      \/ /\ i \in 1 .. n /\ Offs <= t[i].wbi_To + 1
         /\ \A k \in 1 .. n : k < i => t[k].wbi_To + 1 < Offs
  BY <1>1, <1>2, FirstTouched
<1>4. u = IF i = 0 THEN Append(t, e)
          ELSE IF ~(t[i].wbi_From <= To + 1) THEN InsertAt(t, i, e)
          ELSE IF n > i /\ t[i + 1].wbi_From <= To + 1 THEN WBufDoMelt(t, i, Offs, To)
          ELSE [t EXCEPT ![i] = Interval(Min({t[i].wbi_From, Offs}),
                                         Max({t[i].wbi_To, To}))]
  BY <1>1 DEF WBufUpdateInfo, Touches
<1>5. To \in Nat /\ Offs <= To /\ Offs .. To \in SUBSET Nat
  OBVIOUS
<1>6. /\ e \in Entry /\ e.wbi_From = Offs /\ e.wbi_To = To
      /\ \A p \in Nat : InEntry(e, p) <=> p \in Offs .. To
  BY <1>5 DEF Entry, Interval, InEntry
<1>. HIDE DEF To, n, u, e
<1>7. CASE i = 0
  <2>1. u = Append(t, e)
    BY <1>4, <1>7
  <2>2. /\ u \in Seq(Entry) /\ Len(u) = n + 1
        /\ \A k \in 1 .. n + 1 : u[k] = IF k < n + 1 THEN t[k] ELSE e
    BY <2>1, <1>2, <1>6 DEF n
  <2>3. IsTable(u, D \cup (Offs .. To))
    <3>1. PICK a : a = n + 1
      OBVIOUS
    <3>2. a \in 1 .. n + 1 /\ n \in a - 1 .. n /\ a .. n = {} /\ a = n - n + a
      BY <1>2, <3>1
    <3>3. \A k \in 1 .. n : k < a /\ ~(n < k)
      BY <1>2, <3>1
    <3>4. Replaced(u, t, a, n, e)
      BY <1>2, <2>2, <3>1, <3>2 DEF Replaced, n
    <3>6. \A k \in 1 .. n : t[k].wbi_To + 1 < Offs
      BY <1>3, <1>7
    <3>7. e.wbi_From <= e.wbi_To
      BY <1>5, <1>6
    <3>8. \A k \in 1 .. n : t[k].wbi_To + 1 < e.wbi_From
      BY <3>6, <1>6
    <3>5. StandsFor(e, Offs .. To, t, a, n)
      BY <1>6, <3>2, <3>3, <3>7, <3>8, Zenon DEF StandsFor, n
    <3>. QED
      BY <3>2, <3>4, <3>5, <1>5, <2>2, Splice, Zenon DEF n
  <2>4. Offs \notin D
    <3>1. ASSUME Offs \in D PROVE FALSE
      <4>1. PICK k \in 1 .. n : InEntry(t[k], Offs)
        BY <3>1, <1>2
      <4>. QED
        BY <4>1, <1>2, <1>3, <1>7 DEF InEntry
    <3>. QED
      BY <3>1
  <2>. QED
    BY <2>2, <2>3, <2>4, <1>2 DEF u, n, To
<1>8. CASE i # 0 /\ ~(t[i].wbi_From <= To + 1)
  <2>0. i \in 1 .. n /\ \A k \in 1 .. n : k < i => t[k].wbi_To + 1 < Offs
    BY <1>3, <1>8
  <2>1. PICK z : z = i - 1
    OBVIOUS
  <2>2. /\ i \in 1 .. Len(t) + 1 /\ z \in i - 1 .. Len(t) /\ i .. z = {} /\ z + 1 = i
        /\ t \in Seq(Entry) /\ e \in Entry
    BY <2>0, <2>1, <1>2, <1>6 DEF n
  <2>3. u = SubSeq(t, 1, i - 1) \o <<e>> \o SubSeq(t, z + 1, Len(t))
    BY <1>4, <1>8, <2>2, Zenon DEF InsertAt
  <2>4. u \in Seq(Entry) /\ Replaced(u, t, i, z, e)
    BY <2>2, <2>3, ReplaceFacts, Zenon
  <2>8. To + 1 < t[i].wbi_From
    BY <1>8, <2>0, <1>2, <1>5
  <2>5. IsTable(u, D \cup (Offs .. To))
    <3>1. \A k \in 1 .. Len(t) : z < k => e.wbi_To + 1 < t[k].wbi_From
      <4>1. ASSUME NEW k \in 1 .. n, z < k PROVE To + 1 < t[k].wbi_From
        <5>1. k = i \/ i < k
          BY <4>1, <2>0, <2>1, <1>2
        <5>2. CASE i < k
          <6>1. t[i].wbi_To + 1 < t[k].wbi_From /\ t[i].wbi_From <= t[i].wbi_To
            BY <5>2, <1>2, <2>0
          <6>. QED
            BY <6>1, <2>8, <2>0, <1>2, <1>5
        <5>. QED
          BY <5>1, <5>2, <2>8
      <4>. QED
        BY <4>1, <1>6 DEF n
    <3>2. \A k \in 1 .. Len(t) : k < i => t[k].wbi_To + 1 < e.wbi_From
      BY <2>0, <1>6 DEF n
    <3>3. StandsFor(e, Offs .. To, t, i, z)
      BY <3>1, <3>2, <1>5, <1>6, <2>2, Zenon DEF StandsFor
    <3>. QED
      BY <3>3, <1>5, <2>2, <2>4, Splice, Zenon
  <2>6. Offs \notin D
    <3>1. ASSUME Offs \in D PROVE FALSE
      <4>1. PICK k \in 1 .. n : InEntry(t[k], Offs)
        BY <3>1, <1>2
      <4>2. k < i \/ k = i \/ i < k
        BY <2>0, <1>2
      <4>. QED
        BY <4>1, <4>2, <1>2, <1>5, <2>0, <2>8 DEF InEntry
    <3>. QED
      BY <3>1
  <2>7. Len(u) = n + 1
    BY <2>0, <2>1, <2>4, <1>2 DEF n, Replaced
  <2>. QED
    BY <2>5, <2>6, <2>7, <1>2 DEF u, n, To
<1>9. ASSUME i # 0, t[i].wbi_From <= To + 1,
             NEW z \in i .. n, t[z].wbi_From <= To + 1,
             \A k \in 1 .. n : z < k => To + 1 < t[k].wbi_From,
             NEW m, m = Interval(Min({t[i].wbi_From, Offs}), Max({To, t[z].wbi_To})),
             m \in Entry => u \in Seq(Entry) /\ Replaced(u, t, i, z, m)
      PROVE  IsTable(u, D \cup (Offs .. To)) /\ Len(u) <= n
  <2>1. /\ i \in 1 .. Len(t) /\ Offs <= t[i].wbi_To + 1 /\ z \in i .. Len(t)
        /\ \A k \in 1 .. Len(t) : k < i => t[k].wbi_To + 1 < Offs
        /\ \A k \in 1 .. Len(t) : z < k => To + 1 < t[k].wbi_From
    BY <1>3, <1>9 DEF n
  <2>2. StandsFor(m, Offs .. To, t, i, z)
    BY <2>1, <1>5, <1>9, MeltedEntry, Zenon
  <2>3. i \in 1 .. Len(t) + 1 /\ z \in i - 1 .. Len(t) /\ Len(t) - z + i <= n
    BY <2>1, <1>2 DEF n
  <2>4. u \in Seq(Entry) /\ Replaced(u, t, i, z, m)
    BY <2>2, <1>9, Zenon DEF StandsFor
  <2>5. IsTable(u, D \cup (Offs .. To))
    BY <2>2, <2>3, <2>4, <1>5, Splice, Zenon
  <2>6. Len(u) <= n
    BY <2>3, <2>4, Zenon DEF Replaced
  <2>. QED
    BY <2>5, <2>6
<1>10. CASE i # 0 /\ t[i].wbi_From <= To + 1 /\ n > i /\ t[i + 1].wbi_From <= To + 1
  <2>1. PICK z : z = MeltLast(t, i, To)
    OBVIOUS
  <2>2. i \in 1 .. Len(t) /\ i < Len(t) /\ t \in Seq(Entry)
    BY <1>2, <1>3, <1>10 DEF n
  <2>3. /\ z \in i + 1 .. Len(t) /\ t[z].wbi_From <= To + 1
        /\ \A k \in 1 .. Len(t) : z < k => To + 1 < t[k].wbi_From
    BY <2>1, <2>2, <1>5, <1>10, MeltLastFacts
  <2>4. PICK m : m = Interval(Min({t[i].wbi_From, Offs}), Max({To, t[z].wbi_To}))
    OBVIOUS
  <2>5. u = SubSeq(t, 1, i - 1) \o <<m>> \o SubSeq(t, z + 1, Len(t))
    <3>1. u = WBufDoMelt(t, i, Offs, To)
      BY <1>4, <1>10
    <3>. QED
      BY <3>1, <2>1, <2>4, Zenon DEF WBufDoMelt
  <2>6. i \in 1 .. Len(t) + 1 /\ z \in i - 1 .. Len(t) /\ z \in i .. Len(t)
    BY <2>2, <2>3, <1>2 DEF n
  <2>7. ASSUME m \in Entry
        PROVE  u \in Seq(Entry) /\ Replaced(u, t, i, z, m)
    BY <2>2, <2>5, <2>6, <2>7, ReplaceFacts, Zenon
  <2>8. IsTable(u, D \cup (Offs .. To)) /\ Len(u) <= n
    BY <1>9, <1>10, <2>3, <2>4, <2>6, <2>7 DEF n
  <2>9. Len(u) \in Nat
    BY <2>8, TableTypes DEF IsTable
  <2>. QED
    BY <2>8, <2>9, <1>2 DEF u, n, To
<1>11. CASE i # 0 /\ t[i].wbi_From <= To + 1 /\ ~(n > i /\ t[i + 1].wbi_From <= To + 1)
  <2>1. PICK m : m = Interval(Min({t[i].wbi_From, Offs}), Max({To, t[i].wbi_To}))
    OBVIOUS
  <2>2. u = [t EXCEPT ![i] = m]
    <3>1. {t[i].wbi_To, To} = {To, t[i].wbi_To}
      OBVIOUS
    <3>2. u = [t EXCEPT ![i] = Interval(Min({t[i].wbi_From, Offs}),
                                        Max({t[i].wbi_To, To}))]
      BY <1>4, <1>11
    <3>. QED
      BY <3>1, <3>2, <2>1
  <2>3. i \in 1 .. n /\ i \in i .. n
    BY <1>2, <1>3, <1>11
  <2>4. ASSUME NEW k \in 1 .. n, i < k PROVE To + 1 < t[k].wbi_From
    <3>1. i + 1 \in 1 .. n /\ n > i
      BY <2>3, <2>4, <1>2
    <3>2. To + 1 < t[i + 1].wbi_From
      BY <3>1, <1>2, <1>5, <1>11
    <3>3. k = i + 1 \/ i + 1 < k
      BY <2>3, <2>4
    <3>4. CASE i + 1 < k
      <4>1. t[i + 1].wbi_To + 1 < t[k].wbi_From /\ t[i + 1].wbi_From <= t[i + 1].wbi_To
        BY <3>1, <3>4, <1>2
      <4>. QED
        BY <4>1, <3>1, <3>2, <1>2, <1>5
    <3>. QED
      BY <3>2, <3>3, <3>4
  <2>5. ASSUME m \in Entry
        PROVE  u \in Seq(Entry) /\ Replaced(u, t, i, i, m)
    <3>1. u \in Seq(Entry) /\ Len(u) = n
      BY <2>2, <2>3, <2>5, <1>2, ExceptSeq DEF n
    <3>2. \A k \in 1 .. n : k + i - i = k /\ u[k] = IF k = i THEN m ELSE t[k]
      BY <2>2, <2>3, <1>2
    <3>3. n - i + i = n
      BY <2>3, <1>2
    <3>. QED
      BY <3>1, <3>2, <3>3 DEF n, Replaced
  <2>6. IsTable(u, D \cup (Offs .. To)) /\ Len(u) <= n
    BY <1>9, <1>11, <2>1, <2>3, <2>4, <2>5
  <2>7. Len(u) \in Nat
    BY <2>6, TableTypes DEF IsTable
  <2>. QED
    BY <2>6, <2>7, <1>2 DEF u, n, To
<1>. QED
  BY <1>7, <1>8, <1>10, <1>11

-----------------------------------------------------------------------------
(***************************************************************************)
(* The tables of the chain.  Only the entries of PosData are counted after *)
(* a copy, and the buffer filled may be the one after it.  It still cannot *)
(* overflow: a write gets there only from its own end, at the first byte   *)
(* of that buffer, and a second such write melts with the first.           *)
(***************************************************************************)

\* n entries of buffer b leave room for the next copy.
Room(b, n) ==
    \/ n + 2 <= WBUFHDRINFOSIZE
    \/ n + 1 <= WBUFHDRINFOSIZE /\ b.offs \in b.dirty

\* The bytes of b have a table, with room for the next copy, or, right after
\* a copy (full), one that fits into the array.
Tabled(b, full) ==
    /\ Aligned(b.offs)
    /\ \E t : /\ IsTable(t, b.dirty)
              /\ Room(b, Len(t)) \/ (full /\ Len(t) <= WBUFHDRINFOSIZE)

\* Where a copy begins.
Filling ==
    /\ pc = "place" =>
         Aligned(WbcPos) \/ Holds(chain[posData], WbcPos) \/ ~NextHolds(WbcPos)
    /\ pc = "copy" =>
         target = posData \/ (target = posData + 1 /\ WbcPos = chain[target].offs)
    /\ pc = "check" /\ left > 0 => Aligned(WbcPos)

TableInv ==
    /\ \A i \in DOMAIN chain : Tabled(chain[i], pc = "check" /\ i = posData)
    /\ Filling

LEMMA InfoSize == WBUFHDRINFOSIZE \in Nat /\ WBUFHDRINFOSIZE >= 2
BY WriteCacheAssumption

LEMMA EmptyTable == IsTable(<<>>, {}) /\ Len(<<>>) = 0
<1>1. <<>> \in Seq(Entry) /\ Len(<<>>) = 0 /\ 1 .. 0 = {}
  OBVIOUS
<1>. QED
  BY <1>1 DEF IsTable

LEMMA TableLength ==
    ASSUME NEW t, NEW D, IsTable(t, D)
    PROVE  Len(t) \in Nat
BY TableTypes DEF IsTable

\* A new buffer has the empty table.
LEMMA NewTabled ==
    ASSUME NEW pos \in Nat, NEW full \in BOOLEAN
    PROVE  Tabled(NewWBuf(pos), full)
<1>1. /\ NewWBuf(pos).offs = WBufAlignFileOffs(pos)
      /\ Aligned(WBufAlignFileOffs(pos)) /\ NewWBuf(pos).dirty = {}
  BY NewBufferFacts
<1>2. Room(NewWBuf(pos), 0)
  BY InfoSize DEF Room
<1>3. Aligned(NewWBuf(pos).offs)
  BY <1>1
<1>. QED
  BY <1>1, <1>2, <1>3, EmptyTable, Zenon DEF Tabled

\* A step that ends with an empty chain outside a write.
LEMMA EmptyTabled ==
    ASSUME chain' = <<>>, pc' \notin {"place", "copy", "check"}
    PROVE  TableInv'
BY EmptyChain DEF TableInv, Filling

\* A step that leaves the chain alone outside a write.
LEMMA KeptTabled ==
    ASSUME TableInv, chain' = chain, pc # "check", pc' \notin {"place", "copy", "check"}
    PROVE  TableInv'
<1>1. \A i \in DOMAIN chain' : Tabled(chain'[i], FALSE)
  BY DEF TableInv
<1>2. \A i \in DOMAIN chain' : Tabled(chain'[i], pc' = "check" /\ i = posData')
  BY <1>1
<1>3. Filling'
  BY DEF Filling
<1>. QED
  BY <1>2, <1>3 DEF TableInv, Tabled, Aligned, WBufAlignFileOffs, Room, IsTable, InEntry, Entry

\* The place behind an aligned buffer is aligned.
LEMMA AlignedNext ==
    ASSUME NEW a \in Nat, Aligned(a)
    PROVE  Aligned(a + MBUFSIZE)
<1>1. MBUFSIZE \in Nat \ {0} /\ a + MBUFSIZE \in Nat
  BY WriteCacheAssumption
<1>2. /\ WBufAlignFileOffs(a + MBUFSIZE) \in Nat
      /\ a + MBUFSIZE < WBufAlignFileOffs(a + MBUFSIZE) + MBUFSIZE
      /\ WBufAlignFileOffs(a + MBUFSIZE) <= a + MBUFSIZE
  BY <1>1, NewBufferFacts
<1>3. a + MBUFSIZE <= WBufAlignFileOffs(a + MBUFSIZE)
  BY <1>1, AlignedFacts
<1>4. WBufAlignFileOffs(a + MBUFSIZE) = a + MBUFSIZE
  BY <1>1, <1>2, <1>3
<1>. QED
  BY <1>4 DEF Aligned

\* An aligned position that a buffer holds is its first.
LEMMA AlignedHeld ==
    ASSUME NEW a \in Nat, Aligned(a), NEW p \in Nat, Aligned(p),
           a <= p, p < a + MBUFSIZE
    PROVE  p = a
<1>1. a < p => WBufAlignFileOffs(a) + MBUFSIZE <= p
  BY AlignedFacts
<1>. QED
  BY <1>1, WriteCacheAssumption DEF Aligned

\* WBufSeekAndPrepare leaves PosData on the buffer that holds pos, or where
\* the next one does not hold it, unless pos is the end of PosData's buffer.
LEMMA SeekIndexFilling ==
    ASSUME TypeOK, NEW pos \in Nat, ~NeedsHead(pos),
           \A i \in DOMAIN chain : Aligned(chain[i].offs)
    PROVE  \/ Aligned(pos)
           \/ Holds(chain[SeekIndex(pos)], pos)
           \/ ~(SeekIndex(pos) < Len(chain) /\ Holds(chain[SeekIndex(pos) + 1], pos))
<1>. DEFINE K == {k \in DOMAIN chain : chain[k].offs >= pos - MBUFSIZE}
            i == Min(K)
<1>1. /\ Len(chain) \in Nat /\ DOMAIN chain = 1 .. Len(chain)
      /\ \A k \in DOMAIN chain : chain[k].offs \in Nat
      /\ MBUFSIZE \in Nat
  BY ChainTypes, WriteCacheAssumption
<1>2. chain # <<>>
  BY DEF NeedsHead
<1>3. Len(chain) > 0 /\ Last(chain) = chain[Len(chain)]
  BY <1>1, <1>2, EmptySeq DEF TypeOK, Last
<1>4. CASE pos >= Last(chain).offs + MBUFSIZE
  <2>1. SeekIndex(pos) = Len(chain)
    BY <1>4 DEF SeekIndex
  <2>. QED
    BY <2>1, <1>1
<1>5. CASE ~(pos >= Last(chain).offs + MBUFSIZE)
  <2>1. SeekIndex(pos) = IF chain[i].offs > pos THEN i - 1 ELSE i
    BY <1>5 DEF SeekIndex
  <2>2. Len(chain) \in K
    BY <1>1, <1>3, <1>5
  <2>3. K \in SUBSET Nat /\ K # {}
    BY <1>1, <2>2
  <2>4. i \in K
    BY <2>3, MinOfNats, Zenon
  <2>5. i \in DOMAIN chain /\ chain[i].offs >= pos - MBUFSIZE
    BY <2>4
  <2>. HIDE DEF i, K
  <2>6. CASE chain[i].offs > pos
    <3>1. SeekIndex(pos) + 1 = i
      BY <2>1, <2>5, <2>6, <1>1
    <3>2. ~Holds(chain[i], pos)
      BY <2>5, <2>6, <1>1 DEF Holds
    <3>. QED
      BY <3>1, <3>2
  <2>7. CASE ~(chain[i].offs > pos)
    <3>1. SeekIndex(pos) = i
      BY <2>1, <2>7
    <3>2. CASE pos = chain[i].offs + MBUFSIZE
      <4>1. Aligned(chain[i].offs + MBUFSIZE)
        BY <2>5, <1>1, AlignedNext
      <4>. QED
        BY <4>1, <3>2
    <3>3. CASE pos # chain[i].offs + MBUFSIZE
      <4>1. Holds(chain[i], pos)
        BY <2>5, <2>7, <3>3, <1>1 DEF Holds
      <4>. QED
        BY <4>1, <3>1
    <3>. QED
      BY <3>2, <3>3
  <2>. QED
    BY <2>6, <2>7
<1>. QED
  BY <1>4, <1>5

LEMMA PrimedTables ==
    ASSUME \A i \in DOMAIN chain' : Tabled(chain'[i], pc' = "check" /\ i = posData'),
           Filling'
    PROVE  TableInv'
BY DEF TableInv, Tabled, Aligned, WBufAlignFileOffs, Room, IsTable, InEntry, Entry

\* The tables at the start of a buffered write.
LEMMA PrepareTabled ==
    ASSUME Inv, TableInv, pc = "idle", NEW n \in Nat, n > 0, filePos + n <= MaxFile,
           WBufSeekAndPrepare(n), UNCHANGED <<hasWBuf, other>>
    PROVE  TableInv'
<1>1. /\ filePos \in Nat /\ num' = n /\ left' = n /\ filePos' = filePos
      /\ Len(chain) \in Nat /\ DOMAIN chain = 1 .. Len(chain) /\ chain \in Seq(Buffer)
  BY ChainTypes DEF WBufSeekAndPrepare, file, Inv, TypeOK
<1>2. WbcPos' = filePos
  BY <1>1 DEF WbcPos
<1>3. pc' = "place"
  <2>1. Inv'
    BY <1>1, SeekAndPrepareInv
  <2>2. pc' \in {"place", "nomem"}
    BY DEF WBufSeekAndPrepare
  <2>. QED
    BY <2>1, <2>2 DEF Inv, NeverNoMem
<1>4. \A i \in DOMAIN chain : Tabled(chain[i], FALSE)
  BY DEF TableInv
<1>5. PICK b : b = NewWBuf(filePos)
  OBVIOUS
<1>6. b \in Buffer /\ Tabled(b, FALSE) /\ Holds(b, filePos)
  BY <1>1, <1>5, NewTabled, NewBufferFacts, AlignFacts
<1>7. ASSUME \A i \in DOMAIN chain' : Tabled(chain'[i], FALSE),
             \/ Aligned(filePos) \/ Holds(chain'[posData'], filePos)
             \/ ~(posData' < Len(chain') /\ Holds(chain'[posData' + 1], filePos))
      PROVE  TableInv'
  <2>1. \A i \in DOMAIN chain' : Tabled(chain'[i], pc' = "check" /\ i = posData')
    BY <1>3, <1>7
  <2>2. Filling'
    BY <1>2, <1>3, <1>7 DEF Filling, NextHolds, Aligned, WBufAlignFileOffs, Holds
  <2>. QED
    BY <2>1, <2>2, PrimedTables
<1>8. CASE ~NeedsHead(filePos) /\ posData' = SeekIndex(filePos) /\ chain' = chain
  <2>1. \A i \in DOMAIN chain : Aligned(chain[i].offs)
    BY <1>4 DEF Tabled
  <2>2. \/ Aligned(filePos)
        \/ Holds(chain[SeekIndex(filePos)], filePos)
        \/ ~(/\ SeekIndex(filePos) < Len(chain)
             /\ Holds(chain[SeekIndex(filePos) + 1], filePos))
    BY <2>1, <1>1, <1>8, SeekIndexFilling DEF Inv
  <2>. HIDE DEF SeekIndex
  <2>. QED
    BY <2>2, <1>4, <1>7, <1>8
<1>9. CASE posData' = 1 /\ chain' = <<b>> \o chain
  <2>1. DOMAIN chain' = 1 .. Len(chain) + 1 /\ chain'[1] = b
    BY <1>1, <1>6, <1>9
  <2>2. \A i \in 1 .. Len(chain) + 1 : i # 1 => i - 1 \in DOMAIN chain /\ chain'[i] = chain[i - 1]
    BY <1>1, <1>6, <1>9
  <2>3. \A i \in DOMAIN chain' : Tabled(chain'[i], FALSE)
    BY <2>1, <2>2, <1>4, <1>6, Zenon
  <2>4. Holds(chain'[posData'], filePos)
    BY <2>1, <1>6, <1>9
  <2>. QED
    BY <2>3, <2>4, <1>7
<1>10. CASE posData' = 1 /\ chain' = <<b>>
  <2>1. DOMAIN chain' = {1} /\ chain'[1] = b
    BY <1>6, <1>10, OneBuffer
  <2>2. \A i \in DOMAIN chain' : Tabled(chain'[i], FALSE)
    BY <2>1, <1>6, Zenon
  <2>3. Holds(chain'[posData'], filePos)
    BY <2>1, <1>6, <1>10
  <2>. QED
    BY <2>2, <2>3, <1>7
<1>. QED
  BY <1>3, <1>5, <1>8, <1>9, <1>10 DEF WBufSeekAndPrepare, WBufAddHead, FlushOK, data

\* A buffer is chosen or inserted.  The next one is chosen only by a write
\* that has come to its first byte.
LEMMA PlaceTabled ==
    ASSUME Inv, TableInv, WBufPlace
    PROVE  TableInv'
<1>1. /\ pc = "place" /\ posData \in DOMAIN chain /\ posData \in Nat
      /\ left \in Nat /\ left <= num /\ num \in Nat /\ filePos \in Nat
      /\ MBUFSIZE \in Nat
  BY WriteCacheAssumption DEF WBufPlace, Inv, CallSound, TypeOK
<1>2. /\ Len(chain) \in Nat /\ DOMAIN chain = 1 .. Len(chain) /\ chain \in Seq(Buffer)
      /\ \A i \in DOMAIN chain : chain[i].offs \in Nat
  BY ChainTypes DEF Inv, TypeOK
<1>3. WbcPos \in Nat
  BY <1>1 DEF WbcPos
<1>4. /\ \A i \in DOMAIN chain : Tabled(chain[i], FALSE)
      /\ Aligned(WbcPos) \/ Holds(chain[posData], WbcPos) \/ ~NextHolds(WbcPos)
  BY <1>1 DEF TableInv, Filling
<1>5. CASE WriteFlushFails
  BY <1>5, EmptyTabled DEF WriteFlushFails, FlushFails
<1>6. PICK b : b = NewWBuf(WbcPos)
  OBVIOUS
<1>7. b \in Buffer /\ Tabled(b, FALSE)
  BY <1>3, <1>6, NewTabled, NewBufferFacts
<1>8. CASE /\ PlaceHere \/ PlaceNext \/ PlaceInsert \/ PlaceAfterFlush
           /\ pc' = "copy"
           /\ UNCHANGED <<num, left, file, told>>
  <2>1. WbcPos' = WbcPos
    BY <1>8 DEF WbcPos, file
  <2>2. ASSUME \A i \in DOMAIN chain' : Tabled(chain'[i], FALSE),
               target' = posData'
                 \/ (target' = posData' + 1 /\ WbcPos = chain'[target'].offs)
        PROVE  TableInv'
    <3>1. \A i \in DOMAIN chain' : Tabled(chain'[i], pc' = "check" /\ i = posData')
      BY <1>8, <2>2
    <3>2. Filling'
      BY <1>8, <2>1, <2>2 DEF Filling
    <3>. QED
      BY <3>1, <3>2, PrimedTables
  <2>3. CASE PlaceHere
    BY <2>2, <2>3, <1>4 DEF PlaceHere
  <2>4. CASE PlaceNext
    <3>1. /\ target' = posData + 1 /\ posData' = posData /\ chain' = chain
          /\ posData < Len(chain) /\ Holds(chain[posData + 1], WbcPos)
          /\ WbcPos >= chain[posData].offs + MBUFSIZE /\ NextHolds(WbcPos)
      BY <2>4 DEF PlaceNext, NextHolds
    <3>2. posData + 1 \in DOMAIN chain
      BY <3>1, <1>1, <1>2
    <3>3. ~Holds(chain[posData], WbcPos)
      BY <3>1, <1>1, <1>2, <1>3 DEF Holds
    <3>4. Aligned(WbcPos) /\ Aligned(chain[posData + 1].offs)
      BY <3>1, <3>2, <3>3, <1>4 DEF Tabled
    <3>5. /\ chain[posData + 1].offs \in Nat /\ chain[posData + 1].offs <= WbcPos
          /\ WbcPos < chain[posData + 1].offs + MBUFSIZE
      BY <3>1, <3>2, <1>2 DEF Holds
    <3>6. WbcPos = chain[posData + 1].offs
      BY <3>4, <3>5, <1>3, AlignedHeld
    <3>. QED
      BY <3>1, <3>6, <2>2, <1>4
  <2>5. CASE PlaceInsert
    <3>1. /\ target' = posData + 1 /\ posData' = posData + 1
          /\ chain' = InsertAt(chain, posData + 1, b)
      BY <2>5, <1>6 DEF PlaceInsert, InsertAfter
    <3>2. PICK j : j = posData + 1
      OBVIOUS
    <3>3. j \in 1 .. Len(chain) + 1 /\ chain \in Seq(Buffer) /\ b \in Buffer
      BY <3>2, <1>1, <1>2, <1>7
    <3>4. /\ InsertAt(chain, j, b) \in Seq(Buffer)
          /\ Len(InsertAt(chain, j, b)) = Len(chain) + 1
          /\ \A k \in 1 .. Len(chain) + 1 :
               InsertAt(chain, j, b)[k] = IF k < j THEN chain[k]
                                          ELSE IF k = j THEN b ELSE chain[k - 1]
      BY <3>3, InsertBuffer, Zenon
    <3>5. PICK c : c = InsertAt(chain, j, b)
      OBVIOUS
    <3>6. /\ c \in Seq(Buffer) /\ Len(c) = Len(chain) + 1 /\ chain' = c
          /\ \A k \in 1 .. Len(chain) + 1 :
               c[k] = IF k < j THEN chain[k] ELSE IF k = j THEN b ELSE chain[k - 1]
      BY <3>1, <3>2, <3>4, <3>5, Zenon
    <3>7. ASSUME NEW k \in DOMAIN c PROVE Tabled(c[k], FALSE)
      <4>1. k \in 1 .. Len(chain) + 1
        BY <3>6
      <4>2. CASE k < j
        <5>1. k \in DOMAIN chain /\ c[k] = chain[k]
          BY <4>1, <4>2, <3>3, <3>6, <1>2
        <5>. QED
          BY <5>1, <1>4, Zenon
      <4>3. CASE k = j
        <5>1. c[k] = b
          BY <4>1, <4>3, <3>3, <3>6
        <5>. QED
          BY <5>1, <1>7, Zenon
      <4>4. CASE k > j
        <5>1. k - 1 \in DOMAIN chain /\ c[k] = chain[k - 1]
          BY <4>1, <4>4, <3>3, <3>6, <1>2
        <5>. QED
          BY <5>1, <1>4, Zenon
      <4>5. k \in Nat /\ j \in Nat
        BY <4>1, <3>2, <1>1
      <4>6. k < j \/ k = j \/ k > j
        BY <4>5
      <4>. QED
        BY <4>2, <4>3, <4>4, <4>6
    <3>. QED
      BY <3>1, <3>6, <3>7, <2>2, Zenon
  <2>6. CASE PlaceAfterFlush
    <3>1. target' = 1 /\ posData' = 1 /\ chain' = <<b>>
      BY <2>6, <1>6 DEF PlaceAfterFlush, FlushOK
    <3>2. DOMAIN chain' = {1} /\ chain'[1] = b
      BY <3>1, <1>7, OneBuffer
    <3>3. \A i \in DOMAIN chain' : Tabled(chain'[i], FALSE)
      BY <3>2, <1>7, Zenon
    <3>. QED
      BY <3>1, <3>3, <2>2
  <2>. QED
    BY <1>8, <2>3, <2>4, <2>5, <2>6
<1>. QED
  BY <1>5, <1>8 DEF WBufPlace

\* A copy melts into the table of the buffer that is filled.  At PosData it
\* may take the last entry, elsewhere it leaves one.
LEMMA CopyTabled ==
    ASSUME Inv, TableInv, WBufCopy
    PROVE  TableInv'
<1>1. /\ pc = "copy" /\ pc' = "check" /\ chain' = ChainAfterCopy /\ posData' = posData
      /\ left' = left - Cnt /\ num' = num /\ filePos' = filePos
      /\ target \in DOMAIN chain /\ Holds(chain[target], WbcPos)
      /\ left \in Nat /\ left > 0 /\ left <= num /\ num \in Nat /\ filePos \in Nat
      /\ MBUFSIZE \in Nat
  BY WriteCacheAssumption DEF WBufCopy, Inv, CallSound, TypeOK, file
<1>2. /\ Len(chain) \in Nat /\ DOMAIN chain = 1 .. Len(chain)
      /\ \A i \in DOMAIN chain : chain[i] \in Buffer /\ chain[i].offs \in Nat
  BY ChainTypes DEF Inv
<1>3. WbcPos \in Nat
  BY <1>1 DEF WbcPos
<1>4. /\ Cnt \in Nat \ {0} /\ Cnt <= left
      /\ left - Cnt > 0 => WbcPos + Cnt = chain[target].offs + MBUFSIZE
  BY <1>1, <1>2, <1>3 DEF Cnt, Smaller, Holds
<1>5. WbcPos' = WbcPos + Cnt
  <2>. HIDE DEF Cnt
  <2>. QED
    BY <1>1, <1>4 DEF WbcPos
<1>6. /\ \A i \in DOMAIN chain : Tabled(chain[i], FALSE)
      /\ target = posData \/ (target = posData + 1 /\ WbcPos = chain[target].offs)
  BY <1>1 DEF TableInv, Filling
<1>. HIDE DEF Cnt, WbcPos
<1>7. DOMAIN chain' = DOMAIN chain
  BY <1>1 DEF ChainAfterCopy
<1>8. ASSUME NEW i \in DOMAIN chain
      PROVE  /\ chain'[i].offs = chain[i].offs
             /\ chain'[i].dirty = IF i = target THEN chain[i].dirty \cup Copied
                                  ELSE chain[i].dirty
  <2>0. chain[i] = [offs |-> chain[i].offs, dirty |-> chain[i].dirty,
                    old |-> chain[i].old]
    BY <1>2 DEF Buffer
  <2>1. CASE i = target
    <3>1. chain'[i] = [chain[i] EXCEPT !.dirty = @ \cup Copied, !.old = @ \ Copied]
      BY <2>1, <1>1 DEF ChainAfterCopy
    <3>. QED
      BY <2>0, <2>1, <3>1
  <2>2. CASE i # target
    <3>1. chain'[i] = [chain[i] EXCEPT !.old = @ \cup (chain[i].dirty \cap Copied)]
      BY <2>2, <1>1 DEF ChainAfterCopy
    <3>. QED
      BY <2>0, <2>2, <3>1
  <2>. QED
    BY <2>1, <2>2
<1>9. ASSUME NEW i \in DOMAIN chain, i # target
      PROVE  Tabled(chain'[i], i = posData)
  <2>1. chain'[i].offs = chain[i].offs /\ chain'[i].dirty = chain[i].dirty
    BY <1>8, <1>9
  <2>2. Tabled(chain[i], FALSE)
    BY <1>6
  <2>. QED
    BY <2>1, <2>2, Zenon DEF Tabled, Room
<1>10. Tabled(chain'[target], target = posData)
  <2>1. PICK t : IsTable(t, chain[target].dirty) /\ Room(chain[target], Len(t))
    BY <1>1, <1>6, Zenon DEF Tabled
  <2>2. PICK u : u = WBufUpdateInfo(t, WbcPos, Cnt)
    OBVIOUS
  <2>3. /\ IsTable(u, chain[target].dirty \cup (WbcPos .. WbcPos + Cnt - 1))
        /\ Len(u) <= Len(t) + 1
        /\ WbcPos \in chain[target].dirty => Len(u) <= Len(t)
    BY <2>1, <2>2, <1>3, <1>4, UpdateTable, Zenon
  <2>4. Len(t) \in Nat /\ Len(u) \in Nat
    BY <2>1, <2>3, TableLength
  <2>5. /\ chain'[target].offs = chain[target].offs
        /\ chain'[target].dirty = chain[target].dirty \cup Copied
    BY <1>1, <1>8
  <2>6. IsTable(u, chain'[target].dirty)
    BY <2>3, <2>5 DEF Copied
  <2>7. Aligned(chain'[target].offs)
    BY <2>5, <1>1, <1>6 DEF Tabled
  <2>8. CASE target = posData
    <3>1. Len(u) <= WBUFHDRINFOSIZE
      BY <2>1, <2>3, <2>4, InfoSize DEF Room
    <3>. QED
      BY <3>1, <2>6, <2>7, <2>8, Zenon DEF Tabled
  <2>9. CASE WbcPos = chain[target].offs
    <3>1. WbcPos \in Copied
      BY <1>3, <1>4 DEF Copied
    <3>2. chain'[target].offs \in chain'[target].dirty
      BY <3>1, <2>5, <2>9
    <3>3. Len(u) + 1 <= WBUFHDRINFOSIZE
      BY <2>1, <2>3, <2>4, <2>9, InfoSize DEF Room
    <3>. QED
      BY <3>2, <3>3, <2>6, <2>7, Zenon DEF Tabled, Room
  <2>. QED
    BY <2>8, <2>9, <1>6
<1>11. Filling'
  <2>1. ASSUME left' > 0 PROVE Aligned(WbcPos + Cnt)
    <3>1. WbcPos + Cnt = chain[target].offs + MBUFSIZE
      BY <2>1, <1>1, <1>4
    <3>2. Aligned(chain[target].offs) /\ chain[target].offs \in Nat
      BY <1>1, <1>2, <1>6 DEF Tabled
    <3>. QED
      BY <3>1, <3>2, AlignedNext
  <2>. QED
    BY <2>1, <1>1, <1>5 DEF Filling, Aligned, WBufAlignFileOffs
<1>12. \A i \in DOMAIN chain' : Tabled(chain'[i], pc' = "check" /\ i = posData')
  <2>1. ASSUME NEW i \in DOMAIN chain PROVE Tabled(chain'[i], i = posData)
    BY <1>9, <1>10
  <2>. QED
    BY <2>1, <1>1, <1>7
<1>. QED
  BY <1>11, <1>12, PrimedTables

\* After the check PosData's table has room again, or the chain is empty.
LEMMA CheckTabled ==
    ASSUME Inv, TableInv, WBufCheckInfo
    PROVE  TableInv'
<1>1. pc = "check" /\ posData \in DOMAIN chain
  BY DEF WBufCheckInfo, Inv, CallSound
<1>2. CASE WriteFlushFails
  BY <1>2, EmptyTabled DEF WriteFlushFails, FlushFails
<1>3. CASE CheckFlush
  BY <1>3, EmptyTabled DEF CheckFlush, FlushOK, WriteDone
<1>4. CASE CheckKeep
  <2>1. ASSUME NEW i \in DOMAIN chain PROVE Tabled(chain[i], FALSE)
    <3>1. Tabled(chain[i], i = posData)
      BY <1>1 DEF TableInv
    <3>2. CASE i # posData
      BY <3>1, <3>2
    <3>3. CASE i = posData
      <4>1. PICK t : IsTable(t, chain[i].dirty)
        BY <3>1 DEF Tabled
      <4>2. NumRuns(chain[i].dirty) = Len(t) /\ Len(t) \in Nat
        BY <4>1, TableEntries, TableLength
      <4>3. Room(chain[i], Len(t))
        BY <4>2, <3>3, <1>4, InfoSize DEF CheckKeep, InfoFull, Room
      <4>. QED
        BY <4>1, <4>3, <3>1, Zenon DEF Tabled
    <3>. QED
      BY <3>2, <3>3
  <2>2. chain' = chain /\ pc' \in {"place", "idle"}
    BY <1>4 DEF CheckKeep, WriteDone, data
  <2>3. \A i \in DOMAIN chain' : Tabled(chain'[i], pc' = "check" /\ i = posData')
    BY <2>1, <2>2
  <2>4. Filling'
    <3>1. CASE left = 0
      BY <3>1, <1>4 DEF CheckKeep, WriteDone, Filling
    <3>2. CASE left # 0
      <4>1. pc' = "place" /\ WbcPos' = WbcPos /\ left > 0
        BY <3>2, <1>4 DEF CheckKeep, WbcPos, call, Inv, TypeOK
      <4>2. Aligned(WbcPos)
        BY <4>1, <1>1 DEF TableInv, Filling
      <4>. QED
        BY <4>1, <4>2 DEF Filling, Aligned, WBufAlignFileOffs
    <3>. QED
      BY <3>1, <3>2
  <2>. QED
    BY <2>3, <2>4, PrimedTables
<1>. QED
  BY <1>2, <1>3, <1>4 DEF WBufCheckInfo

LEMMA WriteTabled ==
    ASSUME Inv, TableInv, act_WRITE
    PROVE  TableInv'
<1>1. pc = "idle" /\ UNCHANGED <<hasWBuf, other>>
  BY DEF act_WRITE
<1>2. CASE WriteNothing
  BY <1>1, <1>2, EmptyTabled
  DEF WriteNothing, FlushOK, WriteFlushFails, FlushFails
<1>3. CASE \E n \in Sizes : wc_WriteCache(n)
  <2>1. PICK n \in Sizes : wc_WriteCache(n)
    BY <1>3
  <2>2. n \in Nat /\ n > 0 /\ filePos + n <= MaxFile
    BY <2>1, WriteCacheAssumption DEF wc_WriteCache
  <2>3. CASE FlushCacheAndWrite(n)
    BY <2>3, <1>1, EmptyTabled
    DEF FlushCacheAndWrite, DirectWriteOK, DirectWriteFails, WriteFlushFails, FlushFails
  <2>4. CASE WBufSeekAndPrepare(n)
    BY <2>2, <2>4, <1>1, PrepareTabled
  <2>5. CASE PrepareFlushFails(n)
    BY <2>5, EmptyTabled DEF PrepareFlushFails, WriteFlushFails, FlushFails
  <2>. QED
    BY <2>1, <2>3, <2>4, <2>5 DEF wc_WriteCache
<1>. QED
  BY <1>2, <1>3 DEF act_WRITE

LEMMA PacketsTabled ==
    ASSUME Inv, TableInv,
           \/ ReportPending \/ act_SEEK \/ act_FLUSH \/ act_SET_FILE_SIZE
           \/ act_END \/ act_FINDOUTPUT \/ OtherHandles
    PROVE  TableInv'
<1>1. CASE act_FLUSH \/ act_SET_FILE_SIZE \/ act_END
  BY <1>1, EmptyTabled
  DEF act_FLUSH, act_SET_FILE_SIZE, act_END, FlushOK, FlushFails
<1>2. CASE act_FINDOUTPUT
  <2>1. chain' = <<>> /\ pc' = "idle"
    BY <1>2 DEF act_FINDOUTPUT, Inv, CallSound
  <2>. QED
    BY <2>1, EmptyTabled
<1>3. CASE ReportPending \/ act_SEEK \/ OtherHandles
  <2>1. chain' = chain /\ pc' = pc /\ pc \in {"idle", "closed"}
    BY <1>3 DEF ReportPending, act_SEEK, OtherHandles, data
  <2>. QED
    BY <2>1, KeptTabled
<1>. QED
  BY <1>1, <1>2, <1>3

\* The tables fit and are what WBufUpdateInfo makes of them.
LEMMA TablesSuffice ==
    ASSUME Inv, TableInv
    PROVE  TablesExact
<1>1. /\ Len(chain) \in Nat /\ DOMAIN chain = 1 .. Len(chain)
      /\ \A i \in DOMAIN chain : chain[i].offs \in Nat
      /\ MBUFSIZE \in Nat
  BY ChainTypes, WriteCacheAssumption DEF Inv
<1>2. ASSUME NEW i \in DOMAIN chain
      PROVE  NumRuns(chain[i].dirty) <= WBUFHDRINFOSIZE
  <2>1. PICK t : /\ IsTable(t, chain[i].dirty)
                 /\ Room(chain[i], Len(t)) \/ Len(t) <= WBUFHDRINFOSIZE
    BY Zenon DEF TableInv, Tabled
  <2>2. NumRuns(chain[i].dirty) = Len(t) /\ Len(t) \in Nat
    BY <2>1, TableEntries, TableLength
  <2>. QED
    BY <2>1, <2>2, InfoSize DEF Room
<1>3. ASSUME pc = "copy", NEW from \in 0 .. MBUFSIZE - 1, NEW len \in 1 .. MBUFSIZE - from
      PROVE  LET D == chain[target].dirty
                 base == chain[target].offs
             IN  WBufUpdateInfo(InfoTable(D), base + from, len)
                   = InfoTable(D \cup (base + from .. base + from + len - 1))
  <2>1. target \in DOMAIN chain
    BY <1>3 DEF Inv, CallSound
  <2>2. PICK t : IsTable(t, chain[target].dirty)
    BY <2>1 DEF TableInv, Tabled
  <2>3. PICK offs : offs = chain[target].offs + from
    OBVIOUS
  <2>4. offs \in Nat /\ len \in Nat \ {0}
    BY <2>1, <2>3, <1>1
  <2>5. PICK u : u = WBufUpdateInfo(t, offs, len)
    OBVIOUS
  <2>6. IsTable(u, chain[target].dirty \cup (offs .. offs + len - 1))
    BY <2>2, <2>4, <2>5, UpdateTable, Zenon
  <2>7. InfoTable(chain[target].dirty \cup (offs .. offs + len - 1)) = u
    BY <2>6, TableUnique, Zenon
  <2>8. InfoTable(chain[target].dirty) = t
    BY <2>2, TableUnique, Zenon
  <2>. QED
    BY <2>3, <2>5, <2>7, <2>8, Zenon
<1>. QED
  BY <1>2, <1>3, Zenon DEF TablesExact, InfoFits, InfoExact

\* wbh_Info never overflows, although only the entries of PosData are counted
\* (wbuf.c:705), and WBufUpdateInfo keeps it the exact list of the buffer's
\* dirty runs, for every buffer and table size and every client.
THEOREM TablesStayExact == Spec => []TablesExact
<1>1. Init => TableInv
  BY EmptyChain DEF Init, TableInv, Filling
<1>2. ASSUME Inv, TableInv, [Next]_vars PROVE TableInv'
  <2>1. CASE UNCHANGED vars
    BY <1>2, <2>1 DEF vars, TableInv, Filling, Tabled, Room, IsTable, InEntry, Entry,
                      Aligned, WBufAlignFileOffs, NextHolds, Holds, WbcPos
  <2>2. CASE Next
    BY <1>2, <2>2, WriteTabled, PlaceTabled, CopyTabled, CheckTabled, PacketsTabled
    DEF Next
  <2>. QED
    BY <1>2, <2>1, <2>2
<1>3. Inv /\ TableInv => TablesExact
  BY TablesSuffice
<1>. QED
  BY <1>1, <1>2, <1>3, Invariance, PTL DEF Spec
=============================================================================
