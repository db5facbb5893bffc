---------------------------- MODULE ReadBufProofs ----------------------------
(***************************************************************************)
(* Proofs about ReadBuf for every number of handles, every size of buffer, *)
(* pool and file, and all lengths of reads and writes.                     *)
(***************************************************************************)
EXTENDS ReadBuf, FiniteSetTheorems, SequenceTheorems, TLAPS

\* Two sequences with the same length and elements are equal.
LEMMA SameSeq ==
    ASSUME NEW s \in Seq(Nat), NEW t \in Seq(Nat), Len(s) = Len(t),
           \A k \in 1 .. Len(s) : s[k] = t[k]
    PROVE  s = t
BY SeqEqual, Zenon

\* A part of a sequence, as far as the sequence has it.
LEMMA PartFacts ==
    ASSUME NEW f \in Seq(Nat), NEW from \in Nat, NEW n \in Nat
    PROVE  LET b == SubSeq(f, from + 1, Min2(from + n, Len(f)))
           IN  /\ b \in Seq(Nat)
               /\ Len(b) = IF from >= Len(f) THEN 0
                           ELSE IF from + n < Len(f) THEN n ELSE Len(f) - from
               /\ \A k \in 1 .. Len(b) : b[k] = f[from + k]
<1>. DEFINE to == Min2(from + n, Len(f))
            b == SubSeq(f, from + 1, to)
<1>1. to \in Nat /\ to <= Len(f) /\ (to = from + n \/ to = Len(f)) /\ to <= from + n
  BY DEF Min2
<1>. HIDE DEF to
<1>2. /\ b \in Seq(Nat) /\ Len(b) = IF from + 1 <= to THEN to - from ELSE 0
      /\ \A k \in 1 .. to - from : b[k] = f[from + k]
  BY <1>1, SubSeqProperties
<1>. QED
  BY <1>1, <1>2 DEF to

\* The first bytes of a sequence.
LEMMA PrefixFacts ==
    ASSUME NEW s \in Seq(Nat), NEW n \in Nat
    PROVE  LET b == SubSeq(s, 1, Min2(n, Len(s)))
           IN  /\ b \in Seq(Nat)
               /\ Len(b) = IF n < Len(s) THEN n ELSE Len(s)
               /\ \A k \in 1 .. Len(b) : b[k] = s[k]
<1>. DEFINE to == Min2(n, Len(s))
            b == SubSeq(s, 1, to)
<1>1. to \in Nat /\ to <= Len(s) /\ to = IF n < Len(s) THEN n ELSE Len(s)
  BY DEF Min2
<1>. HIDE DEF to
<1>2. /\ b \in Seq(Nat) /\ Len(b) = IF 1 <= to THEN to ELSE 0
      /\ \A k \in 1 .. to : b[k] = s[k]
  BY <1>1, SubSeqProperties
<1>. QED
  BY <1>1, <1>2 DEF to

\* Bytes gives the bytes of the place, and all there are up to n.
LEMMA BytesFacts ==
    ASSUME NEW f \in Seq(Nat), NEW from \in Nat, NEW n \in Nat
    PROVE  /\ Bytes(f, from, n) \in Seq(Nat)
           /\ Len(Bytes(f, from, n)) = IF from >= Len(f) THEN 0
                                       ELSE IF from + n < Len(f) THEN n ELSE Len(f) - from
           /\ \A k \in 1 .. Len(Bytes(f, from, n)) : Bytes(f, from, n)[k] = f[from + k]
BY PartFacts DEF Bytes

\* What Bytes read, it reads again.
LEMMA BytesAgain ==
    ASSUME NEW f \in Seq(Nat), NEW from \in Nat, NEW n \in Nat
    PROVE  Bytes(f, from, Len(Bytes(f, from, n))) = Bytes(f, from, n)
<1>. DEFINE b == Bytes(f, from, n)
<1>1. /\ b \in Seq(Nat)
      /\ Len(b) = IF from >= Len(f) THEN 0
                  ELSE IF from + n < Len(f) THEN n ELSE Len(f) - from
      /\ \A k \in 1 .. Len(b) : b[k] = f[from + k]
  BY BytesFacts, Zenon
<1>. HIDE DEF b
<1>4. Len(b) \in Nat
  BY <1>1
<1>. DEFINE c == Bytes(f, from, Len(b))
<1>2. /\ c \in Seq(Nat)
      /\ Len(c) = IF from >= Len(f) THEN 0
                  ELSE IF from + Len(b) < Len(f) THEN Len(b) ELSE Len(f) - from
      /\ \A k \in 1 .. Len(c) : c[k] = f[from + k]
  BY <1>4, BytesFacts, Zenon
<1>. HIDE DEF c
<1>3. c = b
  BY <1>1, <1>2, <1>4, SameSeq
<1>. QED
  BY <1>3 DEF b, c

LEMMA OverwriteFacts ==
    ASSUME NEW f \in Seq(Nat), NEW from \in Nat, NEW n \in Nat, NEW stamp \in Nat,
           Len(f) <= MaxLen, from + n <= MaxLen
    PROVE  Overwrite(f, from, n, stamp) \in Seq(Nat) /\ Len(Overwrite(f, from, n, stamp)) <= MaxLen
<1>. DEFINE m == IF from + n > Len(f) THEN from + n ELSE Len(f)
<1>1. m \in Nat /\ m <= MaxLen
  OBVIOUS
<1>2. Overwrite(f, from, n, stamp) \in [1 .. m -> Nat]
  BY DEF Overwrite
<1>. HIDE DEF m
<1>. QED
  BY <1>1, <1>2

LEMMA ResizeFacts ==
    ASSUME NEW f \in Seq(Nat), NEW n \in Nat
    PROVE  Resize(f, n) \in Seq(Nat) /\ Len(Resize(f, n)) = n
<1>1. Resize(f, n) \in [1 .. n -> Nat]
  BY DEF Resize
<1>. QED
  BY <1>1

-----------------------------------------------------------------------------
(***************************************************************************)
(* The inductive invariant.  What a buffer claims lies within the bound of *)
(* the file even when it is old, so that no position leaves it.            *)
(***************************************************************************)
Types ==
    /\ file \in Seq(Nat) /\ Len(file) <= MaxLen /\ writes \in Nat
    /\ isopen \subseteq Handles /\ fouled \subseteq isopen
    /\ pos \in [Handles -> 0 .. MaxLen] /\ len \in [Handles -> 0 .. MaxLen]
    /\ hasrbuf \in [Handles -> BOOLEAN]
    /\ nummbufs \in Nat /\ wbufs \in Nat

BufTypes ==
    /\ hasdata \in [Handles -> BOOLEAN]
    /\ offs \in [Handles -> Nat] /\ data \in [Handles -> Seq(Nat)]
    /\ \A h \in Handles : Len(data[h]) <= MBUFSIZE /\ offs[h] + Len(data[h]) <= MaxLen
    /\ numfree \in Nat

PoolSum == numfree + Cardinality(Held) + wbufs = nummbufs

Inv ==
    /\ Types /\ BufTypes /\ PoolSum /\ Held \subseteq isopen
    /\ BufferExact /\ ReadCurrent /\ FreesOnlyFree

\* What a step on the buffer of one handle may do to the pool.
Keeps(h, inuse) ==
    /\ BufTypes'
    /\ \A g \in Handles \ {h} : /\ hasdata'[g] = hasdata[g]
                                /\ offs'[g] = offs[g] /\ data'[g] = data[g]
    /\ hasdata'[h] = inuse
    /\ numfree' + Cardinality(Held') = numfree + Cardinality(Held)

LEMMA HeldFinite == IsFiniteSet(Held) /\ Cardinality(Held) \in Nat
BY ReadBufAssumption, FS_Subset, FS_CardinalityType DEF Held

\* rb_ReleaseRBufData gives a buffer back, or does nothing.
LEMMA ReleaseKeeps ==
    ASSUME BufTypes, NEW h \in Handles, Release(h)
    PROVE  Keeps(h, FALSE)
<1>1. /\ hasdata' = [hasdata EXCEPT ![h] = FALSE]
      /\ offs' = [offs EXCEPT ![h] = 0] /\ data' = [data EXCEPT ![h] = <<>>]
      /\ numfree' = numfree + (IF hasdata[h] THEN 1 ELSE 0)
  BY DEF Release
<1>2. BufTypes'
  BY <1>1, ReadBufAssumption DEF BufTypes
<1>3. Held' = Held \ {h} /\ (h \in Held <=> hasdata[h])
  BY <1>1 DEF Held, BufTypes
<1>4. Cardinality(Held \ {h}) = IF h \in Held THEN Cardinality(Held) - 1 ELSE Cardinality(Held)
  BY HeldFinite, FS_RemoveElement
<1>5. numfree' + Cardinality(Held') = numfree + Cardinality(Held)
  BY <1>1, <1>3, <1>4, HeldFinite DEF BufTypes
<1>. QED
  BY <1>1, <1>2, <1>5 DEF Keeps, BufTypes

\* rb_ObtainRBufData takes a buffer where there was none.
LEMMA RefillKeeps ==
    ASSUME BufTypes, NEW h \in Handles, NEW from \in Nat, NEW read \in Seq(Nat),
           Len(read) <= MBUFSIZE, from + Len(read) <= MaxLen,
           hasdata[h] \/ numfree > 0, Refill(h, from, read)
    PROVE  Keeps(h, TRUE) /\ offs'[h] = from /\ data'[h] = read
<1>1. offs' = [offs EXCEPT ![h] = from] /\ data' = [data EXCEPT ![h] = read]
  BY DEF Refill
<1>2. \/ /\ ~hasdata[h] /\ numfree' = numfree - 1 /\ hasdata' = [hasdata EXCEPT ![h] = TRUE]
      \/ hasdata[h] /\ UNCHANGED <<hasdata, numfree>>
  BY DEF Refill, rb_ObtainRBufData
<1>3. hasdata' \in [Handles -> BOOLEAN] /\ numfree' \in Nat
  <2>1. CASE hasdata[h]
    BY <1>2, <2>1 DEF BufTypes
  <2>2. CASE ~hasdata[h]
    <3>1. numfree > 0 /\ numfree' = numfree - 1 /\ hasdata' = [hasdata EXCEPT ![h] = TRUE]
      BY <1>2, <2>2
    <3>. QED
      BY <3>1 DEF BufTypes
  <2>. QED
    BY <2>1, <2>2
<1>4. BufTypes'
  BY <1>1, <1>3 DEF BufTypes
<1>5. Held' = Held \cup {h} /\ (h \in Held <=> hasdata[h])
  BY <1>2 DEF Held, BufTypes
<1>6. Cardinality(Held \cup {h}) = IF h \in Held THEN Cardinality(Held) ELSE Cardinality(Held) + 1
  BY HeldFinite, FS_AddElement, Zenon
<1>7. numfree' + Cardinality(Held') = numfree + Cardinality(Held)
  BY <1>2, <1>5, <1>6, HeldFinite DEF BufTypes
<1>. QED
  BY <1>1, <1>2, <1>4, <1>7 DEF Keeps, BufTypes

LEMMA SameBuffers ==
    ASSUME BufTypes, NEW h \in Handles, UNCHANGED <<hasdata, offs, data, numfree>>
    PROVE  Keeps(h, hasdata[h])
BY DEF Keeps, BufTypes, Held

-----------------------------------------------------------------------------
(***************************************************************************)
(* Reading.                                                                *)
(***************************************************************************)

\* The bytes FromBuffer finds, wherever the position lies.
LEMMA FromBufferFacts ==
    ASSUME Types, BufTypes, NEW h \in Handles, NEW n \in Nat
    PROVE  /\ FromBuffer(h, n) \in Seq(Nat)
           /\ Len(FromBuffer(h, n)) \in Nat
           /\ Len(FromBuffer(h, n)) <= n
           /\ pos[h] + Len(FromBuffer(h, n)) <= MaxLen
           /\ Len(FromBuffer(h, n)) # 0 =>
                /\ hasdata[h] /\ offs[h] <= pos[h]
                /\ pos[h] + Len(FromBuffer(h, n)) <= offs[h] + Len(data[h])
                /\ Len(FromBuffer(h, n)) < n =>
                     pos[h] + Len(FromBuffer(h, n)) = offs[h] + Len(data[h])
                /\ \A k \in 1 .. Len(FromBuffer(h, n)) :
                     FromBuffer(h, n)[k] = data[h][pos[h] - offs[h] + k]
<1>. DEFINE p == pos[h]
            o == offs[h]
            d == data[h]
            x == p - o
            b == SubSeq(d, x + 1, Min2(x + n, Len(d)))
<1>1. /\ p \in Nat /\ p <= MaxLen /\ o \in Nat /\ d \in Seq(Nat) /\ Len(d) \in Nat
      /\ o + Len(d) <= MaxLen /\ MaxLen \in Nat
  BY ReadBufAssumption DEF Types, BufTypes
<1>2. CASE hasdata[h] /\ o <= p /\ p < o + Len(d)
  <2>1. FromBuffer(h, n) = b
    BY <1>2 DEF FromBuffer
  <2>. HIDE DEF p, o, d
  <2>2. x \in Nat /\ x < Len(d)
    BY <1>1, <1>2
  <2>. HIDE DEF x
  <2>3. /\ b \in Seq(Nat)
        /\ Len(b) = IF x >= Len(d) THEN 0
                    ELSE IF x + n < Len(d) THEN n ELSE Len(d) - x
        /\ \A k \in 1 .. Len(b) : b[k] = d[x + k]
    BY <1>1, <2>2, PartFacts
  <2>. HIDE DEF b
  <2>4. Len(b) \in Nat /\ Len(b) <= n /\ x + Len(b) <= Len(d) /\ (Len(b) < n => x + Len(b) = Len(d))
    BY <1>1, <2>2, <2>3
  <2>5. p + Len(b) <= o + Len(d) /\ (Len(b) < n => p + Len(b) = o + Len(d))
    BY <1>1, <1>2, <2>4 DEF x
  <2>6. p + Len(b) <= MaxLen
    BY <1>1, <2>4, <2>5
  <2>. QED
    BY <1>2, <2>1, <2>3, <2>4, <2>5, <2>6 DEF p, o, d, x
<1>3. CASE ~(hasdata[h] /\ o <= p /\ p < o + Len(d))
  <2>1. FromBuffer(h, n) = <<>>
    BY <1>3 DEF FromBuffer
  <2>. QED
    BY <1>1, <2>1
<1>. QED
  BY <1>2, <1>3

\* A buffer that is not old has the file's bytes.
LEMMA BufferBytes ==
    ASSUME Types, BufTypes, BufferExact, NEW h \in isopen \ fouled, NEW n \in Nat
    PROVE  \A k \in 1 .. Len(FromBuffer(h, n)) : FromBuffer(h, n)[k] = file[pos[h] + k]
<1>. DEFINE b == FromBuffer(h, n)
            o == offs[h]
            d == data[h]
            p == pos[h]
<1>. SUFFICES ASSUME NEW k \in 1 .. Len(b) PROVE b[k] = file[p + k]
  OBVIOUS
<1>0. h \in Handles
  BY DEF Types
<1>1. Len(b) \in Nat /\ Len(b) # 0
  BY <1>0, FromBufferFacts
<1>2. hasdata[h] /\ o <= p /\ p + Len(b) <= o + Len(d) /\ b[k] = d[p - o + k]
  BY <1>0, <1>1, FromBufferFacts
<1>3. o \in Nat /\ p \in Nat /\ Len(d) \in Nat /\ file \in Seq(Nat)
  BY <1>0, ReadBufAssumption DEF Types, BufTypes
<1>4. d = Bytes(file, o, Len(d))
  BY <1>2 DEF BufferExact
<1>. HIDE DEF b, o, d, p
<1>5. \A i \in 1 .. Len(d) : d[i] = file[o + i]
  <2>. DEFINE c == Bytes(file, o, Len(d))
  <2>1. \A i \in 1 .. Len(c) : c[i] = file[o + i]
    BY <1>3, BytesFacts, Zenon
  <2>. HIDE DEF c
  <2>2. c = d
    BY <1>4 DEF c
  <2>. QED
    BY <2>1, <2>2
<1>6. p - o + k \in 1 .. Len(d) /\ o + (p - o + k) = p + k
  BY <1>1, <1>2, <1>3
<1>. QED
  BY <1>2, <1>5, <1>6

\* What a READ leaves alone.
ReadFrame == UNCHANGED <<file, writes, isopen, hasrbuf, nummbufs, wbufs>>

\* A READ that handled its own buffer and answered keeps the rest.
LEMMA ReadKeeps ==
    ASSUME Inv, NEW h \in isopen, NEW inuse \in BOOLEAN, Keeps(h, inuse), ReadFrame,
           UNCHANGED fault, fault = "none",
           pos' \in [Handles -> 0 .. MaxLen], len' \in [Handles -> 0 .. MaxLen],
           \A g \in Handles \ {h} : len'[g] = len[g],
           fouled' \subseteq fouled, fouled \ {h} \subseteq fouled',
           ReadCurrent',
           h \notin fouled' =>
              /\ len'[h] = Len(file)
              /\ hasdata'[h] =>
                   /\ data'[h] # <<>> /\ offs'[h] + Len(data'[h]) <= Len(file)
                   /\ data'[h] = Bytes(file, offs'[h], Len(data'[h]))
    PROVE  Inv'
<1>1. Types'
  BY DEF Inv, Types, ReadFrame
<1>2. PoolSum'
  BY HeldFinite DEF Inv, PoolSum, Keeps, ReadFrame, Types, BufTypes
<1>3. Held' \subseteq isopen'
  BY DEF Inv, Types, Keeps, Held, ReadFrame
<1>4. BufferExact'
  <2>. SUFFICES ASSUME NEW g \in isopen \ fouled'
                PROVE  /\ len'[g] = Len(file)
                       /\ hasdata'[g] =>
                            /\ data'[g] # <<>> /\ offs'[g] + Len(data'[g]) <= Len(file)
                            /\ data'[g] = Bytes(file, offs'[g], Len(data'[g]))
    BY Zenon DEF BufferExact, ReadFrame
  <2>1. CASE g = h
    BY <2>1
  <2>2. CASE g # h
    <3>1. g \in isopen \ fouled /\ g \in Handles
      BY <2>2 DEF Inv, Types
    <3>. QED
      BY <2>2, <3>1 DEF Inv, BufferExact, Keeps
  <2>. QED
    BY <2>1, <2>2
<1>5. FreesOnlyFree'
  BY DEF FreesOnlyFree
<1>. QED
  BY <1>1, <1>2, <1>3, <1>4, <1>5 DEF Inv, Keeps

\* All bytes come from the buffer: they are the file's.
LEMMA FromBufferKeeps ==
    ASSUME Inv, NEW h \in isopen, NEW n \in Nat \ {0}, ReadFromBuffer(h, n), ReadFrame,
           UNCHANGED fault, fault = "none"
    PROVE  Inv'
<1>. DEFINE b == FromBuffer(h, n)
<1>0. h \in Handles /\ Types /\ BufTypes /\ BufferExact
  BY DEF Inv, Types
<1>1. /\ Len(b) = n /\ pos' = [pos EXCEPT ![h] = pos[h] + n]
      /\ Answer(h, n, b)
      /\ UNCHANGED <<len, hasdata, offs, data, numfree, fouled>>
  BY DEF ReadFromBuffer
<1>2. b \in Seq(Nat) /\ pos[h] + Len(b) <= MaxLen /\ pos[h] \in Nat
  <2>1. b \in Seq(Nat) /\ pos[h] + Len(b) <= MaxLen
    BY <1>0, FromBufferFacts
  <2>2. pos[h] \in Nat
    BY <1>0, ReadBufAssumption DEF Types
  <2>. QED
    BY <2>1, <2>2, Zenon
<1>3. ReadCurrent'
  <2>1. CASE h \in fouled
    BY <1>1, <2>1 DEF Answer, ReadCurrent
  <2>2. CASE h \notin fouled
    <3>1. \A k \in 1 .. Len(b) : b[k] = file[pos[h] + k]
      BY <1>0, <2>2, BufferBytes
    <3>2. hasdata[h] /\ pos[h] + Len(b) <= offs[h] + Len(data[h])
      BY <1>0, <1>1, FromBufferFacts
    <3>3. offs[h] + Len(data[h]) <= Len(file)
      BY <1>0, <2>2, <3>2 DEF BufferExact
    <3>. DEFINE p == pos[h]
                e == offs[h] + Len(data[h])
    <3>. HIDE DEF b, p, e
    <3>4. p \in Nat /\ e \in Nat /\ p + Len(b) <= e /\ e <= Len(file) /\ file \in Seq(Nat)
      BY <1>0, <1>2, <3>2, <3>3 DEF p, e, Types, BufTypes
    <3>. DEFINE c == Bytes(file, p, n)
    <3>5. /\ c \in Seq(Nat)
          /\ Len(c) = IF p >= Len(file) THEN 0
                      ELSE IF p + n < Len(file) THEN n ELSE Len(file) - p
          /\ \A k \in 1 .. Len(c) : c[k] = file[p + k]
      BY <3>4, BytesFacts
    <3>. HIDE DEF c
    <3>6. Len(c) = Len(b)
      BY <1>1, <3>4, <3>5
    <3>7. c = b
      BY <1>2, <3>1, <3>5, <3>6, SameSeq DEF p
    <3>8. answer'.bytes = b /\ answer'.pos = p /\ answer'.num = n /\ file' = file
      BY <1>1 DEF Answer, p, ReadFrame
    <3>. QED
      BY <3>7, <3>8 DEF ReadCurrent, c
  <2>. QED
    BY <2>1, <2>2
<1>4. pos' \in [Handles -> 0 .. MaxLen]
  BY <1>0, <1>1, <1>2 DEF Types
<1>5. Keeps(h, hasdata[h]) /\ hasdata[h] \in BOOLEAN
  BY <1>0, <1>1, SameBuffers DEF BufTypes
<1>6. len' \in [Handles -> 0 .. MaxLen] /\ \A g \in Handles \ {h} : len'[g] = len[g]
  BY <1>0, <1>1 DEF Types
<1>7. h \notin fouled' =>
        /\ len'[h] = Len(file)
        /\ hasdata'[h] =>
             /\ data'[h] # <<>> /\ offs'[h] + Len(data'[h]) <= Len(file)
             /\ data'[h] = Bytes(file, offs'[h], Len(data'[h]))
  BY <1>0, <1>1 DEF BufferExact
<1>8. fouled' \subseteq fouled /\ fouled \ {h} \subseteq fouled'
  BY <1>1
<1>. HIDE DEF b
<1>. QED
  BY <1>3, <1>4, <1>5, <1>6, <1>7, <1>8, ReadKeeps

\* A read through the buffer: bytes of the buffer, then bytes of the server.
LEMMA JoinedBytes ==
    ASSUME NEW f \in Seq(Nat), NEW p \in Nat, NEW n \in Nat, NEW b \in Seq(Nat),
           n <= MBUFSIZE, Len(b) <= n,
           Len(b) # 0 => p + Len(b) <= Len(f),
           \A k \in 1 .. Len(b) : b[k] = f[p + k]
    PROVE  LET read == Bytes(f, p + Len(b), MBUFSIZE)
           IN  b \o SubSeq(read, 1, Min2(n - Len(b), Len(read))) = Bytes(f, p, n)
<1>. DEFINE q == p + Len(b)
            r == Bytes(f, q, MBUFSIZE)
            m == SubSeq(r, 1, Min2(n - Len(b), Len(r)))
            j == b \o m
            c == Bytes(f, p, n)
<1>0. q \in Nat /\ Len(b) \in Nat /\ Len(f) \in Nat /\ MBUFSIZE \in Nat /\ n - Len(b) \in Nat
  BY ReadBufAssumption
<1>1. /\ c \in Seq(Nat)
      /\ Len(c) = IF p >= Len(f) THEN 0 ELSE IF p + n < Len(f) THEN n ELSE Len(f) - p
      /\ \A k \in 1 .. Len(c) : c[k] = f[p + k]
  BY BytesFacts
<1>. HIDE DEF q
<1>2. /\ r \in Seq(Nat)
      /\ Len(r) = IF q >= Len(f) THEN 0
                  ELSE IF q + MBUFSIZE < Len(f) THEN MBUFSIZE ELSE Len(f) - q
      /\ \A k \in 1 .. Len(r) : r[k] = f[q + k]
  BY <1>0, BytesFacts
<1>. HIDE DEF r, c
<1>3. /\ m \in Seq(Nat)
      /\ Len(m) = IF n - Len(b) < Len(r) THEN n - Len(b) ELSE Len(r)
      /\ \A k \in 1 .. Len(m) : m[k] = r[k]
  BY <1>0, <1>2, PrefixFacts, Zenon
<1>. HIDE DEF m
<1>4. Len(r) \in Nat
  BY <1>2
<1>6. Len(m) \in Nat /\ Len(m) <= Len(r)
  BY <1>0, <1>3, <1>4
<1>7. ASSUME NEW k \in 1 .. Len(m) PROVE m[k] = f[q + k]
  <2>1. k \in 1 .. Len(r)
    BY <1>4, <1>6
  <2>2. m[k] = r[k]
    BY <1>3, Zenon
  <2>. QED
    BY <1>2, <2>1, <2>2, Zenon
<1>5. /\ j \in Seq(Nat) /\ Len(j) = Len(b) + Len(m)
      /\ \A k \in 1 .. Len(b) + Len(m) : j[k] = IF k <= Len(b) THEN b[k] ELSE m[k - Len(b)]
  <2>1. b \in Seq(Nat) /\ m \in Seq(Nat)
    BY <1>3
  <2>. QED
    BY <2>1, ConcatProperties, Zenon
<1>. HIDE DEF j
<1>8. Len(j) = Len(c)
  <2>1. Len(j) = Len(b) + Len(m)
    BY <1>5, Zenon
  <2>2. Len(r) = IF q >= Len(f) THEN 0
                 ELSE IF q + MBUFSIZE < Len(f) THEN MBUFSIZE ELSE Len(f) - q
    BY <1>2, Zenon
  <2>3. Len(m) = IF n - Len(b) < Len(r) THEN n - Len(b) ELSE Len(r)
    BY <1>3, Zenon
  <2>4. Len(c) = IF p >= Len(f) THEN 0 ELSE IF p + n < Len(f) THEN n ELSE Len(f) - p
    BY <1>1, Zenon
  <2>5. CASE q >= Len(f)
    <3>1. Len(m) = 0
      BY <1>0, <2>2, <2>3, <2>5
    <3>. QED
      BY <1>0, <2>1, <2>4, <2>5, <3>1 DEF q
  <2>6. CASE q < Len(f)
    <3>1. Len(m) = IF q + (n - Len(b)) < Len(f) THEN n - Len(b) ELSE Len(f) - q
      <4>. DEFINE d == n - Len(b)
      <4>1. d \in Nat /\ d <= MBUFSIZE
        BY <1>0
      <4>. HIDE DEF d
      <4>2. Len(r) = IF q + MBUFSIZE < Len(f) THEN MBUFSIZE ELSE Len(f) - q
        BY <1>0, <2>2, <2>6
      <4>3. Len(m) = IF d < Len(r) THEN d ELSE Len(r)
        BY <2>3 DEF d
      <4>4. Len(m) = IF q + d < Len(f) THEN d ELSE Len(f) - q
        BY <1>0, <2>6, <4>1, <4>2, <4>3
      <4>. QED
        BY <4>4 DEF d
    <3>. QED
      BY <1>0, <2>1, <2>4, <2>6, <3>1 DEF q
  <2>. QED
    BY <1>0, <2>5, <2>6
<1>9. ASSUME NEW k \in 1 .. Len(j) PROVE j[k] = c[k]
  <2>1. c[k] = f[p + k]
    BY <1>1, <1>8
  <2>2. CASE k <= Len(b)
    <3>1. k \in 1 .. Len(b) /\ j[k] = b[k]
      BY <2>2, <1>0, <1>5, <1>6
    <3>. QED
      BY <3>1, <2>1
  <2>3. CASE ~(k <= Len(b))
    <3>1. k - Len(b) \in 1 .. Len(m) /\ j[k] = m[k - Len(b)]
      BY <2>3, <1>0, <1>5, <1>6
    <3>2. q + (k - Len(b)) = p + k
      BY <1>0 DEF q
    <3>. QED
      BY <2>1, <3>1, <3>2, <1>7
  <2>. QED
    BY <2>2, <2>3
<1>10. j = c
  BY <1>1, <1>5, <1>8, <1>9, SameSeq
<1>. QED
  BY <1>10, Zenon DEF j, c, m, r, q

LEMMA ThroughBufferKeeps ==
    ASSUME Inv, NEW h \in isopen, NEW n \in Nat \ {0}, ReadThroughBuffer(h, n), ReadFrame,
           UNCHANGED fault, fault = "none"
    PROVE  Inv'
<1>. DEFINE b == FromBuffer(h, n)
            from == pos[h] + Len(b)
            read == Bytes(file, from, MBUFSIZE)
            more == SubSeq(read, 1, Min2(n - Len(b), Len(read)))
<1>0. h \in Handles /\ Types /\ BufTypes /\ BufferExact
  BY DEF Inv, Types
<1>1. /\ Buffered(h, n) /\ Len(b) < n
      /\ len' = [len EXCEPT ![h] = Len(file)]
      /\ pos' = [pos EXCEPT ![h] = from + Len(more)]
      /\ Answer(h, n, b \o more)
      /\ fouled' = fouled \ {h}
      /\ IF read = <<>> THEN Release(h) ELSE Refill(h, from, read)
  BY DEF ReadThroughBuffer
<1>2. b \in Seq(Nat) /\ Len(b) \in Nat /\ pos[h] + Len(b) <= MaxLen
  BY <1>0, FromBufferFacts
<1>3. /\ pos[h] \in Nat /\ file \in Seq(Nat) /\ Len(file) \in Nat /\ Len(file) <= MaxLen
      /\ MaxLen \in Nat /\ MBUFSIZE \in Nat /\ n <= MBUFSIZE
  BY <1>0, <1>1, ReadBufAssumption DEF Types, Buffered
<1>4. from \in Nat /\ from <= MaxLen
  BY <1>2, <1>3
<1>5. /\ read \in Seq(Nat) /\ Len(read) \in Nat /\ Len(read) <= MBUFSIZE
      /\ read # <<>> => Len(read) > 0 /\ from + Len(read) <= Len(file)
  <2>. HIDE DEF from
  <2>1. /\ read \in Seq(Nat)
        /\ Len(read) = IF from >= Len(file) THEN 0
                       ELSE IF from + MBUFSIZE < Len(file) THEN MBUFSIZE ELSE Len(file) - from
    BY <1>3, <1>4, BytesFacts
  <2>. HIDE DEF read
  <2>. QED
    BY <1>3, <1>4, <2>1, EmptySeq
<1>6. Len(more) \in Nat /\ Len(more) <= Len(read) /\ (read = <<>> => Len(more) = 0)
  <2>. HIDE DEF read
  <2>0. n - Len(b) \in Nat
    BY <1>1, <1>2
  <2>1. Len(more) = IF n - Len(b) < Len(read) THEN n - Len(b) ELSE Len(read)
    BY <1>5, <2>0, PrefixFacts, Zenon
  <2>. HIDE DEF more
  <2>. QED
    BY <1>5, <2>0, <2>1
<1>7. ReadCurrent'
  <2>1. CASE h \in fouled
    BY <1>1, <2>1 DEF Answer, ReadCurrent
  <2>2. CASE h \notin fouled
    <3>1. \A k \in 1 .. Len(b) : b[k] = file[pos[h] + k]
      BY <1>0, <2>2, BufferBytes
    <3>2. Len(b) # 0 => pos[h] + Len(b) <= Len(file)
      <4>1. Len(b) # 0 => hasdata[h] /\ pos[h] + Len(b) <= offs[h] + Len(data[h])
        BY <1>0, FromBufferFacts
      <4>2. hasdata[h] => offs[h] + Len(data[h]) <= Len(file)
        BY <1>0, <2>2 DEF BufferExact
      <4>3. offs[h] \in Nat /\ Len(data[h]) \in Nat
        BY <1>0 DEF BufTypes
      <4>. HIDE DEF b
      <4>. QED
        BY <1>2, <1>3, <4>1, <4>2, <4>3
    <3>3. b \o more = Bytes(file, pos[h], n)
      <4>. HIDE DEF b
      <4>. QED
        <5>1. n \in Nat /\ Len(b) <= n
          BY <1>1, <1>2
        <5>. QED
          BY <5>1, <1>2, <1>3, <3>1, <3>2, JoinedBytes, Zenon
    <3>4. answer'.bytes = b \o more /\ answer'.pos = pos[h] /\ answer'.num = n /\ file' = file
      BY <1>1 DEF Answer, ReadFrame
    <3>. QED
      BY <3>3, <3>4, Zenon DEF ReadCurrent
  <2>. QED
    BY <2>1, <2>2
<1>8. pos' \in [Handles -> 0 .. MaxLen]
  <2>1. from + Len(more) \in 0 .. MaxLen
    <3>. HIDE DEF from, more, read
    <3>. QED
      BY <1>3, <1>4, <1>5, <1>6
  <2>. HIDE DEF from, more
  <2>. QED
    BY <1>0, <1>1, <2>1 DEF Types
<1>9. len' \in [Handles -> 0 .. MaxLen] /\ len'[h] = Len(file) /\ \A g \in Handles \ {h} : len'[g] = len[g]
  BY <1>0, <1>1, <1>3 DEF Types
<1>10. fouled' \subseteq fouled /\ fouled \ {h} \subseteq fouled'
  BY <1>1
<1>11. CASE read = <<>>
  <2>1. Keeps(h, FALSE)
    BY <1>0, <1>1, <1>11, ReleaseKeeps
  <2>2. ~hasdata'[h]
    BY <2>1 DEF Keeps
  <2>. HIDE DEF b, from, read, more
  <2>. QED
    BY <1>7, <1>8, <1>9, <1>10, <2>1, <2>2, ReadKeeps
<1>12. CASE read # <<>>
  <2>1. hasdata[h] \/ numfree > 0
    BY <1>1 DEF Buffered
  <2>2. Keeps(h, TRUE) /\ offs'[h] = from /\ data'[h] = read
    <3>. HIDE DEF from, read
    <3>1. from + Len(read) <= MaxLen
      BY <1>3, <1>4, <1>5, <1>12
    <3>. QED
      BY <1>0, <1>1, <1>4, <1>5, <1>12, <2>1, <3>1, RefillKeeps
  <2>3. Bytes(file, from, Len(read)) = read
    <3>. HIDE DEF from
    <3>. QED
      BY <1>3, <1>4, BytesAgain
  <2>4. /\ data'[h] # <<>> /\ offs'[h] + Len(data'[h]) <= Len(file)
        /\ data'[h] = Bytes(file, offs'[h], Len(data'[h]))
    <3>. HIDE DEF from, read
    <3>. QED
      BY <1>5, <1>12, <2>2, <2>3
  <2>. HIDE DEF b, from, read, more
  <2>. QED
    BY <1>7, <1>8, <1>9, <1>10, <2>2, <2>4, ReadKeeps
<1>. QED
  BY <1>11, <1>12

\* A call that fails gives the buffer back and moves nothing.
LEMMA FailsKeeps ==
    ASSUME Inv, NEW h \in isopen, Release(h), answer' = NoAnswer, UNCHANGED <<pos, len, fouled>>,
           ReadFrame, UNCHANGED fault, fault = "none"
    PROVE  Inv'
<1>0. h \in Handles /\ Types /\ BufTypes /\ BufferExact
  BY DEF Inv, Types
<1>1. Keeps(h, FALSE) /\ ~hasdata'[h]
  BY <1>0, ReleaseKeeps DEF Keeps
<1>2. ReadCurrent'
  BY DEF ReadCurrent
<1>3. pos' \in [Handles -> 0 .. MaxLen] /\ len' \in [Handles -> 0 .. MaxLen]
  BY <1>0 DEF Types
<1>4. h \notin fouled' => len'[h] = Len(file)
  BY <1>0 DEF BufferExact
<1>5. fouled' \subseteq fouled /\ fouled \ {h} \subseteq fouled' /\ \A g \in Handles \ {h} : len'[g] = len[g]
  OBVIOUS
<1>. QED
  BY <1>1, <1>2, <1>3, <1>4, <1>5, ReadKeeps

\* A read without the buffer.
LEMMA DirectKeeps ==
    ASSUME Inv, NEW h \in isopen, NEW n \in Nat \ {0}, ReadDirect(h, n), ReadFrame,
           UNCHANGED fault, fault = "none"
    PROVE  Inv'
<1>. DEFINE read == Bytes(file, pos[h], n)
<1>0. h \in Handles /\ Types /\ BufTypes /\ BufferExact
  BY DEF Inv, Types
<1>1. /\ Release(h) /\ pos' = [pos EXCEPT ![h] = pos[h] + Len(read)]
      /\ len' = [len EXCEPT ![h] = Len(file)]
      /\ Answer(h, n, read) /\ fouled' = fouled \ {h}
  BY DEF ReadDirect
<1>2. Keeps(h, FALSE) /\ ~hasdata'[h]
  BY <1>0, <1>1, ReleaseKeeps DEF Keeps
<1>3. ReadCurrent'
  BY <1>1 DEF ReadCurrent, Answer, ReadFrame
<1>4. /\ pos[h] \in 0 .. MaxLen /\ MaxLen \in Nat /\ Len(file) \in Nat
      /\ Len(file) <= MaxLen /\ file \in Seq(Nat) /\ n \in Nat
  BY <1>0, ReadBufAssumption DEF Types
<1>5. pos[h] + Len(read) \in 0 .. MaxLen
  <2>. DEFINE p == pos[h]
  <2>1. p \in Nat /\ p <= MaxLen
    BY <1>4
  <2>. HIDE DEF p
  <2>2. Len(Bytes(file, p, n)) = IF p >= Len(file) THEN 0
                                 ELSE IF p + n < Len(file) THEN n ELSE Len(file) - p
    BY <1>4, <2>1, BytesFacts, Zenon
  <2>3. p + Len(Bytes(file, p, n)) \in 0 .. MaxLen
    BY <1>4, <2>1, <2>2
  <2>. QED
    BY <2>3 DEF p
<1>6. pos' \in [Handles -> 0 .. MaxLen]
  <2>. HIDE DEF read
  <2>. QED
    BY <1>0, <1>1, <1>5 DEF Types
<1>7. /\ len' \in [Handles -> 0 .. MaxLen] /\ len'[h] = Len(file)
      /\ \A g \in Handles \ {h} : len'[g] = len[g]
  BY <1>0, <1>1, <1>4 DEF Types
<1>8. fouled' \subseteq fouled /\ fouled \ {h} \subseteq fouled'
  BY <1>1
<1>. HIDE DEF read
<1>. QED
  BY <1>2, <1>3, <1>6, <1>7, <1>8, ReadKeeps

\* At the end of the file, by the length the handle knows.
LEMMA AtEndKeeps ==
    ASSUME Inv, NEW h \in isopen, NEW n \in Nat \ {0}, AtEnd(h), ReadAtEnd(h, n), ReadFrame,
           UNCHANGED fault, fault = "none"
    PROVE  Inv'
<1>0. h \in Handles /\ Types /\ BufTypes /\ BufferExact
  BY DEF Inv, Types
<1>1. Answer(h, n, <<>>) /\ UNCHANGED <<pos, len, hasdata, offs, data, numfree, fouled>>
  BY DEF ReadAtEnd
<1>2. Keeps(h, hasdata[h]) /\ hasdata[h] \in BOOLEAN
  BY <1>0, <1>1, SameBuffers DEF BufTypes
<1>3. ReadCurrent'
  <2>1. CASE h \in fouled
    BY <1>1, <2>1 DEF Answer, ReadCurrent
  <2>2. CASE h \notin fouled
    <3>. DEFINE p == pos[h]
    <3>1. p = Len(file) /\ p \in Nat /\ file \in Seq(Nat) /\ n \in Nat
      BY <1>0, <2>2 DEF AtEnd, BufferExact, Types
    <3>. HIDE DEF p
    <3>2. Bytes(file, p, n) \in Seq(Nat) /\ Len(Bytes(file, p, n)) = 0
      BY <3>1, BytesFacts
    <3>3. Bytes(file, p, n) = <<>>
      BY <3>2, EmptySeq
    <3>4. answer'.bytes = <<>> /\ answer'.pos = p /\ answer'.num = n /\ file' = file
      BY <1>1 DEF Answer, p, ReadFrame
    <3>. QED
      BY <3>3, <3>4, Zenon DEF ReadCurrent
  <2>. QED
    BY <2>1, <2>2
<1>4. pos' \in [Handles -> 0 .. MaxLen] /\ len' \in [Handles -> 0 .. MaxLen]
  BY <1>0, <1>1 DEF Types
<1>5. h \notin fouled' =>
        /\ len'[h] = Len(file)
        /\ hasdata'[h] =>
             /\ data'[h] # <<>> /\ offs'[h] + Len(data'[h]) <= Len(file)
             /\ data'[h] = Bytes(file, offs'[h], Len(data'[h]))
  BY <1>0, <1>1 DEF BufferExact
<1>6. fouled' \subseteq fouled /\ fouled \ {h} \subseteq fouled' /\ \A g \in Handles \ {h} : len'[g] = len[g]
  BY <1>1
<1>. QED
  BY <1>2, <1>3, <1>4, <1>5, <1>6, ReadKeeps

LEMMA ReadPacketKeeps ==
    ASSUME Inv, fault = "none", NEW h \in Handles, NEW n \in Nums, act_READ(h, n)
    PROVE  Inv'
<1>0. h \in isopen /\ n \in Nat \ {0} /\ ReadFrame
  BY ReadBufAssumption DEF act_READ, ReadFrame
<1>1. CASE AtEnd(h) /\ ReadAtEnd(h, n) /\ UNCHANGED fault
  BY <1>0, <1>1, AtEndKeeps
<1>2. CASE /\ \/ ReadFromBuffer(h, n)
              \/ ReadThroughBuffer(h, n) \/ ReadThroughBufferFails(h, n)
              \/ ReadDirect(h, n) \/ ReadDirectFails(h, n)
           /\ UNCHANGED fault
  <2>1. CASE ReadFromBuffer(h, n)
    BY <1>0, <1>2, <2>1, FromBufferKeeps
  <2>2. CASE ReadThroughBuffer(h, n)
    BY <1>0, <1>2, <2>2, ThroughBufferKeeps
  <2>3. CASE ReadThroughBufferFails(h, n)
    BY <1>0, <1>2, <2>3, FailsKeeps DEF ReadThroughBufferFails
  <2>4. CASE ReadDirect(h, n)
    BY <1>0, <1>2, <2>4, DirectKeeps
  <2>5. CASE ReadDirectFails(h, n)
    BY <1>0, <1>2, <2>5, FailsKeeps DEF ReadDirectFails
  <2>. QED
    BY <1>2, <2>1, <2>2, <2>3, <2>4, <2>5
<1>3. CASE /\ fault' = "no read buffer header"
           /\ UNCHANGED <<pos, len, hasdata, offs, data, numfree, fouled, answer>>
  <2>1. FreesOnlyFree'
    BY <1>3 DEF FreesOnlyFree
  <2>2. Types' /\ BufTypes' /\ PoolSum' /\ (Held \subseteq isopen)'
    BY <1>0, <1>3 DEF Inv, Types, BufTypes, PoolSum, Held, ReadFrame
  <2>3. BufferExact' /\ ReadCurrent'
    BY <1>0, <1>3, Zenon DEF Inv, BufferExact, ReadCurrent, ReadFrame
  <2>. QED
    BY <2>1, <2>2, <2>3 DEF Inv
<1>. QED
  BY <1>1, <1>2, <1>3 DEF act_READ

-----------------------------------------------------------------------------
(***************************************************************************)
(* The packets that change the file, open, seek and close.                 *)
(***************************************************************************)

\* What is common to all packets but READ.
LEMMA PacketKeeps ==
    ASSUME Inv, Types', BufTypes', PoolSum', (Held \subseteq isopen)', BufferExact',
           answer' = NoAnswer, UNCHANGED fault, fault = "none"
    PROVE  Inv'
<1>1. ReadCurrent' /\ FreesOnlyFree'
  BY DEF ReadCurrent, FreesOnlyFree
<1>. QED
  BY <1>1 DEF Inv

LEMMA WriteKeeps ==
    ASSUME Inv, fault = "none", NEW h \in Handles, NEW n \in Nums, act_WRITE(h, n)
    PROVE  Inv'
<1>0. /\ h \in isopen /\ n \in Nat /\ pos[h] + n <= MaxLen /\ pos[h] \in Nat /\ MaxLen \in Nat
      /\ Types /\ BufTypes /\ file \in Seq(Nat) /\ Len(file) <= MaxLen
  BY ReadBufAssumption DEF act_WRITE, Inv, Types
<1>1. Keeps(h, FALSE)
  BY <1>0, ReleaseKeeps DEF act_WRITE, BeforeWrite
<1>2. writes' \in Nat /\ answer' = NoAnswer /\ UNCHANGED <<isopen, hasrbuf, nummbufs, wbufs, fault>>
  BY <1>0 DEF act_WRITE, CountChange, Types
<1>. DEFINE new == Overwrite(file, pos[h], n, writes')
<1>3. new \in Seq(Nat) /\ Len(new) <= MaxLen /\ Len(new) \in Nat
  <2>. DEFINE p == pos[h]
  <2>. HIDE DEF p
  <2>1. Overwrite(file, p, n, writes') \in Seq(Nat) /\ Len(Overwrite(file, p, n, writes')) <= MaxLen
    BY <1>0, <1>2, OverwriteFacts DEF p
  <2>2. Len(Overwrite(file, p, n, writes')) \in Nat
    BY <2>1
  <2>. QED
    BY <2>1, <2>2 DEF p
<1>4. \/ /\ file' = new
         /\ pos' = [pos EXCEPT ![h] = pos[h] + n]
         /\ len' = [len EXCEPT ![h] = Len(file')]
         /\ fouled' = (fouled \ {h}) \cup (isopen \ {h})
      \/ /\ file' \in {file, new}
         /\ fouled' = isopen
         /\ UNCHANGED <<pos, len>>
  BY DEF act_WRITE
<1>. HIDE DEF new
<1>5. file' \in Seq(Nat) /\ Len(file') <= MaxLen
  BY <1>0, <1>3, <1>4
<1>6. /\ fouled' \subseteq isopen
      /\ isopen \ fouled' \subseteq {h}
      /\ pos' \in [Handles -> 0 .. MaxLen] /\ len' \in [Handles -> 0 .. MaxLen]
      /\ h \notin fouled' => len'[h] = Len(file')
  <2>1. pos[h] + n \in 0 .. MaxLen /\ Len(new) \in 0 .. MaxLen
    BY <1>0, <1>3
  <2>2. fouled' \subseteq isopen /\ isopen \ fouled' \subseteq {h}
    BY <1>0, <1>4 DEF Types
  <2>3. pos' \in [Handles -> 0 .. MaxLen]
    BY <1>0, <1>4, <2>1 DEF Types
  <2>4. len' \in [Handles -> 0 .. MaxLen]
    BY <1>0, <1>4, <2>1 DEF Types
  <2>5. h \notin fouled' => len'[h] = Len(file')
    BY <1>0, <1>4 DEF Types
  <2>. QED
    BY <2>2, <2>3, <2>4, <2>5
<1>7. Types'
  BY <1>0, <1>2, <1>5, <1>6 DEF Types
<1>8. PoolSum'
  BY <1>0, <1>1, <1>2, HeldFinite DEF Inv, PoolSum, Keeps, Types, BufTypes
<1>9. (Held \subseteq isopen)'
  BY <1>0, <1>1, <1>2 DEF Inv, Held, Keeps
<1>10. BufferExact'
  BY <1>1, <1>2, <1>6 DEF BufferExact, Keeps
<1>. QED
  BY <1>1, <1>2, <1>7, <1>8, <1>9, <1>10, PacketKeeps DEF Keeps

LEMMA SameBufTypes ==
    ASSUME Inv, UNCHANGED <<hasdata, offs, data, pool>>
    PROVE  BufTypes' /\ PoolSum' /\ Held' = Held
BY DEF Inv, BufTypes, PoolSum, Held, pool

LEMMA SetSizeKeeps ==
    ASSUME Inv, fault = "none", NEW h \in Handles, NEW n \in 0 .. MaxLen, act_SET_FILE_SIZE(h, n)
    PROVE  Inv'
<1>1. /\ isopen = {h} /\ writes' = writes + 1 /\ file' = Resize(file, n) /\ fouled' = {h}
      /\ answer' = NoAnswer /\ UNCHANGED <<isopen, hasrbuf, fault>>
      /\ UNCHANGED <<hasdata, offs, data, pool>>
  BY DEF act_SET_FILE_SIZE, CountChange
<1>2. n \in Nat /\ n <= MaxLen
  BY ReadBufAssumption
<1>3. file' \in Seq(Nat) /\ Len(file') <= MaxLen
  BY <1>1, <1>2, ResizeFacts DEF Inv, Types
<1>4. pos' \in [Handles -> 0 .. MaxLen] /\ len' \in [Handles -> 0 .. MaxLen]
  <2>1. pos[h] \in 0 .. MaxLen
    BY DEF Inv, Types
  <2>2. Min2(pos[h], n) \in 0 .. MaxLen
    BY <2>1 DEF Min2
  <2>3. \/ len' = [len EXCEPT ![h] = n] /\ pos' = [pos EXCEPT ![h] = Min2(pos[h], n)]
        \/ UNCHANGED <<len, pos>>
    BY Zenon DEF act_SET_FILE_SIZE
  <2>. QED
    BY <2>2, <2>3 DEF Inv, Types
<1>5. Types'
  BY <1>1, <1>3, <1>4 DEF Inv, Types, pool
<1>6. BufTypes' /\ PoolSum' /\ Held' = Held
  BY <1>1, SameBufTypes
<1>7. BufferExact'
  BY <1>1 DEF BufferExact
<1>. QED
  BY <1>1, <1>5, <1>6, <1>7, PacketKeeps DEF Inv

LEMMA ServerWriteKeeps ==
    ASSUME Inv, fault = "none", NEW from \in 0 .. MaxLen, NEW n \in Nums, ServerWrite(from, n)
    PROVE  Inv'
<1>1. /\ from + n <= MaxLen /\ writes' = writes + 1
      /\ file' = Overwrite(file, from, n, writes') /\ fouled' = isopen
      /\ answer' = NoAnswer /\ UNCHANGED <<isopen, pos, len, hasrbuf, fault>>
      /\ UNCHANGED <<hasdata, offs, data, pool>>
  BY DEF ServerWrite, CountChange, efhs
<1>2. from \in Nat /\ n \in Nat /\ writes' \in Nat /\ file \in Seq(Nat) /\ Len(file) <= MaxLen
  BY <1>1, ReadBufAssumption DEF Inv, Types
<1>3. file' \in Seq(Nat) /\ Len(file') <= MaxLen
  BY <1>1, <1>2, OverwriteFacts
<1>4. Types'
  BY <1>1, <1>2, <1>3 DEF Inv, Types, pool
<1>5. BufTypes' /\ PoolSum' /\ Held' = Held
  BY <1>1, SameBufTypes
<1>6. BufferExact'
  BY <1>1 DEF BufferExact
<1>. QED
  BY <1>1, <1>4, <1>5, <1>6, PacketKeeps DEF Inv

LEMMA FindKeeps ==
    ASSUME Inv, fault = "none", NEW h \in Handles, Find(h)
    PROVE  Inv'
<1>1. /\ h \notin isopen /\ isopen' = isopen \cup {h}
      /\ pos' = [pos EXCEPT ![h] = 0] /\ len' = [len EXCEPT ![h] = Len(file)]
      /\ hasrbuf' \in [Handles -> BOOLEAN] /\ fouled' = fouled \ {h}
      /\ answer' = NoAnswer /\ UNCHANGED <<file, writes, fault>>
      /\ UNCHANGED <<hasdata, offs, data, pool>>
  BY DEF Find, rb_CreateRBuf, Inv, Types
<1>2. Types'
  BY <1>1, ReadBufAssumption DEF Inv, Types, pool
<1>3. BufTypes' /\ PoolSum' /\ Held' = Held
  BY <1>1, SameBufTypes
<1>4. ~hasdata[h] /\ len'[h] = Len(file)
  BY <1>1 DEF Inv, Held, Types
<1>5. BufferExact'
  <2>. SUFFICES ASSUME NEW g \in isopen' \ fouled'
                PROVE  /\ len'[g] = Len(file)
                       /\ hasdata[g] =>
                            /\ data[g] # <<>> /\ offs[g] + Len(data[g]) <= Len(file)
                            /\ data[g] = Bytes(file, offs[g], Len(data[g]))
    BY <1>1, Zenon DEF BufferExact
  <2>1. CASE g = h
    BY <1>4, <2>1
  <2>2. CASE g # h
    BY <1>1, <2>2 DEF Inv, BufferExact, Types
  <2>. QED
    BY <2>1, <2>2
<1>. QED
  BY <1>1, <1>2, <1>3, <1>5, PacketKeeps DEF Inv

LEMMA SeekKeeps ==
    ASSUME Inv, fault = "none", NEW h \in Handles, NEW p \in 0 .. MaxLen, act_SEEK(h, p)
    PROVE  Inv'
<1>1. /\ pos' = [pos EXCEPT ![h] = p] /\ answer' = NoAnswer
      /\ UNCHANGED <<file, writes, isopen, len, hasrbuf, fouled, fault>>
      /\ UNCHANGED <<hasdata, offs, data, pool>>
  BY DEF act_SEEK
<1>2. Types'
  BY <1>1 DEF Inv, Types, pool
<1>3. BufTypes' /\ PoolSum' /\ Held' = Held
  BY <1>1, SameBufTypes
<1>4. BufferExact'
  BY <1>1, Zenon DEF Inv, BufferExact
<1>. QED
  BY <1>1, <1>2, <1>3, <1>4, PacketKeeps DEF Inv

LEMMA EndKeeps ==
    ASSUME Inv, fault = "none", NEW h \in Handles, act_END(h)
    PROVE  Inv'
<1>1. /\ Release(h) /\ isopen' = isopen \ {h}
      /\ pos' = [pos EXCEPT ![h] = 0] /\ len' = [len EXCEPT ![h] = 0]
      /\ hasrbuf' \in [Handles -> BOOLEAN] /\ fouled' = fouled \ {h}
      /\ answer' = NoAnswer /\ UNCHANGED <<file, writes, nummbufs, wbufs, fault>>
  BY DEF act_END, rb_DeleteRBuf, Inv, Types
<1>2. Keeps(h, FALSE)
  BY <1>1, ReleaseKeeps DEF Inv
<1>3. Types'
  BY <1>1, ReadBufAssumption DEF Inv, Types
<1>4. PoolSum'
  BY <1>1, <1>2, HeldFinite DEF Inv, PoolSum, Keeps, Types, BufTypes
<1>5. (Held \subseteq isopen)'
  BY <1>1, <1>2 DEF Inv, Held, Keeps
<1>6. BufferExact'
  <2>. SUFFICES ASSUME NEW g \in isopen' \ fouled'
                PROVE  /\ len'[g] = Len(file)
                       /\ hasdata'[g] =>
                            /\ data'[g] # <<>> /\ offs'[g] + Len(data'[g]) <= Len(file)
                            /\ data'[g] = Bytes(file, offs'[g], Len(data'[g]))
    BY <1>1, Zenon DEF BufferExact
  <2>1. g # h /\ g \in isopen \ fouled /\ g \in Handles
    BY <1>1 DEF Inv, Types
  <2>. QED
    BY <1>1, <1>2, <2>1 DEF Inv, BufferExact, Keeps, Types
<1>. QED
  BY <1>1, <1>2, <1>3, <1>4, <1>5, <1>6, PacketKeeps DEF Keeps

-----------------------------------------------------------------------------
(***************************************************************************)
(* The pool.                                                               *)
(***************************************************************************)

\* Buffers change places.
LEMMA SumMoves ==
    ASSUME NEW a \in Nat, NEW b \in Nat, NEW c \in Nat, NEW x \in Nat, NEW y \in Nat,
           NEW t, t = (a + c) + b, y = (b + a) - x
    PROVE  (x + c) + y = t
OBVIOUS

LEMMA SumGrows ==
    ASSUME NEW a \in Nat, NEW b \in Nat, NEW c \in Nat, NEW x \in Nat, NEW y \in Nat,
           NEW s \in Nat, NEW t \in Nat, (a + c) + b = s, x = a + (t - s), y = b
    PROVE  (x + c) + y = t
OBVIOUS

LEMMA HeldBound ==
    ASSUME NEW a \in Nat, NEW b \in Nat, NEW c \in Nat, NEW s \in Nat, NEW n \in Nat,
           a + c + b = s, s - n > a + b
    PROVE  c > n
OBVIOUS

LEMMA SameHandles ==
    ASSUME Inv, UNCHANGED <<file, writes, efhs, fouled>>, nummbufs' \in Nat, wbufs' \in Nat,
           numfree' \in Nat
    PROVE  Types' /\ BufTypes' /\ Held' = Held /\ (Held \subseteq isopen)' /\ BufferExact'
<1>1. Types' /\ BufTypes' /\ Held' = Held
  BY DEF Inv, Types, BufTypes, efhs, Held
<1>2. BufferExact'
  BY Zenon DEF Inv, BufferExact, efhs
<1>. QED
  BY <1>1, <1>2 DEF Inv, efhs

\* Other handles take free buffers and give all theirs back.
LEMMA OthersKeep ==
    ASSUME Inv, fault = "none", OtherWrites \/ act_FLUSH
    PROVE  Inv'
<1>1. /\ answer' = NoAnswer /\ UNCHANGED <<file, writes, efhs, fouled>>
      /\ UNCHANGED nummbufs /\ UNCHANGED fault
  BY DEF OtherWrites, act_FLUSH
<1>2. wbufs' \in Nat /\ numfree' \in Nat /\ wbufs' = (wbufs + numfree) - numfree'
  BY DEF OtherWrites, act_FLUSH, Inv, Types, BufTypes
<1>3. nummbufs' \in Nat
  BY <1>1 DEF Inv, Types
<1>4. Types' /\ BufTypes' /\ Held' = Held /\ (Held \subseteq isopen)' /\ BufferExact'
  BY <1>1, <1>2, <1>3, SameHandles
<1>5. numfree + Cardinality(Held) + wbufs = nummbufs /\ Cardinality(Held) \in Nat
  BY HeldFinite DEF Inv, PoolSum
<1>6. wbufs \in Nat /\ numfree \in Nat
  BY DEF Inv, Types, BufTypes
<1>7. numfree' + Cardinality(Held) + wbufs' = nummbufs'
  <2>1. /\ wbufs' = (wbufs + numfree) - numfree' /\ numfree' \in Nat /\ wbufs' \in Nat
        /\ nummbufs' = (numfree + Cardinality(Held)) + wbufs
    BY <1>1, <1>2, <1>5
  <2>. QED
    BY <1>5, <1>6, <2>1, SumMoves
<1>8. PoolSum'
  BY <1>4, <1>7, Zenon DEF PoolSum
<1>. QED
  BY <1>1, <1>4, <1>8, PacketKeeps

\* A smaller pool: the flush frees the buffers of the write caches, so only
\* read buffers can be in the way.
LEMMA ShrinkKeeps ==
    ASSUME Inv, fault = "none", NEW n \in Pools, n < nummbufs, answer' = NoAnswer,
           mb_FreeSomeMBufs(nummbufs - n, RemReadBufs(FreeAfterFlush(nummbufs - n))),
           UNCHANGED <<file, writes, efhs, fouled>>
    PROVE  Inv'
<1>. DEFINE need == nummbufs - n
            free == FreeAfterFlush(need)
<1>0. n \in Nat /\ nummbufs \in Nat /\ numfree \in Nat /\ wbufs \in Nat
  BY ReadBufAssumption DEF Inv, Types, BufTypes
<1>1. need \in Nat /\ free = IF need > numfree THEN numfree + wbufs ELSE numfree
  BY <1>0 DEF FreeAfterFlush
<1>2. \/ /\ need <= free /\ nummbufs' = nummbufs - need /\ numfree' = free - need
         /\ wbufs' = (IF free = numfree THEN wbufs ELSE 0) /\ UNCHANGED fault
      \/ /\ ~(need <= free) /\ fault' = "more buffers freed than are free"
         /\ UNCHANGED <<nummbufs, numfree, wbufs>>
  <2>1. mb_FreeSomeMBufs(need, free)
    BY DEF RemReadBufs
  <2>. HIDE DEF need, free
  <2>. QED
    BY <2>1, Zenon DEF mb_FreeSomeMBufs
<1>3. numfree + Cardinality(Held) + wbufs = nummbufs /\ Cardinality(Held) \in Nat
  BY HeldFinite DEF Inv, PoolSum
<1>4. CASE need <= free /\ UNCHANGED fault /\ nummbufs' = nummbufs - need
           /\ numfree' = free - need /\ wbufs' = IF free = numfree THEN wbufs ELSE 0
  <2>1. /\ nummbufs' \in Nat /\ numfree' \in Nat /\ wbufs' \in Nat
        /\ numfree' + Cardinality(Held) + wbufs' = nummbufs'
    <3>. HIDE DEF free
    <3>. QED
      BY <1>0, <1>1, <1>3, <1>4
  <2>2. Types' /\ BufTypes' /\ Held' = Held /\ (Held \subseteq isopen)' /\ BufferExact'
    BY <2>1, SameHandles
  <2>3. PoolSum'
    BY <2>1, <2>2 DEF PoolSum
  <2>. QED
    BY <1>4, <2>2, <2>3, PacketKeeps
<1>5. CASE ~(need <= free) /\ fault' = "more buffers freed than are free"
           /\ UNCHANGED <<nummbufs, numfree, wbufs>>
  <2>1. Types' /\ BufTypes' /\ Held' = Held /\ (Held \subseteq isopen)' /\ BufferExact'
    BY <1>0, <1>5, SameHandles
  <2>2. PoolSum'
    BY <1>3, <1>5, <2>1 DEF PoolSum
  <2>3. Cardinality(Held) > n
    <3>. HIDE DEF free
    <3>1. need > numfree + wbufs
      <4>. HIDE DEF need
      <4>1. ~(need <= free)
        BY <1>5
      <4>2. CASE need > numfree
        BY <1>0, <1>1, <4>1, <4>2
      <4>3. CASE ~(need > numfree)
        BY <1>0, <1>1, <4>1, <4>3
      <4>. QED
        BY <4>2, <4>3
    <3>2. nummbufs - n > numfree + wbufs
      BY <3>1
    <3>3. PICK c \in Nat : c = Cardinality(Held)
      BY HeldFinite
    <3>4. PICK s \in Nat : s = nummbufs
      BY <1>0
    <3>5. (numfree + c) + wbufs = s /\ s - n > numfree + wbufs
      BY <1>3, <3>2, <3>3, <3>4
    <3>6. c > n
      BY <1>0, <3>5, HeldBound
    <3>. QED
      BY <3>3, <3>6
  <2>4. FreesOnlyFree'
    BY <2>1, <2>3 DEF FreesOnlyFree
  <2>5. ReadCurrent'
    BY DEF ReadCurrent
  <2>. QED
    BY <2>1, <2>2, <2>4, <2>5 DEF Inv
<1>. QED
  BY <1>2, <1>4, <1>5

LEMMA GrowKeeps ==
    ASSUME Inv, fault = "none", NEW n \in Pools, n > nummbufs, answer' = NoAnswer,
           mb_AllocMoreMBufs(n - nummbufs), UNCHANGED <<wbufs, fault>>,
           UNCHANGED <<file, writes, efhs, fouled>>
    PROVE  Inv'
<1>0. n \in Nat /\ nummbufs \in Nat /\ numfree \in Nat /\ wbufs \in Nat
  BY ReadBufAssumption DEF Inv, Types, BufTypes
<1>1. /\ nummbufs' \in Nat /\ numfree' \in Nat
      /\ numfree' = numfree + (nummbufs' - nummbufs)
  BY <1>0 DEF mb_AllocMoreMBufs
<1>2. Types' /\ BufTypes' /\ Held' = Held /\ (Held \subseteq isopen)' /\ BufferExact'
  BY <1>0, <1>1, SameHandles
<1>3. numfree + Cardinality(Held) + wbufs = nummbufs /\ Cardinality(Held) \in Nat
  BY HeldFinite DEF Inv, PoolSum
<1>4. numfree' + Cardinality(Held) + wbufs' = nummbufs'
  <2>1. /\ wbufs' = wbufs /\ wbufs' \in Nat
        /\ numfree' = numfree + (nummbufs' - nummbufs)
    BY <1>0, <1>1
  <2>. QED
    BY <1>0, <1>1, <1>3, <2>1, SumGrows
<1>5. PoolSum'
  BY <1>2, <1>4, Zenon DEF PoolSum
<1>. QED
  BY <1>2, <1>5, PacketKeeps

-----------------------------------------------------------------------------
LEMMA InvInit == Init => Inv
<1>. SUFFICES ASSUME Init PROVE Inv
  OBVIOUS
<1>1. file \in Seq(Nat) /\ Len(file) = MaxLen
  <2>1. <<>> \in Seq(Nat) /\ MaxLen \in Nat
    BY ReadBufAssumption
  <2>. QED
    BY <2>1, ResizeFacts, Zenon DEF Init
<1>2. Types /\ BufTypes
  BY <1>1, ReadBufAssumption DEF Init, Types, BufTypes
<1>3. Held = {}
  BY DEF Init, Held
<1>4. PoolSum /\ Held \subseteq isopen
  BY <1>3, FS_EmptySet, ReadBufAssumption DEF Init, PoolSum
<1>5. BufferExact /\ ReadCurrent /\ FreesOnlyFree
  BY DEF Init, BufferExact, ReadCurrent, FreesOnlyFree
<1>. QED
  BY <1>2, <1>4, <1>5 DEF Inv

LEMMA InvStep == Inv /\ [Next]_vars => Inv'
<1>. SUFFICES ASSUME Inv, [Next]_vars PROVE Inv'
  OBVIOUS
<1>1. CASE UNCHANGED vars
  <2>1. /\ UNCHANGED <<file, writes, efhs, fouled>>
        /\ UNCHANGED <<nummbufs, numfree, wbufs>> /\ UNCHANGED <<answer, fault>>
    BY <1>1 DEF vars, pool
  <2>2. nummbufs' \in Nat /\ wbufs' \in Nat /\ numfree' \in Nat
    BY <2>1 DEF Inv, Types, BufTypes
  <2>3. Types' /\ BufTypes' /\ Held' = Held /\ (Held \subseteq isopen)' /\ BufferExact'
    BY <2>1, <2>2, SameHandles
  <2>4. PoolSum' /\ ReadCurrent' /\ FreesOnlyFree'
    BY <2>1, <2>3, Zenon DEF Inv, PoolSum, ReadCurrent, FreesOnlyFree
  <2>. QED
    BY <2>3, <2>4 DEF Inv
<1>2. CASE Next
  <2>0. fault = "none"
    BY <1>2 DEF Next
  <2>1. CASE \E h \in Handles, n \in Nums : act_READ(h, n) \/ act_WRITE(h, n)
    BY <2>0, <2>1, ReadPacketKeeps, WriteKeeps
  <2>2. CASE \E h \in Handles, n \in 0 .. MaxLen : act_SEEK(h, n) \/ act_SET_FILE_SIZE(h, n)
    BY <2>0, <2>2, SeekKeeps, SetSizeKeeps
  <2>3. CASE \E h \in Handles : Find(h) \/ act_END(h)
    BY <2>0, <2>3, FindKeeps, EndKeeps
  <2>4. CASE \E p \in 0 .. MaxLen, n \in Nums : ServerWrite(p, n)
    BY <2>0, <2>4, ServerWriteKeeps
  <2>5. CASE OtherWrites \/ act_FLUSH
    BY <2>0, <2>5, OthersKeep
  <2>6. CASE \E n \in Pools : act_MORE_CACHE(n)
    BY <2>0, <2>6, ShrinkKeeps, GrowKeeps DEF act_MORE_CACHE
  <2>. QED
    BY <1>2, <2>1, <2>2, <2>3, <2>4, <2>5, <2>6 DEF Next
<1>. QED
  BY <1>1, <1>2

LEMMA InvInvariant == Spec => []Inv
BY InvInit, InvStep, PTL DEF Spec

\* g_NumFreeMBufs, the read buffers and the write caches account for every
\* buffer of the pool, through failing reads, closes and changes of its size.
THEOREM PoolStaysExact == Spec => []PoolExact
<1>1. Inv => PoolExact
  BY DEF Inv, Types, BufTypes, PoolSum, PoolExact, TypeOK
<1>. QED
  BY <1>1, InvInvariant, PTL

\* rb_ReadBuf and the end test of act_READ answer what the server would
\* answer, as long as nobody else changed the file.
THEOREM ReadsStayExact == Spec => []ReadsExact
<1>1. Inv => ReadsExact
  BY DEF Inv, ReadsExact
<1>. QED
  BY <1>1, InvInvariant, PTL

\* mb_FreeSomeMBufs finds enough free buffers unless read buffers hold more of
\* the pool than ACTION_MORE_CACHE leaves.
THEOREM FreesStayFree == Spec => []FreesOnlyFree
<1>1. Inv => FreesOnlyFree
  BY DEF Inv
<1>. QED
  BY <1>1, InvInvariant, PTL
=============================================================================
