------------------------------- MODULE ReadBuf ------------------------------
(***************************************************************************)
(* The read buffer of a file handle (rbuf.c, read.c), the pool its memory  *)
(* comes from (mbuf.c), and ACTION_MORE_CACHE, which changes the size of   *)
(* the pool while files are open (filesys.c).                              *)
(*                                                                         *)
(* The handles of this module are open on one file, may read and write,    *)
(* and have no write buffers (MODE_OLDFILE, MODE_READWRITE): what they     *)
(* write goes to the server at once.  Handles on other files keep write    *)
(* buffers out of the same pool; only the number of these is modelled.     *)
(*                                                                         *)
(* A byte of the file is the number of the write that put it there.        *)
(***************************************************************************)
EXTENDS Integers, Sequences, FiniteSets

CONSTANTS
    Handles,        \* file handles
    MBUFSIZE,       \* bytes of a buffer: 8192
    RBUFFERLIMIT,   \* longest read that uses the buffer: 2048
    Nums,           \* lengths of reads and writes
    Pools,          \* sizes of the pool DistributeBuffers may ask for
    MaxLen,         \* bound: length of the file
    MaxWrites       \* bound: changes of the file

ASSUME ReadBufAssumption ==
    /\ IsFiniteSet(Handles)
    /\ MBUFSIZE \in Nat \ {0} /\ RBUFFERLIMIT \in 1 .. MBUFSIZE
    /\ Nums \subseteq Nat \ {0}
    /\ Pools \subseteq Nat
    /\ MaxLen \in Nat /\ MaxWrites \in Nat

VARIABLES
    file,       \* the bytes the server has
    writes,     \* changes of it so far
    isopen,     \* handles in g_FH
    pos,        \* efh_FilePos
    len,        \* efh_FileLen
    hasrbuf,    \* efh_RBuf is not NULL
    hasdata,    \* rbh_Data is not NULL
    offs,       \* rbh_FileOffs
    data,       \* the rbh_DataLen bytes at rbh_Data
    nummbufs,   \* g_NumMBufs
    numfree,    \* g_NumFreeMBufs
    wbufs,      \* buffers in the write caches of other handles
    fouled,     \* handles whose buffer or length another change made old
    answer,     \* what the last packet, a READ, returned
    fault       \* a step whose outcome the language does not define

pool == <<nummbufs, numfree, wbufs>>
efhs == <<isopen, pos, len, hasrbuf, hasdata, offs, data>>
vars == <<file, writes, efhs, pool, fouled, answer, fault>>

NoAnswer == [h |-> "nobody", pos |-> 0, num |-> 0, bytes |-> <<>>, old |-> FALSE]

Min2(a, b) == IF a < b THEN a ELSE b

\* The bytes [from, from + n) of a file, as far as it has them.
Bytes(f, from, n) == SubSeq(f, from + 1, Min2(from + n, Len(f)))

Held == {h \in Handles : hasdata[h]}

----------------------------------------------------------------------------
(* rbuf.c                                                                  *)

\* Mutant: the buffer is forgotten, not given back.
ReleaseLost(h) ==
    /\ hasdata' = [hasdata EXCEPT ![h] = FALSE]
    /\ offs' = [offs EXCEPT ![h] = 0] /\ data' = [data EXCEPT ![h] = <<>>]
    /\ UNCHANGED numfree

\* "nothing will be done if no memory (just no buf is added)"
rb_CreateRBuf(h) == \E ok \in BOOLEAN : hasrbuf' = [hasrbuf EXCEPT ![h] = ok]

\* "Data buf must be removed on entry"
rb_DeleteRBuf(h) == hasrbuf' = [hasrbuf EXCEPT ![h] = FALSE]

\* rb_ReleaseRBufData and mb_ReleaseMBuf, where there is a buffer.  Its
\* offset and length stay in the header, where nobody reads them.
Release(h) ==
    /\ hasdata' = [hasdata EXCEPT ![h] = FALSE]
    /\ offs' = [offs EXCEPT ![h] = 0] /\ data' = [data EXCEPT ![h] = <<>>]
    /\ numfree' = numfree + (IF hasdata[h] THEN 1 ELSE 0)

Buffered(h, n) ==
    n <= RBUFFERLIMIT /\ pos[h] # 0 /\ (hasdata[h] \/ numfree > 0)

\* Bytes of the request that are in the buffer, from its first byte on.
FromBuffer(h, n) ==
    IF hasdata[h] /\ offs[h] <= pos[h] /\ pos[h] < offs[h] + Len(data[h])
    THEN SubSeq(data[h], pos[h] - offs[h] + 1,
                Min2(pos[h] - offs[h] + n, Len(data[h])))
    ELSE <<>>

Answer(h, n, bytes) ==
    answer' = [h |-> h, pos |-> pos[h], num |-> n, bytes |-> bytes,
               old |-> h \in fouled]

\* All bytes come from the buffer.
ReadFromBuffer(h, n) ==
    LET have == FromBuffer(h, n)
    IN  /\ Buffered(h, n) /\ hasrbuf[h] /\ Len(have) = n
        /\ pos' = [pos EXCEPT ![h] = @ + n]
        /\ Answer(h, n, have)
        /\ UNCHANGED <<len, hasdata, offs, data, numfree, fouled>>

\* rb_ObtainRBufData: mb_ObtainMBuf, of which Buffered says that it succeeds.
rb_ObtainRBufData(h) ==
    /\ hasdata' = [hasdata EXCEPT ![h] = TRUE]
    /\ numfree' = numfree - 1

Refill(h, from, read) ==
    /\ \/ ~hasdata[h] /\ rb_ObtainRBufData(h)
       \/ hasdata[h] /\ UNCHANGED <<hasdata, numfree>>
    /\ offs' = [offs EXCEPT ![h] = from]
    /\ data' = [data EXCEPT ![h] = read]

\* The buffer, obtained now if there was none, is filled from behind the
\* bytes it had; at the end of the file it is given back.
ReadThroughBuffer(h, n) ==
    LET have == FromBuffer(h, n)
        from == pos[h] + Len(have)
        read == Bytes(file, from, MBUFSIZE)
        more == SubSeq(read, 1, Min2(n - Len(have), Len(read)))
    IN  /\ Buffered(h, n) /\ hasrbuf[h] /\ Len(have) < n
        /\ len' = [len EXCEPT ![h] = Len(file)]
        /\ pos' = [pos EXCEPT ![h] = from + Len(more)]
        /\ Answer(h, n, have \o more)
        /\ fouled' = fouled \ {h}
        /\ IF read = <<>>
           THEN Release(h)
           ELSE Refill(h, from, read)

\* The call fails: the buffer is given back, the position stays.
ReadThroughBufferFails(h, n) ==
    /\ Buffered(h, n) /\ hasrbuf[h] /\ Len(FromBuffer(h, n)) < n
    /\ Release(h)
    /\ answer' = NoAnswer
    /\ UNCHANGED <<pos, len, fouled>>

\* A long read, the first one, or no buffer to be had.
ReadDirect(h, n) ==
    LET read == Bytes(file, pos[h], n)
    IN  /\ ~Buffered(h, n)
        /\ Release(h)
        /\ pos' = [pos EXCEPT ![h] = @ + Len(read)]
        /\ len' = [len EXCEPT ![h] = Len(file)]
        /\ Answer(h, n, read)
        /\ fouled' = fouled \ {h}

ReadDirectFails(h, n) ==
    /\ ~Buffered(h, n)
    /\ Release(h)
    /\ answer' = NoAnswer
    /\ UNCHANGED <<pos, len, fouled>>

AtEnd(h) == len[h] # 0 /\ len[h] = pos[h]

ReadAtEnd(h, n) ==
    /\ Answer(h, n, <<>>)
    /\ UNCHANGED <<pos, len, hasdata, offs, data, numfree, fouled>>

\* act_READ of n bytes.  rb_ReadBuf looks into efh_RBuf without a test.
act_READ(h, n) ==
    /\ h \in isopen
    /\ \/ AtEnd(h) /\ ReadAtEnd(h, n) /\ UNCHANGED fault
       \/ /\ ~AtEnd(h)
          /\ ~(n <= RBUFFERLIMIT /\ pos[h] # 0 /\ ~hasrbuf[h])
          /\ \/ ReadFromBuffer(h, n)
             \/ ReadThroughBuffer(h, n) \/ ReadThroughBufferFails(h, n)
             \/ ReadDirect(h, n) \/ ReadDirectFails(h, n)
          /\ UNCHANGED fault
       \/ /\ ~AtEnd(h)
          /\ n <= RBUFFERLIMIT /\ pos[h] # 0 /\ ~hasrbuf[h]
          /\ fault' = "no read buffer header"
          /\ UNCHANGED <<pos, len, hasdata, offs, data, numfree, fouled, answer>>
    /\ UNCHANGED <<file, writes, isopen, hasrbuf, nummbufs, wbufs>>

----------------------------------------------------------------------------
(* Packets that change the file.                                           *)

\* The bytes of f with n new ones written at from, a gap filled with zero.
Overwrite(f, from, n, stamp) ==
    [i \in 1 .. (IF from + n > Len(f) THEN from + n ELSE Len(f)) |->
        IF i > from /\ i <= from + n THEN stamp
        ELSE IF i <= Len(f) THEN f[i] ELSE 0]

Resize(f, n) == [i \in 1 .. n |-> IF i <= Len(f) THEN f[i] ELSE 0]

CountChange == writes < MaxWrites /\ writes' = writes + 1

\* Mutant: the read buffer stays.
BeforeWriteKeep(h) == UNCHANGED <<hasdata, offs, data, numfree>>

BeforeWrite(h) == Release(h)

\* act_WRITE: the handle's own read buffer goes before anything is written.
\* A write that fails may have changed the file all the same.
act_WRITE(h, n) ==
    /\ h \in isopen /\ pos[h] + n <= MaxLen /\ CountChange
    /\ BeforeWrite(h)
    /\ \/ /\ file' = Overwrite(file, pos[h], n, writes')
          /\ pos' = [pos EXCEPT ![h] = @ + n]
          /\ len' = [len EXCEPT ![h] = Len(file')]
          /\ fouled' = (fouled \ {h}) \cup (isopen \ {h})
       \/ /\ file' \in {file, Overwrite(file, pos[h], n, writes')}
          /\ fouled' = isopen
          /\ UNCHANGED <<pos, len>>
    /\ answer' = NoAnswer
    /\ UNCHANGED <<isopen, hasrbuf, nummbufs, wbufs, fault>>

\* act_SET_FILE_SIZE, refused while there is another lock on the file.
\* The read buffer stays.  One that fails may have been executed.
act_SET_FILE_SIZE(h, n) ==
    /\ isopen = {h} /\ CountChange
    /\ file' = Resize(file, n)
    /\ \/ /\ len' = [len EXCEPT ![h] = n]
          /\ pos' = [pos EXCEPT ![h] = Min2(@, n)]
       \/ UNCHANGED <<len, pos>>
    /\ fouled' = {h}
    /\ answer' = NoAnswer
    /\ UNCHANGED <<isopen, hasrbuf, hasdata, offs, data, pool, fault>>

\* Another client of the server writes.
ServerWrite(from, n) ==
    /\ from + n <= MaxLen /\ CountChange
    /\ file' = Overwrite(file, from, n, writes')
    /\ fouled' = isopen
    /\ answer' = NoAnswer
    /\ UNCHANGED <<efhs, pool, fault>>

----------------------------------------------------------------------------
(* Opening, seeking, closing.                                              *)

\* The end of a FIND packet: fh_Insert, the length, rb_CreateRBuf.
Find(h) ==
    /\ h \notin isopen
    /\ isopen' = isopen \cup {h}
    /\ pos' = [pos EXCEPT ![h] = 0]
    /\ len' = [len EXCEPT ![h] = Len(file)]
    /\ rb_CreateRBuf(h)
    /\ fouled' = fouled \ {h}
    /\ answer' = NoAnswer
    /\ UNCHANGED <<file, writes, hasdata, offs, data, pool, fault>>

act_SEEK(h, p) ==
    /\ h \in isopen /\ p <= len[h]
    /\ pos' = [pos EXCEPT ![h] = p]
    /\ answer' = NoAnswer
    /\ UNCHANGED <<file, writes, isopen, len, hasrbuf, hasdata, offs, data,
                   pool, fouled, fault>>

\* The header, too, goes with the handle.
act_END(h) ==
    /\ h \in isopen
    /\ Release(h) /\ rb_DeleteRBuf(h)
    /\ isopen' = isopen \ {h}
    /\ pos' = [pos EXCEPT ![h] = 0] /\ len' = [len EXCEPT ![h] = 0]
    /\ fouled' = fouled \ {h}
    /\ answer' = NoAnswer
    /\ UNCHANGED <<file, writes, nummbufs, wbufs, fault>>

----------------------------------------------------------------------------
(* The pool.                                                               *)

\* A handle on another file fills a write buffer: mb_ObtainMBuf.
OtherWrites ==
    /\ numfree > 0
    /\ numfree' = numfree - 1 /\ wbufs' = wbufs + 1
    /\ answer' = NoAnswer
    /\ UNCHANGED <<file, writes, efhs, nummbufs, fouled, fault>>

\* act_FLUSH, also when it fails: all write buffers go back to the pool.
act_FLUSH ==
    /\ wbufs > 0
    /\ numfree' = numfree + wbufs /\ wbufs' = 0
    /\ answer' = NoAnswer
    /\ UNCHANGED <<file, writes, efhs, nummbufs, fouled, fault>>

\* Mutant: the flush is left out.
FreeAfterFlushNone(need) == numfree

\* The buffers that are free after the flush of act_MORE_CACHE.  What
\* follows it, RemReadBufs, flushes once more and frees no read buffer.
FreeAfterFlush(need) == IF need > numfree THEN numfree + wbufs ELSE numfree
RemReadBufs(free) == free

\* mb_FreeSomeMBufs takes need buffers from a list of free ones.
mb_FreeSomeMBufs(need, free) ==
    IF need <= free
    THEN /\ nummbufs' = nummbufs - need /\ numfree' = free - need
         /\ wbufs' = IF free = numfree THEN wbufs ELSE 0
         /\ UNCHANGED fault
    ELSE /\ fault' = "more buffers freed than are free"
         /\ UNCHANGED <<nummbufs, numfree, wbufs>>

\* mb_AllocMoreMBufs.  When the memory ends after k buffers these are counted
\* in and freed again.
mb_AllocMoreMBufs(n) ==
    \/ nummbufs' = nummbufs + n /\ numfree' = numfree + n
    \/ \E k \in 0 .. n - 1 :
         nummbufs' = (nummbufs + k) - k /\ numfree' = (numfree + k) - k

\* act_MORE_CACHE, when DistributeBuffers asks for a pool of size n.
act_MORE_CACHE(n) ==
    /\ n # nummbufs
    /\ answer' = NoAnswer
    /\ \/ /\ n < nummbufs
          /\ mb_FreeSomeMBufs(nummbufs - n,
                              RemReadBufs(FreeAfterFlush(nummbufs - n)))
       \/ /\ n > nummbufs
          /\ mb_AllocMoreMBufs(n - nummbufs)
          /\ UNCHANGED <<wbufs, fault>>
    /\ UNCHANGED <<file, writes, efhs, fouled>>

----------------------------------------------------------------------------

Init ==
    /\ file = Resize(<<>>, MaxLen) /\ writes = 0
    /\ isopen = {}
    /\ pos = [h \in Handles |-> 0] /\ len = [h \in Handles |-> 0]
    /\ hasrbuf = [h \in Handles |-> FALSE]
    /\ hasdata = [h \in Handles |-> FALSE]
    /\ offs = [h \in Handles |-> 0] /\ data = [h \in Handles |-> <<>>]
    /\ nummbufs \in Pools /\ numfree = nummbufs /\ wbufs = 0
    /\ fouled = {} /\ answer = NoAnswer /\ fault = "none"

Next ==
    /\ fault = "none"
    /\ \/ \E h \in Handles, n \in Nums : act_READ(h, n) \/ act_WRITE(h, n)
       \/ \E h \in Handles, n \in 0 .. MaxLen : act_SEEK(h, n) \/ act_SET_FILE_SIZE(h, n)
       \/ \E h \in Handles : Find(h) \/ act_END(h)
       \/ \E p \in 0 .. MaxLen, n \in Nums : ServerWrite(p, n)
       \/ OtherWrites \/ act_FLUSH
       \/ \E n \in Pools : act_MORE_CACHE(n)

Spec == Init /\ [][Next]_vars

----------------------------------------------------------------------------
(* Properties.                                                             *)

TypeOK ==
    /\ Len(file) <= MaxLen
    /\ isopen \subseteq Handles /\ fouled \subseteq isopen
    /\ pos \in [Handles -> 0 .. MaxLen] /\ len \in [Handles -> 0 .. MaxLen]
    /\ \A h \in Handles : Len(data[h]) <= MBUFSIZE
    /\ nummbufs \in Nat /\ numfree \in Nat /\ wbufs \in Nat

\* Every buffer of the pool is free, holds data of a read buffer or is in a
\* write cache, through reads that fail, files that are closed and pools
\* that grow and shrink; a closed handle holds none.
PoolExact ==
    /\ TypeOK
    /\ numfree + Cardinality(Held) + wbufs = nummbufs
    /\ Held \subseteq isopen

\* READ returns the bytes the server has, and as many as were asked for and
\* are there, unless someone else changed the file since this handle last
\* read from the server: own writes are always seen.
ReadCurrent ==
    answer # NoAnswer /\ ~answer.old =>
        answer.bytes = Bytes(file, answer.pos, answer.num)

\* As long as nobody else, no failed write and no SET_FILE_SIZE changed the
\* file, a handle knows its length and its buffer has the bytes of the place
\* it claims, none of them past the end: act_READ answers from both without
\* asking the server.
BufferExact ==
    \A h \in isopen \ fouled :
        /\ len[h] = Len(file)
        /\ hasdata[h] =>
              /\ data[h] # <<>> /\ offs[h] + Len(data[h]) <= Len(file)
              /\ data[h] = Bytes(file, offs[h], Len(data[h]))

\* "ASSERT(NumBufs <= g->g_NumFreeMBufs)" (mbuf.c:53) fails in one case only:
\* read buffers hold more of the pool than may stay, because RemReadBufs does
\* not release them.  Buffers of write caches never make it fail.
FreesOnlyFree ==
    fault = "more buffers freed than are free" => \E n \in Pools : Cardinality(Held) > n

\* A read buffer answers only what the server would answer.
ReadsExact == ReadCurrent /\ BufferExact
=============================================================================
