----------------------------- MODULE WriteCache -----------------------------
(***************************************************************************)
(* The write-behind cache of a file opened with MODE_NEWFILE (wbuf.c) and  *)
(* the packets that act on it: WRITE, SEEK, READ, FLUSH (also sent by the  *)
(* timer and before a change of credentials), SET_FILE_SIZE and END.       *)
(*                                                                         *)
(* Data is abstracted to what the properties tell apart: for each copy of  *)
(* a byte, whether it is the newest the client wrote at that file offset.  *)
(* A buffer is [offs, dirty, old]: its file offset, the file offsets whose *)
(* bytes it holds (wbh_Info as a set, see WBufInfo), and those of them     *)
(* that a newer write to another buffer has superseded.                    *)
(***************************************************************************)
EXTENDS WBufInfo

CONSTANTS
    MBUFSIZE,            \* bytes of a buffer
    WBUFHDRINFOSIZE,     \* entries of wbh_Info
    WBufsMax,            \* buffers a handle may use (g_BufSizePerFile / MBUFSIZE)
    WriteBufferLimit,    \* g_WriteBufferLimit: larger writes are not buffered
    PoolSize,            \* buffers shared by all handles
    MaxFile,             \* bound: the file never grows beyond this
    Sizes,               \* lengths of the client's WRITE packets
    Packets,             \* the packets the client sends, besides WRITE and END
    ServerFails          \* whether RPCs may fail

ASSUME WriteCacheAssumption ==
    /\ MBUFSIZE \in Nat \ {0} /\ WBUFHDRINFOSIZE \in Nat \ {0, 1}
    /\ WBufsMax \in Nat /\ WriteBufferLimit \in Nat
    /\ PoolSize \in Nat /\ MaxFile \in Nat
    /\ Sizes \subseteq Nat
    /\ Packets \subseteq {"SEEK", "FLUSH", "SET_FILE_SIZE"}
    /\ ServerFails \in BOOLEAN

VARIABLES
    pc,                  \* where the handler is inside a WRITE packet
    hasWBuf,             \* efh_WBuf # NULL
    chain,               \* the buffers from wbc_FirstData along wbh_Next
    posData,             \* wbc_PosData as an index of chain, during a WRITE
    target,              \* wbh in WBufWrite: index of the buffer to fill
    num, left,           \* OrigNum and Num in wc_WriteCache
    filePos, fileLen,    \* efh_FilePos, efh_FileLen
    res2,                \* efh_Res2 # 0: an error waits to be reported
    avail, other,        \* free buffers; buffers held by other handles
    srvLen,              \* size of the file on the server
    behind,              \* offsets whose newest byte is not on the server
    told                 \* offsets of lost bytes an error was returned for

file == <<filePos, fileLen, res2>>
call == <<posData, target, num, left>>
data == <<chain, avail, srvLen, behind>>
vars == <<pc, hasWBuf, chain, posData, target, num, left, filePos, fileLen,
          res2, avail, other, srvLen, behind, told>>

Offsets == 0 .. MaxFile - 1

Buffer == [offs : Nat, dirty : SUBSET Offsets, old : SUBSET Offsets]

Larger(a, b) == IF a < b THEN b ELSE a

Smaller(a, b) == IF a < b THEN a ELSE b

WBufAlignFileOffs(pos) == pos - (pos % MBUFSIZE)

NewWBuf(pos) == [offs |-> WBufAlignFileOffs(pos), dirty |-> {}, old |-> {}]

Holds(b, pos) == b.offs <= pos /\ pos < b.offs + MBUFSIZE

\* ObtainWBuf where it succeeds: a header and a buffer leave their free lists,
\* and avail is the length of the shorter one (WBufsAvail).
ObtainWBuf == avail' = avail - 1

WBufCacheFull == WBufsMax <= Len(chain)

HasBufferedWData == chain # <<>>

Buffered == UNION {chain[i].dirty : i \in DOMAIN chain}

\* Bytes that exist neither on the server nor in a buffer any more.
Lost == {p \in behind :
           \A i \in DOMAIN chain : p \notin chain[i].dirty \ chain[i].old}

-----------------------------------------------------------------------------
(***************************************************************************)
(* Flushing.  iwc_FlushCache removes the buffers from the head of the      *)
(* chain and writes every run of every buffer with one nfs_MWrite or       *)
(* nfs_MAWrite; at the first failure the rest of the chain is released     *)
(* unwritten.  All buffers are free afterwards in either case.             *)
(***************************************************************************)

\* sent[i]: the bytes of chain[i] that reached the server.
AllSent == [i \in DOMAIN chain |-> chain[i].dirty]

\* Run r of buffer j fails: an RPC that was refused, or one that was applied
\* and whose answer got lost, so that any part s of the run may be written.
SentBefore(j, r, s) ==
    [i \in DOMAIN chain |->
        IF i < j THEN chain[i].dirty
        ELSE IF i = j THEN {d \in chain[j].dirty : \A e \in r : d < e} \cup s
        ELSE {}]

PartSent ==
    IF ~ServerFails THEN {} ELSE
    UNION {UNION {{SentBefore(j, r, s) : s \in SUBSET r} :
                    r \in Runs(chain[j].dirty)} : j \in DOMAIN chain}

Holders(sent, p) == {i \in DOMAIN chain : p \in sent[i]}

\* On the server the buffer that was written last wins.
BehindAfter(sent) ==
    {p \in behind : Holders(sent, p) = {}}
      \cup {p \in Offsets : Holders(sent, p) # {}
                             /\ p \in chain[Max(Holders(sent, p))].old}

EndOf(S) == IF S = {} THEN 0 ELSE Max(S) + 1

LenAfter(sent) ==
    Larger(srvLen, EndOf(UNION {sent[i] : i \in DOMAIN chain}))

ReleaseAll == avail + Len(chain)

\* The two outcomes of iwc_FlushCache; next gives the chain's new value, so
\* that a caller can go on with a fresh buffer in the same step.
FlushOK(next) ==
    /\ chain' = next
    /\ avail' = ReleaseAll - Len(next)
    /\ behind' = BehindAfter(AllSent)
    /\ srvLen' = LenAfter(AllSent)

\* Mutant: the buffer whose RPC failed is not released.
FlushFailsLeak ==
    /\ \E sent \in PartSent : behind' = BehindAfter(sent) /\ srvLen' = LenAfter(sent)
    /\ chain' = <<>>
    /\ avail' = ReleaseAll - 1

FlushFails ==
    /\ \E sent \in PartSent : behind' = BehindAfter(sent) /\ srvLen' = LenAfter(sent)
    /\ chain' = <<>>
    /\ avail' = ReleaseAll

\* An error is returned to the client: it knows that what is lost now is.
Report == told' = told \cup {p \in behind' :
              \A i \in DOMAIN chain' : p \notin chain'[i].dirty \ chain'[i].old}

\* A WRITE packet is over: nothing of the call survives it.
CallOver == posData' = 0 /\ target' = 0 /\ num' = 0 /\ left' = 0

-----------------------------------------------------------------------------
(***************************************************************************)
(* WRITE.  wbc_FilePos starts at efh_FilePos and moves with every copy.    *)
(***************************************************************************)
WbcPos == filePos + (num - left)

Region(n) == filePos .. filePos + n - 1

BufsNeeded(n) == (n + MBUFSIZE - 1) \div MBUFSIZE

\* Mutant: the free buffers are not counted.
FitsCacheUnchecked(n) ==
    hasWBuf /\ n <= WriteBufferLimit /\ BufsNeeded(n) <= WBufsMax

\* wc_WriteCache: the write can go through the buffers.
FitsCache(n) ==
    /\ hasWBuf
    /\ n <= WriteBufferLimit
    /\ BufsNeeded(n) <= WBufsMax
    /\ BufsNeeded(n) <= Len(chain) + avail

\* act_WRITE returns -1 after a flush failed: efh_FilePos stays.
WriteFlushFails ==
    /\ FlushFails /\ Report /\ CallOver
    /\ pc' = "idle"
    /\ UNCHANGED file

\* FlushCacheAndWrite: flush, then write the caller's bytes at efh_FilePos.
DirectWriteOK(n) ==
    /\ chain' = <<>>
    /\ avail' = ReleaseAll
    /\ behind' = BehindAfter(AllSent) \ Region(n)
    /\ srvLen' = Larger(LenAfter(AllSent), filePos + n)
    /\ fileLen' = srvLen'
    /\ filePos' = filePos + n
    /\ told' = told \ Region(n)
    /\ UNCHANGED <<pc, call, res2>>

DirectWriteFails(n) ==
    /\ ServerFails
    /\ \E s \in SUBSET Region(n) :
         /\ behind' = (BehindAfter(AllSent) \cup Region(n)) \ s
         /\ srvLen' = Larger(LenAfter(AllSent), EndOf(s))
    /\ chain' = <<>>
    /\ avail' = ReleaseAll
    /\ Report
    /\ UNCHANGED <<pc, call, file>>

FlushCacheAndWrite(n) ==
    /\ ~FitsCache(n)
    /\ \/ DirectWriteOK(n)
       \/ DirectWriteFails(n)
       \/ WriteFlushFails

\* WBufSeekAndPrepare: the buffer that holds pos, or the last one before it.
SeekIndex(pos) ==
    IF pos >= Last(chain).offs + MBUFSIZE THEN Len(chain)
    ELSE LET i == Min({k \in DOMAIN chain : chain[k].offs >= pos - MBUFSIZE})
         IN  IF chain[i].offs > pos THEN i - 1 ELSE i

\* Mutant: only an empty chain gets a buffer in front.
NeedsHeadEmpty(pos) == chain = <<>>

\* pos lies before the first buffer: one is allocated in front (ADDHEAD).
NeedsHead(pos) == chain # <<>> => pos < chain[1].offs

\* ObtainWBuf cannot be called, or would fail, before the chain is flushed.
MustFlush == HasBufferedWData /\ (WBufCacheFull \/ avail = 0)

WBufAddHead(b) == <<b>> \o chain

WBufSeekAndPrepare(n) ==
    /\ FitsCache(n)
    /\ \/ /\ ~NeedsHead(filePos)
          /\ posData' = SeekIndex(filePos)
          /\ pc' = "place"
          /\ UNCHANGED <<data, told, file>>
       \/ /\ NeedsHead(filePos) /\ ~MustFlush
          \* without a free buffer the function returns 0, "no mem"
          /\ \/ avail = 0 /\ pc' = "nomem" /\ UNCHANGED <<chain, avail>>
             \/ /\ avail # 0 /\ pc' = "place"
                /\ chain' = WBufAddHead(NewWBuf(filePos)) /\ ObtainWBuf
          /\ posData' = 1
          /\ UNCHANGED <<srvLen, behind, told, file>>
       \/ /\ NeedsHead(filePos) /\ MustFlush
          /\ FlushOK(<<NewWBuf(filePos)>>)
          /\ posData' = 1
          /\ pc' = "place"
          /\ UNCHANGED <<told, file>>
    /\ num' = n /\ left' = n /\ target' = 0

PrepareFlushFails(n) ==
    /\ FitsCache(n) /\ NeedsHead(filePos) /\ MustFlush
    /\ WriteFlushFails

\* wc_WriteCache for a packet with n > 0 bytes.
wc_WriteCache(n) ==
    /\ n > 0 /\ filePos + n <= MaxFile
    /\ FlushCacheAndWrite(n) \/ WBufSeekAndPrepare(n) \/ PrepareFlushFails(n)

\* A WRITE of no bytes flushes.
WriteNothing ==
    /\ \/ /\ FlushOK(<<>>)
          /\ UNCHANGED <<pc, call, file, told>>
       \/ WriteFlushFails

act_WRITE ==
    /\ pc = "idle" /\ ~res2
    /\ \/ \E n \in Sizes : wc_WriteCache(n)
       \/ 0 \in Sizes /\ WriteNothing
    /\ UNCHANGED <<hasWBuf, other>>

-----------------------------------------------------------------------------
(***************************************************************************)
(* WBufWrite, one pass of the loop in wc_WriteCache: choose the buffer     *)
(* (pc = "place"), copy as much as fits into it (pc = "copy") and look at  *)
(* the interval array (pc = "check").                                      *)
(***************************************************************************)
NextHolds(pos) == posData < Len(chain) /\ Holds(chain[posData + 1], pos)

\* Mutant: WBufAddTail instead of WBufInsert.
InsertAtTail(i, b) == Append(chain, b)

\* WBufInsert.
InsertAfter(i, b) == InsertAt(chain, i + 1, b)

PlaceHere ==
    /\ WbcPos < chain[posData].offs + MBUFSIZE
    /\ target' = posData
    /\ UNCHANGED <<posData, chain, avail, srvLen, behind>>

\* "next buf will be o.k.": wbc_PosData is not moved.
PlaceNext ==
    /\ WbcPos >= chain[posData].offs + MBUFSIZE
    /\ NextHolds(WbcPos)
    /\ target' = posData + 1
    /\ UNCHANGED <<posData, chain, avail, srvLen, behind>>

NeedsInsert ==
    WbcPos >= chain[posData].offs + MBUFSIZE /\ ~NextHolds(WbcPos)

PlaceInsert ==
    /\ NeedsInsert /\ ~MustFlush
    /\ chain' = InsertAfter(posData, NewWBuf(WbcPos))
    /\ ObtainWBuf
    /\ posData' = posData + 1
    /\ target' = posData + 1
    /\ UNCHANGED <<srvLen, behind>>

PlaceAfterFlush ==
    /\ NeedsInsert /\ MustFlush
    /\ FlushOK(<<NewWBuf(WbcPos)>>)
    /\ posData' = 1
    /\ target' = 1

WBufPlace ==
    /\ pc = "place"
    /\ \/ /\ PlaceHere \/ PlaceNext \/ PlaceInsert \/ PlaceAfterFlush
          /\ pc' = "copy"
          /\ UNCHANGED <<num, left, file, told>>
       \/ NeedsInsert /\ MustFlush /\ WriteFlushFails
    /\ UNCHANGED <<hasWBuf, other>>

Cnt == Smaller(chain[target].offs + MBUFSIZE - WbcPos, left)

Copied == WbcPos .. WbcPos + Cnt - 1

\* The newest bytes are now in the target buffer and nowhere else.
ChainAfterCopy ==
    [i \in DOMAIN chain |->
        IF i = target
          THEN [chain[i] EXCEPT !.dirty = @ \cup Copied, !.old = @ \ Copied]
          ELSE [chain[i] EXCEPT !.old = @ \cup (chain[i].dirty \cap Copied)]]

WBufCopy ==
    /\ pc = "copy"
    /\ chain' = ChainAfterCopy
    /\ behind' = behind \cup Copied
    /\ told' = told \ Copied
    /\ left' = left - Cnt
    /\ target' = 0
    /\ pc' = "check"
    /\ UNCHANGED <<hasWBuf, posData, num, file, avail, other, srvLen>>

\* "make sure one info structure is always available" (wbuf.c:701): the
\* entries of wbc_PosData are counted, whichever buffer was filled.
InfoFull == NumRuns(chain[posData].dirty) + 1 >= WBUFHDRINFOSIZE

\* wc_WriteCache has copied everything; act_WRITE moves efh_FilePos.
WriteDone ==
    /\ filePos' = filePos + num
    /\ fileLen' = Larger(fileLen, filePos + num)
    /\ pc' = "idle"
    /\ CallOver

\* After the flush wbc_PosData points to a released header.  If bytes are
\* left the next WBufWrite follows it: the model stops there, in "wild".
CheckFlush ==
    /\ InfoFull
    /\ FlushOK(<<>>)
    /\ IF left = 0
         THEN WriteDone
         ELSE /\ pc' = "wild" /\ posData' = 0
              /\ UNCHANGED <<target, num, left, filePos, fileLen>>
    /\ UNCHANGED <<res2, told>>

CheckKeep ==
    /\ ~InfoFull
    /\ IF left = 0
         THEN WriteDone
         ELSE pc' = "place" /\ UNCHANGED <<call, filePos, fileLen>>
    /\ UNCHANGED <<data, res2, told>>

WBufCheckInfo ==
    /\ pc = "check"
    /\ CheckKeep \/ CheckFlush \/ (InfoFull /\ WriteFlushFails)
    /\ UNCHANGED <<hasWBuf, other>>

-----------------------------------------------------------------------------
(***************************************************************************)
(* The other packets.                                                      *)
(***************************************************************************)

\* A WRITE or READ that finds efh_Res2 set does nothing but report it.  (A
\* READ on a MODE_NEWFILE handle never gets further than that.)
ReportPending ==
    /\ pc = "idle" /\ res2
    /\ res2' = FALSE
    /\ UNCHANGED <<pc, hasWBuf, call, filePos, fileLen, data, other>>
    /\ Report

act_SEEK ==
    /\ pc = "idle" /\ "SEEK" \in Packets
    /\ \E NewPos \in 0 .. fileLen : filePos' = NewPos
    /\ UNCHANGED <<pc, hasWBuf, call, data, fileLen, res2, other, told>>

\* Mutant: the failure of a background flush is dropped.
act_FLUSHForget ==
    /\ pc = "idle" /\ "FLUSH" \in Packets
    /\ HasBufferedWData
    /\ FlushOK(<<>>) \/ FlushFails
    /\ UNCHANGED <<pc, hasWBuf, call, file, other, told>>

\* Mutant: only a full cache is flushed.
act_FLUSHFull ==
    /\ pc = "idle" /\ "FLUSH" \in Packets
    /\ WBufCacheFull
    /\ FlushOK(<<>>)
    /\ UNCHANGED <<pc, hasWBuf, call, file, other, told>>

\* FlushProc on the handle; act_FLUSH itself always succeeds, so a failure
\* is kept in efh_Res2 for the next packet.
act_FLUSH ==
    /\ pc = "idle" /\ "FLUSH" \in Packets
    /\ HasBufferedWData
    /\ \/ FlushOK(<<>>) /\ UNCHANGED res2
       \/ FlushFails /\ res2' = TRUE
    /\ UNCHANGED <<pc, hasWBuf, call, filePos, fileLen, other, told>>

\* The file gets its new size: both the client's view and the server's copy
\* lose what lies behind it.
SetSize(n, bh) ==
    /\ srvLen' = n
    /\ behind' = {p \in bh : p < n}
    /\ told' = {p \in told : p < n}
    /\ filePos' = Smaller(filePos, n)
    /\ fileLen' = n

\* SET_FILE_SIZE flushes first.  When that fails it prepares an error (Abort)
\* but then still sets the size, and its success replaces the error.
act_SET_FILE_SIZE ==
    /\ pc = "idle" /\ "SET_FILE_SIZE" \in Packets
    /\ chain' = <<>> /\ avail' = ReleaseAll
    /\ \E flushed \in {AllSent} \cup PartSent :
         \/ \E n \in 0 .. MaxFile : SetSize(n, BehindAfter(flushed))
         \* the file is locked elsewhere, a bad size, or a failing nfs_SetSize
         \/ /\ behind' = BehindAfter(flushed)
            /\ srvLen' = LenAfter(flushed)
            /\ Report
            /\ UNCHANGED <<filePos, fileLen>>
    /\ UNCHANGED <<pc, hasWBuf, call, res2, other>>

wc_CreateCache == hasWBuf' \in BOOLEAN

\* "cache must be emptied on call"
wc_DeleteCache == hasWBuf' = FALSE

\* The handle is closed whether or not the flush succeeds; a pending or a
\* new error is returned.
act_END ==
    /\ pc = "idle"
    /\ \/ FlushOK(<<>>) /\ (IF res2 THEN Report ELSE UNCHANGED told)
       \/ FlushFails /\ Report
    /\ res2' = FALSE
    /\ wc_DeleteCache
    /\ pc' = "closed"
    /\ UNCHANGED <<call, filePos, fileLen, other>>

\* FINDOUTPUT: an empty file and a new handle; wc_CreateCache may find no
\* memory for the cache.
act_FINDOUTPUT ==
    /\ pc = "closed"
    /\ wc_CreateCache
    /\ pc' = "idle"
    /\ filePos' = 0 /\ fileLen' = 0 /\ srvLen' = 0
    /\ behind' = {} /\ told' = {}
    /\ UNCHANGED <<call, chain, avail, res2, other>>

\* Between two packets for this handle other handles obtain and release
\* buffers of the shared pool.
OtherHandles ==
    /\ pc \in {"idle", "closed"}
    /\ \E n \in 0 .. other + avail : other' = n /\ avail' = other + avail - n
    /\ UNCHANGED <<pc, hasWBuf, call, file, chain, srvLen, behind, told>>

Init ==
    /\ pc = "closed" /\ hasWBuf = FALSE
    /\ chain = <<>> /\ posData = 0 /\ target = 0 /\ num = 0 /\ left = 0
    /\ filePos = 0 /\ fileLen = 0 /\ res2 = FALSE
    /\ avail = PoolSize /\ other = 0
    /\ srvLen = 0 /\ behind = {} /\ told = {}

Next ==
    \/ act_WRITE \/ WBufPlace \/ WBufCopy \/ WBufCheckInfo
    \/ ReportPending \/ act_SEEK \/ act_FLUSH \/ act_SET_FILE_SIZE
    \/ act_END \/ act_FINDOUTPUT \/ OtherHandles

Spec == Init /\ [][Next]_vars

\* The handler runs a packet to its end, and the timer's packet, sent again
\* every 30 seconds, takes its turn in the handler's FIFO message port.
FairSpec ==
    /\ Spec
    /\ WF_vars(WBufPlace \/ WBufCopy \/ WBufCheckInfo)
    /\ SF_vars(act_FLUSH)

-----------------------------------------------------------------------------
\* The variables hold what their comments say.
TypeOK ==
    /\ pc \in {"closed", "idle", "place", "copy", "check", "nomem", "wild"}
    /\ hasWBuf \in BOOLEAN /\ res2 \in BOOLEAN
    /\ chain \in Seq(Buffer)
    /\ posData \in Nat /\ target \in Nat
    /\ num \in Nat /\ left \in Nat
    /\ filePos \in Nat /\ fileLen \in Nat /\ srvLen \in Nat
    /\ avail \in Nat /\ other \in Nat
    /\ behind \subseteq Offsets /\ told \subseteq Offsets

\* No buffer is leaked or released twice, on no success or failure path of a
\* write or flush, and a handle never exceeds its share: what lets
\* wc_FreeWBufs assert that all headers are free (wbuf.c:113).
PoolConserved ==
    /\ avail + other + Len(chain) = PoolSize
    /\ Len(chain) <= WBufsMax

\* wc_WriteCache's check before it starts makes the "no mem" result of
\* WBufSeekAndPrepare and WBufWrite impossible.  It has to: FlushCacheAndWrite
\* would then write the bytes not yet copied at efh_FilePos, which has not
\* moved.
NeverNoMem == pc # "nomem"

\* The requirement stated above WBufWrite (wbuf.c:620): PosData is on the
\* buffer to fill, one before it, or one before the place for a new one.
WBufWriteRequires ==
    pc = "place" =>
      /\ posData \in DOMAIN chain
      /\ \/ Holds(chain[posData], WbcPos)
         \/ NextHolds(WbcPos)
         \/ /\ chain[posData].offs < WbcPos
            /\ posData < Len(chain) => WbcPos < chain[posData + 1].offs
            /\ \A i \in DOMAIN chain : ~Holds(chain[i], WbcPos)

\* The chain ascends and its buffers do not overlap: a byte has one place in
\* the cache, and flushing from the head cannot overwrite newer data.
ChainSorted ==
    \A i, j \in DOMAIN chain : i < j => chain[i].offs + MBUFSIZE <= chain[j].offs

\* A buffer never has more runs than wbh_Info has entries, although only the
\* entries of PosData are counted when the buffer after it is filled.
InfoFits == \A i \in DOMAIN chain : NumRuns(chain[i].dirty) <= WBUFHDRINFOSIZE

\* WBufUpdateInfo keeps the intervals exact, ordered and never touching (what
\* iwc_FlushCache asserts, "a melting error has happend", wbuf.c:843): from the
\* table of any buffer a WRITE is about to fill, copying any piece gives the
\* table of the runs of the bytes then in it.  No byte that was copied is
\* forgotten, and none the recycled memory held before would be written.
InfoExact ==
    pc = "copy" =>
      LET D == chain[target].dirty
          base == chain[target].offs
      IN  \A from \in 0 .. MBUFSIZE - 1 : \A len \in 1 .. MBUFSIZE - from :
            WBufUpdateInfo(InfoTable(D), base + from, len)
              = InfoTable(D \cup (base + from .. base + from + len - 1))

\* Data that was acknowledged by a WRITE and is then neither on the server nor
\* in a buffer is never lost without a word: the error has been returned to
\* the client, or waits in efh_Res2 - and the latter not after the END.
NoSilentLoss ==
    /\ (pc # "closed" /\ res2) \/ Lost \subseteq told
    /\ res2 => chain = <<>>

\* While a handle has buffered data efh_FileLen covers it, so that act_SEEK
\* lets the client go back to it.
LengthCoversBuffers ==
    pc = "idle" => \A p \in Buffered : p < fileLen

\* What makes PoolConserved and NeverNoMem inductive: between its steps a
\* WRITE has a valid PosData at or before its position, a target that holds
\* it, and no more bytes left than it came with; a closed handle has no chain.
CallSound ==
    /\ pc \in {"place", "copy", "check"} =>
         /\ posData \in DOMAIN chain
         /\ chain[posData].offs <= WbcPos
         /\ left <= num /\ filePos + num <= MaxFile
    /\ pc \in {"place", "copy"} => left > 0
    /\ pc = "copy" => target \in DOMAIN chain /\ Holds(chain[target], WbcPos)
    /\ pc = "closed" => chain = <<>>

\* A WRITE packet that entered the loop of wc_WriteCache leaves it.
WriteEnds == pc \in {"place", "copy", "check"} ~> pc = "idle"

\* No byte stays in a buffer for ever, however the client goes on writing:
\* the timer's flush brings it to the server or turns it into an error.
BuffersDrain == \A p \in Offsets : p \in Buffered ~> p \notin Buffered

\* The cache is well formed between any two steps: the chain is sorted, the
\* requirement of WBufWrite holds, and a handle's length covers its buffers.
CacheSound == TypeOK /\ ChainSorted /\ WBufWriteRequires /\ LengthCoversBuffers

\* Every WRITE ends and every buffered byte leaves its buffer.
DataMoves == WriteEnds /\ BuffersDrain

\* The interval tables never overflow and say exactly which bytes are valid.
TablesExact == InfoFits /\ InfoExact
=============================================================================
