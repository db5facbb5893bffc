------------------------------ MODULE RpcClient -----------------------------
(***************************************************************************)
(* The RPC client of the handler (rpc/clnt_audp.c) and the routines that   *)
(* move file data through it (nfs.c): nfs_MAWrite and nfs_MARead keep      *)
(* several calls on their way (clntaudp_sendsb, clntaudp_wait), nfs_MWrite,*)
(* nfs_MRead and all other procedures make one call at a time              *)
(* (ch_clnt_call, clntaudp_call).                                          *)
(*                                                                         *)
(* UDP loses, repeats, delays and reorders datagrams: requests and answers *)
(* stay in the sets reqs and reps, from which the server and the client    *)
(* may take them at any time, in any order, any number of times or never.  *)
(* The handler is single-threaded: it does nothing else while an operation *)
(* runs, and it is only inside select that other parties take steps.       *)
(*                                                                         *)
(* A datagram is the transaction id, the procedure, the range of bytes it  *)
(* is about, and whether it is whole: a request that clntaudp_wait sends   *)
(* again lacks the data block that only clntaudp_sendsb had.               *)
(***************************************************************************)
EXTENDS Integers, FiniteSets

CONSTANTS
    NumAsync,   \* slots of the handle (mcu_numscu): 3 in nfs_handler.c
    NumRPCs,    \* pipelined calls of one operation: ng_NumRRPCs, ng_NumWRPCs
    MaxData,    \* bytes of one read or write: ng_MaxReadSize, ng_MaxWriteSize
    Counts,     \* bytes an operation may ask for
    MaxRefusals,\* bound: answers that report an error, at a time
    Rounds,     \* mcu_total in units of mcu_wait
    MaxXid      \* bound: no operation starts and no call is repeated after it

ASSUME RpcAssumption ==
    /\ NumAsync \in Nat \ {0}
    /\ NumRPCs \in 1 .. NumAsync
    /\ MaxData \in Nat \ {0}
    /\ Counts \subseteq Nat \ {0} /\ IsFiniteSet(Counts) /\ Counts # {}
    /\ MaxRefusals \in Nat
    /\ Rounds \in Nat \ {0} /\ MaxXid \in Nat

Slots == 0 .. NumAsync - 1
MaxCount == CHOOSE n \in Counts : \A m \in Counts : m <= n
Bytes == 0 .. MaxCount - 1

VARIABLES
    \* the client handle: struct mcu_data and struct scu_data
    xid,        \* mcu_xid, counted from 0: its upper half never wraps here
    inuse,      \* scu_inuse
    waited,     \* scu_time_waited, in units of mcu_wait
    out,        \* scu_outbuf: the request encoded last
    numfree,    \* mcu_numfreescu
    xresults,   \* mcu_xresults, by the procedure whose answer it decodes
    \* the routine of nfs.c that runs, and its local variables
    op, count, asked, pending, eof, tot,
    first,      \* the last xid used before it started
    calling,    \* inside clntaudp_call, after its first sendto
    cwaited,    \* time_waited of clntaudp_call
    refreshes,  \* nrefreshes of clntaudp_call
    res,        \* how the last operation ended
    cause,      \* why it failed
    \* the network and the server
    reqs, reps, applied, size

handle == <<xid, inuse, waited, out, numfree, xresults>>
locals == <<op, count, asked, pending, eof, tot, first>>
callvars == <<calling, cwaited, refreshes>>
outcome == <<res, cause>>
net == <<reqs, reps>>
server == <<applied, size>>
vars == <<handle, locals, callvars, outcome, net, server>>

RNUMASYNC == 5

LeastOf(S) == CHOOSE n \in S : \A m \in S : n <= m
Smaller(a, b) == IF a < b THEN a ELSE b
Used == {s \in Slots : inuse[s]}

\* The procedure an operation calls, by the decoder of its answers.
Procedure(o) == CASE o \in {"MAWrite", "MWrite"} -> "write"
                  [] o \in {"MARead", "MRead"} -> "read"
                  [] OTHER -> "proc"

\* A request for the next part of the running operation: offset and the
\* smaller of what is left and what one call carries.
Request(x, whole) ==
    [xid |-> x, proc |-> Procedure(op), off |-> asked - count,
     cnt |-> Smaller(count, MaxData), whole |-> whole]

NoRequest == [xid |-> 0, proc |-> "none", off |-> 0, cnt |-> 0, whole |-> FALSE]

Extent(r) == r.off .. r.off + r.cnt - 1

----------------------------------------------------------------------------
(* The end of an operation.                                                *)

\* The routine returns, its local variables are gone.
Return ==
    /\ op' = "none"
    /\ count' = 0 /\ asked' = 0 /\ pending' = 0 /\ eof' = FALSE /\ tot' = 0
    /\ first' = xid

Succeed ==
    /\ Return
    /\ res' = "ok" /\ cause' = "none"

Fail(why) ==
    /\ Return
    /\ res' = "failed" /\ cause' = why

\* clnt_abort: all slots are free, whatever is still on its way.
Abort ==
    /\ inuse' = [s \in Slots |-> FALSE]
    /\ numfree' = numfree + Cardinality(Used)

----------------------------------------------------------------------------
(* clntaudp_sendsb: put a request into the first free slot and send it.    *)

SlotFree == numfree # 0 /\ Used # Slots
SameDecoder == numfree = NumAsync \/ xresults = Procedure(op)

\* The datagram went out.
SendsbOk ==
    LET s == LeastOf(Slots \ Used)
        whole == Procedure(op) # "write"
    IN  /\ SlotFree /\ SameDecoder
        /\ xid' = xid + 1
        /\ xresults' = Procedure(op)
        /\ inuse' = [inuse EXCEPT ![s] = TRUE]
        /\ waited' = [waited EXCEPT ![s] = 0]
        /\ out' = [out EXCEPT ![s] = Request(xid', whole)]
        /\ numfree' = numfree - 1
        /\ reqs' = reqs \cup {Request(xid', TRUE)}

\* There is no free slot, or slots are in use for another procedure, or
\* the socket refuses the datagram: the slot was prepared but is not taken.
SendsbFails ==
    \/ /\ ~(SlotFree /\ SameDecoder)
       /\ UNCHANGED <<xid, xresults, waited, out>>
    \/ LET s == LeastOf(Slots \ Used)
       IN  /\ SlotFree /\ SameDecoder
           /\ xid' = xid + 1
           /\ xresults' = Procedure(op)
           /\ waited' = [waited EXCEPT ![s] = 0]
           /\ out' = [out EXCEPT ![s] = Request(xid', Procedure(op) # "write")]

----------------------------------------------------------------------------
(* clntaudp_wait: one answer, or an error.                                 *)

\* select timed out: the slots are aged in order up to the first one that
\* has time left, and that one is sent again, without its data block.
Expired(s) == waited[s] + 1 >= Rounds
Resent == {s \in Used : ~Expired(s) /\ \A t \in Used : t < s => Expired(t)}
Aged == IF Resent = {} THEN Used ELSE {s \in Used : s <= LeastOf(Resent)}

\* Mutant: a retransmission does not count the time waited.
WaitNoAge == UNCHANGED waited

\* (a time beyond the total is not told apart from the total)
WaitAges == waited' = [s \in Slots |-> IF s \in Aged THEN Smaller(waited[s] + 1, Rounds)
                                       ELSE waited[s]]

\* Mutant: an answer is taken for any slot in use.
AnswersAny(r) == Used

\* An answer belongs to the slot in use that has its transaction id.
Answers(r) == {s \in Used : out[s].xid = r.xid}

\* Answers of the RPC layer of the server: credentials or arguments refused.
Refusals == {"denied", "garbled"}

\* Decoding an answer of another procedure may fail or give any result.
Decoded(r, proc) ==
    IF r.proc = proc \/ r.stat \in Refusals THEN {r.stat}
    ELSE {"ok", "err", "garbled"}

\* Mutant: the slot is freed but not counted.
FreeSlotUncounted(s) ==
    /\ inuse' = [inuse EXCEPT ![s] = FALSE]
    /\ reqs' = {r \in reqs : r.xid # out[s].xid}
    /\ UNCHANGED <<xid, waited, out, numfree, xresults>>

FreeSlot(s) ==
    /\ inuse' = [inuse EXCEPT ![s] = FALSE]
    /\ numfree' = numfree + 1
    /\ reqs' = {r \in reqs : r.xid # out[s].xid}
    /\ UNCHANGED <<xid, waited, out, xresults>>

----------------------------------------------------------------------------
(* nfs_MAWrite and nfs_MARead.                                             *)

Working(o) == op = o
More == count > 0 /\ ~eof
MustWait == IF More THEN pending >= NumRPCs ELSE pending > 0

\* The next part is sent; the caller's offset, buffer and count move on.
SendPart ==
    /\ More /\ ~MustWait
    /\ SendsbOk
    /\ pending' = pending + 1
    /\ count' = count - Smaller(count, MaxData)
    /\ UNCHANGED <<op, asked, eof, tot, first, callvars, outcome, reps, server>>

MAWriteSend == Working("MAWrite") /\ SendPart

\* One of the RNUMASYNC entries for arguments and result is free: a call
\* waits as soon as NumRPCs of them are pending.
MAReadSend == Working("MARead") /\ pending < RNUMASYNC /\ SendPart

\* The send fails: nfs_MARead aborts, nfs_MAWrite just returns.
MAWriteSendFails ==
    /\ Working("MAWrite") /\ More /\ ~MustWait
    /\ SendsbFails
    /\ Fail("send")
    /\ UNCHANGED <<inuse, numfree, callvars, net, server>>

MAReadSendFails ==
    /\ Working("MARead") /\ More /\ ~MustWait
    /\ SendsbFails
    /\ Abort
    /\ Fail("send")
    /\ UNCHANGED <<callvars, net, server>>

\* Waiting, select timed out and a slot was sent again; what is sent is the
\* request without a data block.
PipeResend ==
    /\ op \in {"MAWrite", "MARead"} /\ MustWait
    /\ Resent # {}
    /\ WaitAges
    /\ reqs' = reqs \cup {out[s] : s \in Resent}
    /\ UNCHANGED <<xid, inuse, out, numfree, xresults,
                   locals, callvars, outcome, reps, server>>

\* No slot has time left.
PipeTimeout ==
    /\ op \in {"MAWrite", "MARead"} /\ MustWait
    /\ Resent = {}
    /\ Abort
    /\ Fail("timeout")
    /\ UNCHANGED <<xid, waited, out, xresults, callvars, net, server>>

\* select, recvfrom or sending again failed.
PipeSocketFails ==
    /\ op \in {"MAWrite", "MARead"} /\ MustWait
    /\ Abort
    /\ Fail("socket")
    /\ UNCHANGED <<xid, waited, out, xresults, callvars, net, server>>

\* An answer that is an error of the RPC layer or of the server.
PipeBadAnswer(r) ==
    /\ op \in {"MAWrite", "MARead"} /\ MustWait
    /\ Answers(r) # {}
    /\ \E st \in Decoded(r, xresults) : st # "ok" /\ Fail(st)
    /\ Abort
    /\ UNCHANGED <<xid, waited, out, xresults, callvars, net, server>>

\* One part of a write is acknowledged.
MAWriteAnswer(r) ==
    /\ Working("MAWrite") /\ MustWait
    /\ Answers(r) # {}
    /\ "ok" \in Decoded(r, xresults)
    /\ FreeSlot(LeastOf(Answers(r)))
    /\ pending' = pending - 1
    /\ UNCHANGED <<op, count, asked, eof, tot, first, callvars, outcome, reps, server>>

\* One part of a read arrives.  A short one ends the file; if another part
\* has ended it before, only an empty one is accepted.
MAReadAnswer(r) ==
    LET s == LeastOf(Answers(r))
        short == r.len < out[s].cnt
    IN  /\ Working("MARead") /\ MustWait
        /\ Answers(r) # {}
        /\ "ok" \in Decoded(r, xresults)
        /\ ~(short /\ eof /\ r.len > 0)
        /\ FreeSlot(s)
        /\ pending' = pending - 1
        /\ eof' = (eof \/ short)
        /\ tot' = tot + r.len
        /\ UNCHANGED <<op, count, asked, first, callvars, outcome, reps, server>>

MAReadIncomplete(r) ==
    LET s == LeastOf(Answers(r))
    IN  /\ Working("MARead") /\ MustWait
        /\ Answers(r) # {}
        /\ "ok" \in Decoded(r, xresults)
        /\ eof /\ r.len < out[s].cnt /\ r.len > 0
        /\ Abort
        /\ Fail("incomplete")
        /\ UNCHANGED <<xid, waited, out, xresults, callvars, net, server>>

\* Nothing left to send or to wait for.
PipeEnd ==
    /\ op \in {"MAWrite", "MARead"} /\ ~More /\ pending = 0
    /\ Succeed
    /\ UNCHANGED <<handle, callvars, net, server>>

----------------------------------------------------------------------------
(* clntaudp_call under ch_clnt_call: one call at a time, always in the     *)
(* buffer of slot 0, whether that slot is in use or not.                   *)

Single == {"MWrite", "MRead", "Proc"}

\* Mutant: a call keeps the transaction id of the one before it.
EncodeCallSameXid ==
    /\ xid' = IF xid = 0 THEN 1 ELSE xid
    /\ out' = [out EXCEPT ![0] = Request(xid', TRUE)]
    /\ UNCHANGED <<inuse, waited, numfree, xresults>>

EncodeCall ==
    /\ xid' = xid + 1
    /\ out' = [out EXCEPT ![0] = Request(xid', TRUE)]
    /\ UNCHANGED <<inuse, waited, numfree, xresults>>

CallReturns == calling' = FALSE /\ cwaited' = 0 /\ refreshes' = 0

\* A new call; the socket may refuse the datagram.
CallSend ==
    /\ op \in Single /\ More /\ ~calling
    /\ EncodeCall
    /\ reqs' = reqs \cup {Request(xid', TRUE)}
    /\ calling' = TRUE
    /\ cwaited' = 0
    /\ refreshes' = 2
    /\ UNCHANGED <<locals, outcome, reps, server>>

CallSendFails ==
    /\ op \in Single /\ More
    /\ \/ ~calling /\ EncodeCall
       \/ calling /\ cwaited + 1 < Rounds /\ UNCHANGED handle
    /\ CallReturns
    /\ Fail("send")
    /\ UNCHANGED <<net, server>>

\* select timed out and there is time left: the request is sent again.
CallResend ==
    /\ calling /\ cwaited + 1 < Rounds
    /\ cwaited' = cwaited + 1
    /\ reqs' = reqs \cup {out[0]}
    /\ UNCHANGED <<handle, locals, calling, refreshes, outcome, reps, server>>

\* The time is over, and the user (RPCTimeoutReq) wants another try: the
\* same call with a new transaction id.
CallAgain ==
    /\ calling /\ cwaited + 1 >= Rounds
    /\ xid < MaxXid
    /\ EncodeCall
    /\ reqs' = reqs \cup {Request(xid', TRUE)}
    /\ cwaited' = 0
    /\ refreshes' = 2
    /\ UNCHANGED <<locals, calling, outcome, reps, server>>

\* The time is over and the user gives up.
CallTimeout ==
    /\ calling /\ cwaited + 1 >= Rounds
    /\ CallReturns
    /\ Fail("timeout")
    /\ UNCHANGED <<handle, net, server>>

\* select or recvfrom failed.
CallSocketFails ==
    /\ calling
    /\ CallReturns
    /\ Fail("socket")
    /\ UNCHANGED <<handle, net, server>>

\* An answer with the transaction id of the buffer.  If the server did not
\* accept the call the authenticator may be refreshed, and it is sent again
\* with a new transaction id and what is left of the time.
CallRefresh(r) ==
    /\ calling /\ r.xid = out[0].xid /\ r.stat \in Refusals
    /\ refreshes > 0 /\ xid < MaxXid
    /\ EncodeCall
    /\ reqs' = reqs \cup {Request(xid', TRUE)}
    /\ refreshes' = refreshes - 1
    /\ UNCHANGED <<locals, calling, cwaited, outcome, reps, server>>

CallBadAnswer(r) ==
    /\ calling /\ r.xid = out[0].xid /\ r.stat # "ok"
    /\ CallReturns
    /\ Fail(r.stat)
    /\ UNCHANGED <<handle, net, server>>

\* A good answer: nfs_MWrite goes on behind what it sent, nfs_MRead behind
\* what it received, and stops at an empty answer.
CallAnswer(r) ==
    LET len == IF op = "MRead" THEN r.len ELSE out[0].cnt
    IN  /\ calling /\ r.xid = out[0].xid /\ r.stat = "ok"
        /\ CallReturns
        /\ count' = count - len
        /\ tot' = tot + len
        /\ eof' = (len = 0)
        /\ UNCHANGED <<handle, op, asked, pending, first,
                       outcome, net, server>>

SingleEnd ==
    /\ op \in Single /\ ~More /\ ~calling
    /\ Succeed
    /\ UNCHANGED <<handle, callvars, net, server>>

----------------------------------------------------------------------------
(* The server, and the callers of nfs.c.                                   *)

\* An operation starts.  Datagrams of earlier calls that no slot waits for
\* can have no effect on it any more and are dropped from the model.
Begin(o, n) ==
    /\ op = "none" /\ xid < MaxXid
    /\ op' = o
    /\ count' = n /\ asked' = n
    /\ pending' = 0 /\ eof' = FALSE /\ tot' = 0
    /\ first' = xid
    /\ res' = "none" /\ cause' = "none"
    /\ applied' = {}
    /\ size' \in IF Procedure(o) = "read" THEN 0 .. MaxCount ELSE {0}
    /\ reqs' = {r \in reqs : \E s \in Used : out[s].xid = r.xid}
    /\ reps' = {r \in reps : \E s \in Used : out[s].xid = r.xid}
    /\ UNCHANGED <<handle, callvars>>

\* What the server returns for a read of the range of r.
ReadLen(r) == Cardinality({b \in Extent(r) : b < size})

\* The server executes a request, perhaps again, or its RPC layer denies it:
\* the arguments of a request without its data cannot be decoded, and the
\* credentials of any may be refused.
Serve(r, stat) ==
    /\ stat = "garbled" <=> ~r.whole
    /\ stat \in {"err", "denied"} =>
          Cardinality({a \in reps : a.stat \in {"err", "denied"}}) < MaxRefusals
    /\ reps' = reps \cup {[xid |-> r.xid, proc |-> r.proc, stat |-> stat,
                           len |-> IF r.proc = "read" /\ stat = "ok"
                                   THEN ReadLen(r) ELSE 0]}
    /\ applied' = IF stat = "ok" /\ r.proc # "read" /\ r.xid > first
                  THEN applied \cup Extent(r) ELSE applied
    /\ UNCHANGED <<handle, locals, callvars, outcome, reqs, size>>

Init ==
    /\ xid = 0
    /\ inuse = [s \in Slots |-> FALSE]
    /\ waited = [s \in Slots |-> 0]
    /\ out = [s \in Slots |-> NoRequest]
    /\ numfree = NumAsync
    /\ xresults = "none"
    /\ op = "none" /\ count = 0 /\ asked = 0 /\ pending = 0
    /\ eof = FALSE /\ tot = 0 /\ first = 0
    /\ calling = FALSE /\ cwaited = 0 /\ refreshes = 0
    /\ res = "none" /\ cause = "none"
    /\ reqs = {} /\ reps = {}
    /\ applied = {} /\ size = 0

\* What the handler does by itself, as time passes.
Running ==
    \/ MAWriteSend \/ MAReadSend \/ MAWriteSendFails \/ MAReadSendFails
    \/ PipeResend \/ PipeTimeout \/ PipeEnd
    \/ CallSend \/ CallResend \/ CallTimeout \/ SingleEnd

\* What answers and errors of the socket make it do.
Receiving ==
    \/ CallAgain \/ CallSendFails
    \/ PipeSocketFails \/ CallSocketFails
    \/ \E r \in reps :
          \/ PipeBadAnswer(r) \/ MAWriteAnswer(r)
          \/ MAReadAnswer(r) \/ MAReadIncomplete(r)
          \/ CallRefresh(r) \/ CallBadAnswer(r) \/ CallAnswer(r)

Environment ==
    \/ \E o \in {"MAWrite", "MARead", "MWrite", "MRead"}, n \in Counts :
          Begin(o, n)
    \/ Begin("Proc", 1)
    \/ \E r \in reqs, st \in {"ok", "err", "denied", "garbled"} : Serve(r, st)

Next == Running \/ Receiving \/ Environment

Spec == Init /\ [][Next]_vars

\* select returns within mcu_wait, so an operation goes on even if nothing is
\* ever received.  Datagrams that belong to no call let select start over
\* without any time being counted; they are taken to be finitely many.
Fairness == WF_vars(Running)

FairSpec == Spec /\ Fairness

----------------------------------------------------------------------------
(* Properties.                                                             *)

Requests == [xid : 0 .. MaxXid + MaxCount, proc : {"none", "write", "read", "proc"},
             off : 0 .. MaxCount, cnt : 0 .. MaxData, whole : BOOLEAN]

TypeOK ==
    /\ xid \in 0 .. MaxXid + MaxCount
    /\ inuse \in [Slots -> BOOLEAN]
    /\ waited \in [Slots -> 0 .. Rounds]
    /\ out \in [Slots -> Requests]
    /\ numfree \in 0 .. NumAsync
    /\ xresults \in {"none", "write", "read", "proc"}
    /\ op \in {"none", "MAWrite", "MARead", "MWrite", "MRead", "Proc"}
    /\ count \in 0 .. MaxCount /\ asked \in 0 .. MaxCount
    /\ pending \in 0 .. NumRPCs /\ tot \in 0 .. MaxCount
    /\ eof \in BOOLEAN /\ calling \in BOOLEAN
    /\ first \in 0 .. xid
    /\ cwaited \in 0 .. Rounds /\ refreshes \in 0 .. 2
    /\ res \in {"none", "ok", "failed"}
    /\ cause \in {"none", "send", "socket", "timeout", "err", "denied", "garbled", "incomplete"}
    /\ reqs \subseteq Requests
    /\ applied \subseteq Bytes /\ size \in 0 .. MaxCount

\* The handle counts its free slots right, so that a send never fails for want
\* of a slot (nor waits for an answer nobody will send) unless an abandoned
\* write holds them: without one, the slots in use are those of the calls the
\* running routine still counts, each has a transaction id of its own, and
\* there is a slot for the next part.
SlotsAccounted ==
    /\ TypeOK
    /\ numfree = NumAsync - Cardinality(Used)
    /\ Cardinality(Used) >= pending
    /\ Cardinality(Used) = pending =>
          /\ \A s \in Used : out[s].xid > first
          /\ \A s, t \in Used : out[s].xid = out[t].xid => s = t
          /\ op \in {"MAWrite", "MARead"} /\ More /\ ~MustWait =>
                SlotFree /\ SameDecoder

\* What nfs.c promises its callers: a success means that the server has
\* carried out all of it, except for a pipelined write behind an abandoned
\* one; calls are left behind by a pipelined write that fails only, and a
\* pipelined read cleans up.
Abstract == INSTANCE Transfer WITH
    Units <- Bytes,
    want <- IF op \in {"MAWrite", "MWrite", "Proc"} THEN 0 .. asked - 1 ELSE {},
    done <- IF op = "none" THEN {} ELSE applied,
    trust <- Cardinality(Used) = pending

AnswersHonest == Abstract!Spec

\* A read that succeeds returned exactly the bytes the file has in the range
\* asked for, in whatever order the answers came and however often they were
\* repeated (nobody changes the file meanwhile).
ReadExact ==
    op \in {"MARead", "MRead"} /\ ~More /\ ~calling /\ pending = 0
       => tot = Smaller(asked, size)

\* Every operation ends, however many datagrams are lost: each timeout of
\* select brings some slot nearer to its total time, although it is counted
\* for the first slots only, and the user does not repeat a call for ever.
TransferEnds == op # "none" ~> op = "none"

=============================================================================
