--------------------------- MODULE RpcClientProofs ---------------------------
(***************************************************************************)
(* Proofs about RpcClient for every number of slots and pipelined calls,   *)
(* every size of a transfer, and every loss, repetition, delay and         *)
(* reordering of datagrams: the slots are accounted for, a read returns    *)
(* what the file has, and the client implements Transfer.                  *)
(***************************************************************************)
EXTENDS RpcClient, FiniteSetTheorems, WellFoundedInduction, TLAPS

\* A non-empty set of naturals has a least element.
LEMMA LeastOfNats ==
    ASSUME NEW S \in SUBSET Nat, S # {}
    PROVE  LeastOf(S) \in S /\ \A y \in S : LeastOf(S) <= y
<1>1. PICK x \in S : \A y \in S : ~(<<y, x>> \in OpToRel(<, Nat))
  BY NatLessThanWellFounded, WFMin, Zenon
<1>2. \A y \in S : ~(y < x)
  BY <1>1, Zenon DEF OpToRel
<1>3. \A y \in S : x <= y
  BY <1>2
<1>. QED
  BY <1>3 DEF LeastOf

\* A finite non-empty set of naturals has a greatest element: otherwise there
\* is one without, and of these one with the fewest elements.
LEMMA GreatestOfNats ==
    ASSUME NEW S \in SUBSET Nat, S # {}, IsFiniteSet(S)
    PROVE  \E x \in S : \A y \in S : y <= x
<1>. DEFINE Top(T) == \E x \in T : \A y \in T : y <= x
            Bad == {n \in Nat : \E T \in SUBSET S : T # {} /\ Cardinality(T) = n /\ ~Top(T)}
<1>1. SUFFICES ASSUME ~Top(S) PROVE FALSE
  OBVIOUS
<1>2. Cardinality(S) \in Bad
  BY <1>1, FS_CardinalityType
<1>3. PICK n \in Bad : \A m \in Bad : n <= m
  BY <1>2, LeastOfNats
<1>4. PICK T \in SUBSET S : T # {} /\ Cardinality(T) = n /\ ~Top(T)
  BY <1>3
<1>5. PICK x \in T : TRUE
  BY <1>4
<1>6. IsFiniteSet(T) /\ T \subseteq Nat
  BY FS_Subset
<1>. DEFINE R == T \ {x}
<1>7. IsFiniteSet(R) /\ Cardinality(R) = IF x \in T THEN Cardinality(T) - 1 ELSE Cardinality(T)
  BY <1>6, FS_RemoveElement, Zenon
<1>8. Cardinality(R) = n - 1 /\ Cardinality(R) \in Nat /\ n \in Nat
  BY <1>3, <1>4, <1>5, <1>7, FS_CardinalityType
<1>9. R # {}
  <2>. SUFFICES ASSUME R = {} PROVE FALSE
    OBVIOUS
  <2>1. T = {x}
    BY <1>5
  <2>. QED
    BY <1>4, <1>6, <2>1
<1>10. Cardinality(R) \notin Bad
  BY <1>3, <1>8
<1>11. Top(R)
  <2>. HIDE DEF Top
  <2>. QED
    BY <1>8, <1>9, <1>10
<1>12. PICK m \in R : \A y \in R : y <= m
  BY <1>11
<1>13. CASE m <= x
  <2>1. \A y \in T : y <= x
    <3>. SUFFICES ASSUME NEW y \in T PROVE y <= x
      OBVIOUS
    <3>1. CASE y = x
      BY <3>1, <1>6
    <3>2. CASE y # x
      <4>1. y <= m /\ y \in Nat /\ m \in Nat /\ x \in Nat
        BY <3>2, <1>6, <1>12
      <4>. QED
        BY <4>1, <1>13
    <3>. QED
      BY <3>1, <3>2
  <2>. QED
    BY <2>1, <1>4
<1>14. CASE ~(m <= x)
  <2>1. \A y \in T : y <= m
    <3>. SUFFICES ASSUME NEW y \in T PROVE y <= m
      OBVIOUS
    <3>1. m \in Nat /\ x \in Nat /\ x <= m
      BY <1>6, <1>12, <1>14
    <3>. QED
      BY <3>1, <1>12
  <2>. QED
    BY <2>1, <1>4, <1>12
<1>. QED
  BY <1>13, <1>14

LEMMA MaxCountFacts ==
    MaxCount \in Nat /\ MaxCount > 0 /\ MaxCount \in Counts /\ \A m \in Counts : m \in Nat /\ 0 < m /\ m <= MaxCount
<1>1. Counts \in SUBSET Nat /\ Counts # {} /\ IsFiniteSet(Counts)
  BY RpcAssumption
<1>2. PICK x \in Counts : \A y \in Counts : y <= x
  BY <1>1, GreatestOfNats
<1>3. MaxCount \in Counts /\ \A m \in Counts : m <= MaxCount
  BY <1>2 DEF MaxCount
<1>. QED
  BY <1>3, RpcAssumption

LEMMA SlotFacts ==
    /\ Slots \in SUBSET Nat /\ 0 \in Slots /\ IsFiniteSet(Slots) /\ Cardinality(Slots) = NumAsync
<1>1. NumAsync - 1 \in Int /\ NumAsync \in Nat /\ NumAsync > 0
  BY RpcAssumption
<1>2. IsFiniteSet(0 .. NumAsync - 1) /\ Cardinality(0 .. NumAsync - 1) = (NumAsync - 1) - 0 + 1
  BY <1>1, FS_Interval
<1>. QED
  BY <1>1, <1>2 DEF Slots

LEMMA UsedFinite == IsFiniteSet(Used) /\ Cardinality(Used) \in Nat /\ Used \subseteq Slots
BY SlotFacts, FS_Subset, FS_CardinalityType DEF Used

LEMMA UsedPrimed == (IsFiniteSet(Used) /\ Cardinality(Used) \in Nat /\ Used \subseteq Slots)'
BY UsedFinite, PTL

LEMMA UsedEmpty == Cardinality(Used) = 0 <=> Used = {}
BY UsedFinite, FS_EmptySet

----------------------------------------------------------------------------
(* The inductive invariant.                                                *)

Ops == {"none", "MAWrite", "MARead", "MWrite", "MRead", "Proc"}
Procs == {"none", "write", "read", "proc"}
Pipes == {"MAWrite", "MARead"}
Stats == {"ok", "err", "denied", "garbled"}
Causes == {"none", "send", "socket", "timeout", "err", "denied", "garbled", "incomplete"}

\* No call of an abandoned write is attached to the handle.
Trusted == Cardinality(Used) = pending

HandleTypes ==
    /\ xid \in 0 .. MaxXid + MaxCount
    /\ inuse \in [Slots -> BOOLEAN]
    /\ waited \in [Slots -> 0 .. Rounds]
    /\ out \in [Slots -> Requests]
    /\ xresults \in Procs
    /\ \A s \in Slots : out[s].xid <= xid

LocalTypes ==
    /\ op \in Ops
    /\ asked \in 0 .. MaxCount /\ count \in 0 .. asked
    /\ pending \in 0 .. NumRPCs /\ tot \in 0 .. MaxCount
    /\ eof \in BOOLEAN /\ first \in 0 .. xid
    /\ calling \in BOOLEAN /\ cwaited \in 0 .. Rounds /\ refreshes \in 0 .. 2
    /\ res \in {"none", "ok", "failed"} /\ cause \in Causes

NetTypes ==
    /\ reqs \subseteq Requests
    /\ \A r \in reqs : r.xid <= xid
    /\ \A r \in reps : /\ r.xid \in 0 .. xid
                       /\ r.proc \in Procs /\ r.stat \in Stats /\ r.len \in Nat

ServerTypes == applied \subseteq Bytes /\ size \in 0 .. MaxCount

\* The free slots are counted right, and a routine has no more calls on their
\* way than there are slots in use.
Counted ==
    /\ numfree = NumAsync - Cardinality(Used)
    /\ Cardinality(Used) >= pending

\* The requests of the running operation ask for what it asks for; so do the
\* slots that may be sent again.
Asks(q) == q.xid > first => q.proc = Procedure(op) /\ q.off + q.cnt <= asked
Current ==
    /\ \A r \in reqs : Asks(r)
    /\ op \in Pipes => \A s \in Used : Asks(out[s])

\* A call of the running operation: no other request has its transaction id,
\* and a good answer with that id tells what the server did for it.
Truth(q) ==
    /\ q.xid > first
    /\ \A r \in reqs : r.xid = q.xid => r.proc = q.proc /\ r.off = q.off /\ r.cnt = q.cnt
    /\ \A r \in reps : r.xid = q.xid =>
          /\ r.proc = q.proc
          /\ r.stat = "ok" => IF q.proc = "read" THEN r.len = ReadLen(q)
                              ELSE Extent(q) \subseteq applied

\* The bytes of the file that have arrived in an nfs_MARead.
Arrived == {b \in 0 .. asked - count - 1 : b < size /\ \A s \in Used : b \notin Extent(out[s])}

\* Without an abandoned write the slots in use are calls of the operation for
\* different parts of what it has sent; a part it does not wait for any more
\* has been written, or its bytes have been counted.
SlotCalls ==
    \A s \in Used : /\ Truth(out[s]) /\ out[s].proc = Procedure(op)
                    /\ out[s].cnt > 0 /\ out[s].off + out[s].cnt <= asked - count
SlotsDiffer ==
    \A s, t \in Used : s # t => /\ out[s].xid # out[t].xid
                                /\ Extent(out[s]) \cap Extent(out[t]) = {}
Covered ==
    /\ op = "MAWrite" => \A b \in 0 .. asked - count - 1 :
                            b \in applied \/ \E s \in Used : b \in Extent(out[s])
    /\ op = "MARead" => tot = Cardinality(Arrived)
Pipeline ==
    Trusted => /\ op \notin Pipes => pending = 0
               /\ Used # {} => xresults = Procedure(op)
               /\ SlotCalls /\ SlotsDiffer /\ Covered

\* Behind an abandoned write a pipelined read never gets to send anything.
Abandoned ==
    ~Trusted => /\ xresults = "write"
                /\ op = "MARead" => pending = 0 /\ count = asked /\ ~eof

\* The call on its way is for the next part.
Call ==
    calling => /\ op \in Single /\ More
               /\ out[0] = Request(xid, TRUE) /\ Truth(out[0])

\* What a routine has done so far.
Progress ==
    /\ op \in Single => pending = 0 /\ tot = asked - count
    /\ op = "MRead" => tot <= size
    /\ op \in {"MWrite", "Proc"} => 0 .. asked - count - 1 \subseteq applied /\ ~eof
    /\ op = "MAWrite" => ~eof /\ tot = 0
    /\ op # "none" => asked > 0
    /\ eof => size <= asked - count
    /\ op = "none" => /\ asked = 0 /\ pending = 0 /\ tot = 0 /\ ~eof /\ ~calling
                      /\ \A r \in reqs : r.xid <= first

\* A routine that has n bytes left makes at most n more calls.
Bound ==
    op # "none" /\ More =>
        xid + count <= MaxXid + MaxCount - (IF calling THEN 0 ELSE 1)

Types == HandleTypes /\ LocalTypes /\ NetTypes /\ ServerTypes

Inv ==
    /\ Types /\ Counted /\ Current /\ Pipeline /\ Abandoned
    /\ Call /\ Progress /\ Bound

----------------------------------------------------------------------------
(* The operators of the model.                                             *)

LEMMA RequestFacts ==
    ASSUME LocalTypes, count > 0, NEW x \in 0 .. MaxXid + MaxCount, NEW w \in BOOLEAN
    PROVE  /\ Request(x, w) \in Requests
           /\ Request(x, w).xid = x /\ Request(x, w).proc = Procedure(op)
           /\ Request(x, w).off = asked - count
           /\ Request(x, w).cnt = Smaller(count, MaxData)
           /\ Smaller(count, MaxData) \in 1 .. count
<1>1. MaxCount \in Nat /\ MaxData \in Nat /\ MaxData > 0
  BY MaxCountFacts, RpcAssumption
<1>2. Smaller(count, MaxData) \in 1 .. count /\ Smaller(count, MaxData) \in 0 .. MaxData
  BY <1>1 DEF Smaller, LocalTypes
<1>3. asked - count \in 0 .. MaxCount
  BY <1>1 DEF LocalTypes
<1>4. Procedure(op) \in {"none", "write", "read", "proc"}
  BY DEF Procedure
<1>. HIDE DEF Smaller, Procedure
<1>. QED
  BY <1>2, <1>3, <1>4 DEF Request, Requests

LEMMA IntervalCount ==
    ASSUME NEW a \in Int, NEW b \in Int, a <= b
    PROVE  Cardinality(a .. b) = b - a + 1
<1>1. Cardinality(a .. b) = IF a > b THEN 0 ELSE b - a + 1
  BY FS_Interval, Zenon
<1>. QED
  BY <1>1

\* The length of what the server returns for a range.
LEMMA CountBelow ==
    ASSUME NEW o \in Nat, NEW c \in Nat, NEW z \in Nat
    PROVE  Cardinality({b \in o .. o + c - 1 : b < z})
             = IF z <= o THEN 0 ELSE IF z >= o + c THEN c ELSE z - o
<1>. DEFINE S == {b \in o .. o + c - 1 : b < z}
<1>0. SUFFICES Cardinality(S) = IF z <= o THEN 0 ELSE IF z >= o + c THEN c ELSE z - o
  OBVIOUS
<1>1. CASE z <= o
  <2>1. S = {}
    BY <1>1
  <2>. QED
    BY <2>1, <1>1, FS_EmptySet
<1>2. CASE ~(z <= o) /\ z >= o + c
  <2>1. S = o .. o + c - 1
    BY <1>2
  <2>2. CASE c = 0
    <3>1. S = {}
      BY <2>1, <2>2
    <3>. QED
      BY <3>1, <2>2, <1>2, FS_EmptySet
  <2>3. CASE c > 0
    <3>0. PICK e \in Int : e = o + c - 1
      OBVIOUS
    <3>1. S = o .. e /\ o <= e
      BY <2>1, <2>3, <3>0
    <3>2. Cardinality(o .. e) = e - o + 1
      BY <3>1, IntervalCount
    <3>3. Cardinality(S) = e - o + 1
      BY <3>1, <3>2
    <3>. HIDE DEF S
    <3>. QED
      BY <3>0, <3>3, <1>2
  <2>. QED
    BY <2>2, <2>3
<1>3. CASE ~(z <= o) /\ ~(z >= o + c)
  <2>1. S = o .. z - 1
    BY <1>3
  <2>2. PICK e \in Int : e = z - 1
    OBVIOUS
  <2>3. Cardinality(o .. e) = e - o + 1
    BY <1>3, <2>2, IntervalCount
  <2>4. Cardinality(S) = e - o + 1
    BY <2>1, <2>2, <2>3
  <2>. HIDE DEF S
  <2>. QED
    BY <2>2, <2>4, <1>3
<1>. QED
  BY <1>1, <1>2, <1>3

LEMMA ReadLenFacts ==
    ASSUME NEW q \in Requests, size \in Nat
    PROVE  /\ ReadLen(q) = IF size <= q.off THEN 0
                           ELSE IF size >= q.off + q.cnt THEN q.cnt ELSE size - q.off
           /\ ReadLen(q) \in Nat /\ q.off \in Nat /\ q.cnt \in Nat
<1>1. q.off \in Nat /\ q.cnt \in Nat
  BY MaxCountFacts, RpcAssumption DEF Requests
<1>2. ReadLen(q) = IF size <= q.off THEN 0
                   ELSE IF size >= q.off + q.cnt THEN q.cnt ELSE size - q.off
  BY <1>1, CountBelow DEF ReadLen, Extent
<1>. QED
  BY <1>1, <1>2

LEMMA RequestFields ==
    ASSUME NEW q \in Requests
    PROVE  q.xid \in Nat /\ q.off \in Nat /\ q.cnt \in Nat /\ q.proc \in Procs
BY MaxCountFacts, RpcAssumption DEF Requests, Procs

\* Numbers that several proofs compare.
LEMMA Numbers == 
    ASSUME HandleTypes, LocalTypes, ServerTypes
    PROVE  /\ xid \in Nat /\ count \in Nat /\ asked \in Nat /\ pending \in Nat
           /\ tot \in Nat /\ first \in Nat /\ size \in Nat /\ MaxXid \in Nat
           /\ NumAsync \in Nat /\ NumRPCs \in Nat /\ 0 < NumRPCs /\ NumRPCs <= NumAsync
           /\ count <= asked /\ asked <= MaxCount /\ MaxCount \in Nat
           /\ first <= xid /\ size <= MaxCount
BY MaxCountFacts, RpcAssumption DEF HandleTypes, LocalTypes, ServerTypes

\* The invariant implies the properties of the runs.
LEMMA InvTypeOK == Inv => TypeOK
<1>. SUFFICES ASSUME Inv PROVE TypeOK
  OBVIOUS
<1>0. Cardinality(Used) <= Cardinality(Slots)
  BY UsedFinite, SlotFacts, FS_Subset
<1>1. numfree \in 0 .. NumAsync
  BY <1>0, UsedFinite, SlotFacts, RpcAssumption DEF Inv, Counted
<1>2. count \in 0 .. MaxCount
  BY Numbers DEF Inv, Types
<1>. QED
  BY <1>1, <1>2 DEF Inv, Types, HandleTypes, LocalTypes, NetTypes, ServerTypes, TypeOK,
     Ops, Procs, Causes

LEMMA InvSlots == Inv => SlotsAccounted
<1>. SUFFICES ASSUME Inv PROVE SlotsAccounted
  OBVIOUS
<1>1. ASSUME Trusted
      PROVE  /\ \A s \in Used : out[s].xid > first
             /\ \A s, t \in Used : out[s].xid = out[t].xid => s = t
             /\ op \in {"MAWrite", "MARead"} /\ More /\ ~MustWait => SlotFree /\ SameDecoder
  <2>1. \A s \in Used : out[s].xid > first
    BY <1>1 DEF Inv, Pipeline, SlotCalls, Truth
  <2>2. \A s, t \in Used : out[s].xid = out[t].xid => s = t
    BY <1>1 DEF Inv, Pipeline, SlotsDiffer
  <2>3. ASSUME op \in {"MAWrite", "MARead"}, More, ~MustWait PROVE SlotFree /\ SameDecoder
    <3>0. HandleTypes /\ LocalTypes /\ ServerTypes /\ numfree = NumAsync - Cardinality(Used)
      BY DEF Inv, Types, Counted
    <3>1. pending < NumRPCs /\ NumRPCs <= NumAsync
      BY <2>3, <3>0, Numbers DEF MustWait
    <3>2. numfree # 0
      BY <3>0, <3>1, <1>1, Numbers DEF Trusted
    <3>3. Used # Slots
      BY <3>1, <1>1, SlotFacts, Numbers, <3>0 DEF Trusted
    <3>4. CASE Used = {}
      BY <3>4, <3>0, UsedEmpty, Numbers, <3>2, <3>3 DEF SameDecoder, SlotFree
    <3>5. CASE Used # {}
      BY <3>5, <1>1, <3>2, <3>3 DEF Inv, Pipeline, SameDecoder, SlotFree
    <3>. QED
      BY <3>4, <3>5
  <2>. QED
    BY <2>1, <2>2, <2>3
<1>. QED
  BY <1>1, InvTypeOK DEF Inv, Counted, Trusted, SlotsAccounted

LEMMA InvReads == Inv => ReadExact
<1>. SUFFICES ASSUME Inv, op \in {"MARead", "MRead"}, ~More, ~calling, pending = 0
              PROVE  tot = Smaller(asked, size)
  BY DEF ReadExact
<1>0. HandleTypes /\ LocalTypes /\ ServerTypes
  BY DEF Inv, Types
<1>1. count = 0 \/ (eof /\ size <= asked - count)
  BY <1>0, Numbers DEF Inv, Progress, More
<1>2. CASE op = "MRead"
  <2>1. tot = asked - count /\ tot <= size
    BY <1>2 DEF Inv, Progress, Single
  <2>. QED
    BY <2>1, <1>0, <1>1, Numbers DEF Smaller
<1>3. CASE op = "MARead"
  <2>1. Trusted
    BY <1>3, <1>0, <1>1, Numbers DEF Inv, Abandoned, Progress
  <2>2. Used = {}
    BY <2>1, UsedEmpty DEF Trusted
  <2>3. Arrived = {b \in 0 .. 0 + (asked - count) - 1 : b < size}
    BY <2>2, <1>0, Numbers DEF Arrived
  <2>4. tot = Cardinality(Arrived)
    BY <2>1, <1>3 DEF Inv, Pipeline, Covered
  <2>5. asked - count \in Nat /\ size \in Nat
    BY <1>0, Numbers
  <2>6. PICK n \in Nat : n = asked - count
    BY <2>5
  <2>7. tot = IF size <= 0 THEN 0 ELSE IF size >= 0 + n THEN n ELSE size - 0
    BY <2>3, <2>4, <2>5, <2>6, CountBelow
  <2>. QED
    BY <2>6, <2>7, <1>0, <1>1, Numbers DEF Smaller
<1>. QED
  BY <1>2, <1>3

----------------------------------------------------------------------------
(* Steps with which an operation ends.                                     *)

\* Whatever the handle looks like: if slots stay in use their answers are
\* decoded as those of a write.
LEMMA ReturnKeeps ==
    ASSUME Inv, Return, HandleTypes', xid <= xid',
           numfree' = NumAsync - Cardinality(Used)', (Used = {})' \/ xresults' = "write",
           calling' = FALSE, cwaited' \in 0 .. Rounds, refreshes' \in 0 .. 2,
           res' \in {"none", "ok", "failed"}, cause' \in Causes,
           UNCHANGED <<net, server>>
    PROVE  Inv'
<1>0. HandleTypes /\ LocalTypes /\ NetTypes /\ ServerTypes
  BY DEF Inv, Types
<1>n. xid \in Nat /\ xid' \in Nat /\ first' = xid /\ first' \in Nat /\ first' <= xid' /\ MaxCount \in Nat
  BY <1>0, Numbers, MaxCountFacts, RpcAssumption DEF Return, HandleTypes
<1>1. Types'
  <2>1. LocalTypes'
    <3>1. first' \in 0 .. xid' /\ 0 \in 0 .. MaxCount /\ 0 \in 0 .. 0 /\ 0 \in 0 .. NumRPCs
      BY <1>n, RpcAssumption
    <3>2. asked' = 0 /\ count' = 0 /\ pending' = 0 /\ tot' = 0 /\ eof' = FALSE /\ op' = "none"
      BY DEF Return
    <3>. QED
      BY <3>1, <3>2, Zenon DEF LocalTypes, Ops
  <2>2. NetTypes'
    <3>1. reqs' = reqs /\ reps' = reps
      BY DEF net
    <3>2. \A r \in reqs : r.xid \in Nat
      BY <1>0, RequestFields DEF NetTypes
    <3>. QED
      BY <3>1, <3>2, <1>0, <1>n DEF NetTypes
  <2>3. ServerTypes'
    BY <1>0 DEF ServerTypes, server
  <2>. QED
    BY <2>1, <2>2, <2>3 DEF Types
<1>2. Counted'
  BY UsedPrimed DEF Counted, Return
<1>3. Current'
  <2>1. \A r \in reqs' : r.xid \in Nat /\ r.xid <= first'
    BY <1>0, <1>n, RequestFields DEF NetTypes, net
  <2>. QED
    BY <2>1, <1>n DEF Current, Asks, Return, Pipes
<1>4. Pipeline'
  <2>. SUFFICES ASSUME Trusted' PROVE (Used = {} /\ op = "none" /\ pending = 0)'
    BY DEF Pipeline, SlotCalls, SlotsDiffer, Covered, Pipes
  <2>1. pending' = 0 /\ op' = "none"
    BY DEF Return
  <2>2. Cardinality(Used)' = 0
    BY <2>1 DEF Trusted
  <2>3. (Cardinality(Used) = 0 <=> Used = {})'
    BY UsedEmpty, PTL
  <2>. QED
    BY <2>1, <2>2, <2>3
<1>5. Abandoned'
  <2>1. (Used = {})' => Trusted'
    <3>1. (Cardinality(Used) = 0 <=> Used = {})'
      BY UsedEmpty, PTL
    <3>. QED
      BY <3>1 DEF Trusted, Return
  <2>. QED
    BY <2>1 DEF Abandoned, Return
<1>6. Call'
  BY DEF Call
<1>7. Progress'
  <2>1. \A r \in reqs' : r.xid <= first'
    BY <1>0, <1>n DEF NetTypes, net
  <2>. QED
    BY <2>1 DEF Progress, Return, Single
<1>8. Bound'
  BY DEF Bound, Return
<1>. QED
  BY <1>1, <1>2, <1>3, <1>4, <1>5, <1>6, <1>7, <1>8 DEF Inv

\* clnt_abort leaves no slot in use and counts all of them free.
LEMMA AbortFrees ==
    ASSUME Inv, Abort
    PROVE  /\ inuse' \in [Slots -> BOOLEAN] /\ (Used = {})'
           /\ numfree' = NumAsync - Cardinality(Used)'
<1>1. inuse' \in [Slots -> BOOLEAN] /\ (Used = {})'
  BY DEF Abort, Used
<1>2. (Cardinality(Used) = 0 <=> Used = {})'
  BY UsedEmpty, PTL
<1>. QED
  BY <1>1, <1>2, UsedFinite, RpcAssumption DEF Abort, Inv, Counted

\* A slot of the handle is filled with the request for the next part.
LEMMA EncodeTypes ==
    ASSUME Inv, op # "none", More, NEW s \in Slots, NEW w \in BOOLEAN,
           xid' = xid + 1, out' = [out EXCEPT ![s] = Request(xid', w)],
           xid + 1 <= MaxXid + MaxCount
    PROVE  /\ xid' \in 0 .. MaxXid + MaxCount
           /\ out' \in [Slots -> Requests] /\ \A t \in Slots : out'[t].xid <= xid'
           /\ Request(xid', w) \in Requests
<1>0. HandleTypes /\ LocalTypes /\ ServerTypes
  BY DEF Inv, Types
<1>1. xid' \in 0 .. MaxXid + MaxCount /\ count > 0 /\ xid \in Nat /\ xid' = xid + 1
  BY <1>0, Numbers DEF More
<1>2. PICK x \in 0 .. MaxXid + MaxCount : x = xid'
  BY <1>1
<1>3. Request(x, w) \in Requests /\ Request(x, w).xid = x
  BY <1>0, <1>1, RequestFacts
<1>4. \A t \in Slots : out[t].xid <= xid /\ out[t].xid \in Nat
  BY <1>0, RequestFields DEF HandleTypes
<1>. HIDE DEF Request, Requests
<1>5. out' \in [Slots -> Requests]
  BY <1>0, <1>2, <1>3 DEF HandleTypes
<1>6. \A t \in Slots : out'[t].xid <= xid'
  <2>. SUFFICES ASSUME NEW t \in Slots PROVE out'[t].xid <= xid'
    OBVIOUS
  <2>1. CASE t = s
    BY <2>1, <1>0, <1>2, <1>3 DEF HandleTypes
  <2>2. CASE t # s
    <3>1. out'[t] = out[t]
      BY <2>2, <1>0 DEF HandleTypes
    <3>. QED
      BY <3>1, <1>1, <1>4
  <2>. QED
    BY <2>1, <2>2
<1>. QED
  BY <1>1, <1>2, <1>3, <1>5, <1>6

\* Slots of a pipelined routine are calls of its procedure, or of a write.
LEMMA SlotsLeft ==
    ASSUME Inv, op = "MAWrite" \/ pending = 0
    PROVE  Used = {} \/ xresults = "write"
<1>1. CASE ~Trusted
  BY <1>1 DEF Inv, Abandoned
<1>2. CASE Trusted /\ pending = 0
  BY <1>2, UsedEmpty DEF Trusted
<1>3. CASE Trusted /\ op = "MAWrite"
  BY <1>3 DEF Inv, Pipeline, Procedure
<1>. QED
  BY <1>1, <1>2, <1>3

LEMMA NextXid ==
    ASSUME Inv, op # "none", More, ~calling
    PROVE  xid + 1 <= MaxXid + MaxCount
<1>1. HandleTypes /\ LocalTypes /\ ServerTypes
  BY DEF Inv, Types
<1>2. xid + count <= MaxXid + MaxCount - 1 /\ count > 0
  BY DEF Inv, Bound, More
<1>. QED
  BY <1>1, <1>2, Numbers

LEMMA FreeSlotExists ==
    ASSUME SlotFree
    PROVE  LeastOf(Slots \ Used) \in Slots /\ LeastOf(Slots \ Used) \notin Used
<1>1. Slots \ Used \in SUBSET Nat /\ Slots \ Used # {}
  BY SlotFacts, UsedFinite DEF SlotFree
<1>. QED
  BY <1>1, LeastOfNats

LEMMA SendsbFailsTypes ==
    ASSUME Inv, op \in Pipes, More, SendsbFails, inuse' \in [Slots -> BOOLEAN]
    PROVE  HandleTypes' /\ xid <= xid'
<1>0. HandleTypes /\ LocalTypes /\ ServerTypes /\ op # "none" /\ ~calling
  BY DEF Inv, Types, Pipes, Call, Single, LocalTypes
<1>1. CASE UNCHANGED <<xid, xresults, waited, out>>
  BY <1>1, <1>0, Numbers DEF HandleTypes
<1>2. CASE ~(UNCHANGED <<xid, xresults, waited, out>>)
  <2>. DEFINE s == LeastOf(Slots \ Used)
  <2>1. /\ SlotFree /\ xid' = xid + 1 /\ xresults' = Procedure(op)
        /\ waited' = [waited EXCEPT ![s] = 0]
        /\ out' = [out EXCEPT ![s] = Request(xid', Procedure(op) # "write")]
    BY <1>2, Zenon DEF SendsbFails
  <2>2. s \in Slots
    BY <2>1, FreeSlotExists
  <2>3. PICK w \in BOOLEAN : w = (Procedure(op) # "write")
    OBVIOUS
  <2>4. out' = [out EXCEPT ![s] = Request(xid', w)]
    BY <2>1, <2>3, Zenon
  <2>. HIDE DEF s
  <2>5. /\ xid' \in 0 .. MaxXid + MaxCount
        /\ out' \in [Slots -> Requests] /\ \A t \in Slots : out'[t].xid <= xid'
    <3>1. xid + 1 <= MaxXid + MaxCount
      BY <1>0, NextXid
    <3>. QED
      BY <2>1, <2>2, <2>4, <1>0, <3>1, EncodeTypes, Zenon
  <2>6. waited' \in [Slots -> 0 .. Rounds] /\ xresults' \in Procs
    <3>1. 0 \in 0 .. Rounds /\ waited \in [Slots -> 0 .. Rounds]
      BY <1>0, RpcAssumption DEF HandleTypes
    <3>2. waited' = [waited EXCEPT ![s] = 0]
      BY <2>1
    <3>3. waited' \in [Slots -> 0 .. Rounds]
      BY <3>1, <3>2
    <3>. QED
      BY <2>1, <3>3 DEF Procedure, Procs
  <2>7. xid <= xid'
    BY <2>1, <1>0, Numbers
  <2>. QED
    BY <2>5, <2>6, <2>7 DEF HandleTypes
<1>. QED
  BY <1>1, <1>2

LEMMA MAWriteSendFailsKeeps == Inv /\ MAWriteSendFails => Inv'
<1>. SUFFICES ASSUME Inv, MAWriteSendFails PROVE Inv'
  OBVIOUS
<1>0. /\ op = "MAWrite" /\ More /\ SendsbFails /\ Fail("send")
      /\ inuse' = inuse /\ numfree' = numfree /\ UNCHANGED <<callvars, net, server>>
  BY DEF MAWriteSendFails, Working
<1>1. HandleTypes /\ LocalTypes /\ ~calling /\ Used' = Used
  BY <1>0 DEF Inv, Types, Call, Single, LocalTypes, Used
<1>2. HandleTypes' /\ xid <= xid'
  BY <1>0, <1>1, SendsbFailsTypes DEF Pipes, HandleTypes
<1>3. numfree' = NumAsync - Cardinality(Used)'
  BY <1>0, <1>1 DEF Inv, Counted
<1>4. (Used = {})' \/ xresults' = "write"
  <2>1. xresults' \in {xresults, Procedure(op)}
    BY <1>0 DEF SendsbFails
  <2>2. Procedure(op) = "write"
    BY <1>0 DEF Procedure
  <2>. QED
    BY <2>1, <2>2, <1>0, <1>1, SlotsLeft
<1>5. calling' = FALSE /\ cwaited' \in 0 .. Rounds /\ refreshes' \in 0 .. 2
  BY <1>0, <1>1 DEF callvars, LocalTypes
<1>6. Return /\ res' \in {"none", "ok", "failed"} /\ cause' \in Causes
  BY <1>0 DEF Fail, Causes
<1>. QED
  BY <1>0, <1>2, <1>3, <1>4, <1>5, <1>6, ReturnKeeps

\* A pipelined routine that ends with clnt_abort.
LEMMA AbortKeeps ==
    ASSUME Inv, op \in Pipes, Abort, NEW why \in Causes, Fail(why),
           HandleTypes', xid <= xid', UNCHANGED <<callvars, net, server>>
    PROVE  Inv'
<1>1. LocalTypes /\ ~calling
  BY DEF Inv, Types, Call, Single, Pipes, LocalTypes
<1>2. calling' = FALSE /\ cwaited' \in 0 .. Rounds /\ refreshes' \in 0 .. 2
  BY <1>1 DEF callvars, LocalTypes
<1>3. Return /\ res' \in {"none", "ok", "failed"} /\ cause' \in Causes
  BY DEF Fail, Causes
<1>4. (Used = {})' /\ numfree' = NumAsync - Cardinality(Used)'
  BY AbortFrees
<1>. QED
  BY <1>2, <1>3, <1>4, ReturnKeeps

LEMMA MAReadSendFailsKeeps == Inv /\ MAReadSendFails => Inv'
<1>. SUFFICES ASSUME Inv, MAReadSendFails PROVE Inv'
  OBVIOUS
<1>0. op \in Pipes /\ More /\ SendsbFails /\ Abort /\ Fail("send") /\ UNCHANGED <<callvars, net, server>>
  BY DEF MAReadSendFails, Working, Pipes
<1>1. HandleTypes' /\ xid <= xid'
  BY <1>0, SendsbFailsTypes, AbortFrees
<1>. QED
  BY <1>0, <1>1, AbortKeeps DEF Causes

LEMMA PipeAborts ==
    ASSUME Inv, op \in Pipes, Abort, NEW why \in Causes, Fail(why),
           UNCHANGED <<xid, waited, out, xresults, callvars, net, server>>
    PROVE  Inv'
<1>1. HandleTypes' /\ xid <= xid'
  BY AbortFrees, Numbers DEF HandleTypes, Inv, Types
<1>. QED
  BY <1>1, AbortKeeps

\* The result an answer is decoded to is one of the results there are.
LEMMA DecodedStats ==
    ASSUME NetTypes, NEW r \in reps, NEW p, NEW st \in Decoded(r, p)
    PROVE  st \in Stats /\ st \in Causes \cup {"ok"}
BY DEF NetTypes, Decoded, Stats, Causes

LEMMA PipeFailsKeep ==
    ASSUME Inv
    PROVE  /\ PipeTimeout \/ PipeSocketFails => Inv'
           /\ \A r \in reps : PipeBadAnswer(r) \/ MAReadIncomplete(r) => Inv'
<1>1. ASSUME PipeTimeout PROVE Inv'
  <2>1. /\ op \in Pipes /\ Abort /\ Fail("timeout")
        /\ UNCHANGED <<xid, waited, out, xresults, callvars, net, server>>
    BY <1>1 DEF PipeTimeout, Pipes
  <2>. QED
    BY <2>1, PipeAborts DEF Causes
<1>2. ASSUME PipeSocketFails PROVE Inv'
  <2>1. /\ op \in Pipes /\ Abort /\ Fail("socket")
        /\ UNCHANGED <<xid, waited, out, xresults, callvars, net, server>>
    BY <1>2 DEF PipeSocketFails, Pipes
  <2>. QED
    BY <2>1, PipeAborts DEF Causes
<1>3. ASSUME NEW r \in reps, PipeBadAnswer(r) PROVE Inv'
  <2>1. PICK st \in Decoded(r, xresults) : st # "ok" /\ Fail(st)
    BY <1>3 DEF PipeBadAnswer
  <2>2. /\ op \in Pipes /\ Abort
        /\ UNCHANGED <<xid, waited, out, xresults, callvars, net, server>>
    BY <1>3 DEF PipeBadAnswer, Pipes
  <2>3. st \in Causes
    BY <2>1, DecodedStats DEF Inv, Types
  <2>. QED
    BY <2>1, <2>2, <2>3, PipeAborts
<1>4. ASSUME NEW r \in reps, MAReadIncomplete(r) PROVE Inv'
  <2>1. /\ op \in Pipes /\ Abort /\ Fail("incomplete")
        /\ UNCHANGED <<xid, waited, out, xresults, callvars, net, server>>
    BY <1>4 DEF MAReadIncomplete, Working, Pipes
  <2>. QED
    BY <2>1, PipeAborts DEF Causes
<1>. QED
  BY <1>1, <1>2, <1>3, <1>4

\* A routine that ends without clnt_abort: no call of its own is on its way.
LEMMA PlainReturnKeeps ==
    ASSUME Inv, pending = 0, Return, HandleTypes', xid <= xid',
           UNCHANGED <<inuse, numfree, xresults, net, server>>,
           calling' = FALSE, cwaited' \in 0 .. Rounds, refreshes' \in 0 .. 2,
           res' \in {"none", "ok", "failed"}, cause' \in Causes
    PROVE  Inv'
<1>1. Used' = Used
  BY DEF Used
<1>2. numfree' = NumAsync - Cardinality(Used)' /\ ((Used = {})' \/ xresults' = "write")
  BY <1>1, SlotsLeft DEF Inv, Counted
<1>. QED
  BY <1>2, ReturnKeeps

\* The same, with the handle as it was.
LEMMA QuietReturnKeeps ==
    ASSUME Inv, pending = 0, Return, UNCHANGED <<handle, net, server>>,
           calling' = FALSE, cwaited' \in 0 .. Rounds, refreshes' \in 0 .. 2,
           res' \in {"none", "ok", "failed"}, cause' \in Causes
    PROVE  Inv'
<1>1. HandleTypes' /\ xid <= xid'
  BY Numbers DEF HandleTypes, Inv, Types, handle
<1>. QED
  BY <1>1, PlainReturnKeeps DEF handle

LEMMA CallReturned ==
    ASSUME CallReturns
    PROVE  calling' = FALSE /\ cwaited' \in 0 .. Rounds /\ refreshes' \in 0 .. 2
BY RpcAssumption DEF CallReturns

LEMMA EndsKeep ==
    ASSUME Inv
    PROVE  /\ PipeEnd \/ SingleEnd \/ CallTimeout \/ CallSocketFails \/ CallSendFails => Inv'
           /\ \A r \in reps : CallBadAnswer(r) => Inv'
<1>0. LocalTypes /\ HandleTypes
  BY DEF Inv, Types
<1>1. ASSUME PipeEnd \/ SingleEnd PROVE Inv'
  <2>1. pending = 0 /\ ~calling /\ Succeed /\ UNCHANGED <<handle, callvars, net, server>>
    BY <1>1 DEF PipeEnd, SingleEnd, Inv, Progress, Call, Single
  <2>2. calling' = FALSE /\ cwaited' \in 0 .. Rounds /\ refreshes' \in 0 .. 2
    BY <2>1, <1>0 DEF callvars, LocalTypes
  <2>. QED
    BY <2>1, <2>2, QuietReturnKeeps DEF Succeed, Causes
<1>2. ASSUME calling, CallReturns, NEW why \in Causes, Fail(why), UNCHANGED <<handle, net, server>>
      PROVE  Inv'
  <2>1. pending = 0
    BY <1>2 DEF Inv, Call, Progress
  <2>. QED
    BY <2>1, <1>2, CallReturned, QuietReturnKeeps DEF Fail
<1>3. ASSUME CallTimeout \/ CallSocketFails PROVE Inv'
  <2>1. CASE CallTimeout
    BY <2>1, <1>2 DEF CallTimeout, Causes
  <2>2. CASE CallSocketFails
    BY <2>2, <1>2 DEF CallSocketFails, Causes
  <2>. QED
    BY <2>1, <2>2, <1>3
<1>4. ASSUME NEW r \in reps, CallBadAnswer(r) PROVE Inv'
  <2>1. r.stat \in Causes
    BY <1>4 DEF Inv, Types, NetTypes, Stats, Causes, CallBadAnswer
  <2>. QED
    BY <2>1, <1>4, <1>2 DEF CallBadAnswer
<1>5. ASSUME CallSendFails PROVE Inv'
  <2>0. /\ op \in Single /\ More /\ CallReturns /\ Fail("send") /\ UNCHANGED <<net, server>>
        /\ op # "none"
    BY <1>5 DEF CallSendFails, Single
  <2>1. CASE calling /\ UNCHANGED handle
    BY <2>0, <2>1, <1>2 DEF Causes
  <2>2. CASE ~calling /\ EncodeCall
    <3>1. pending = 0
      BY <2>0 DEF Inv, Progress
    <3>2. /\ xid' = xid + 1 /\ out' = [out EXCEPT ![0] = Request(xid', TRUE)]
          /\ UNCHANGED <<inuse, waited, numfree, xresults>>
      BY <2>2 DEF EncodeCall
    <3>3. /\ xid' \in 0 .. MaxXid + MaxCount
          /\ out' \in [Slots -> Requests] /\ \A t \in Slots : out'[t].xid <= xid'
      BY <3>2, <2>0, <2>2, SlotFacts, EncodeTypes, NextXid
    <3>4. HandleTypes'
      BY <3>2, <3>3, <1>0 DEF HandleTypes
    <3>5. xid <= xid'
      BY <3>2, Numbers DEF Inv, Types
    <3>. QED
      BY <3>1, <3>2, <3>4, <3>5, <2>0, CallReturned, PlainReturnKeeps DEF Fail, Causes
  <2>. QED
    BY <2>1, <2>2, <1>5 DEF CallSendFails
<1>. QED
  BY <1>1, <1>3, <1>4, <1>5

----------------------------------------------------------------------------
(* Steps that send a request.                                              *)

Same(p, q) == p.xid = q.xid /\ p.proc = q.proc /\ p.off = q.off /\ p.cnt = q.cnt

\* What is known of a call stays known: no new answer comes, and no request
\* with its transaction id but the same one.
LEMMA TruthKept ==
    ASSUME NEW q, Truth(q), first' = first, reps' = reps, UNCHANGED server,
           \A r \in reqs' : r \in reqs \/ (r.xid = q.xid => Same(r, q))
    PROVE  Truth(q)'
<1>1. ReadLen(q)' = ReadLen(q)
  BY DEF ReadLen, Extent, server
<1>2. \A r \in reqs' : r.xid = q.xid => r.proc = q.proc /\ r.off = q.off /\ r.cnt = q.cnt
  BY DEF Truth, Same
<1>. QED
  BY <1>1, <1>2 DEF Truth, Extent, server

\* A request with a new transaction id is the only one and has no answer yet.
LEMMA TruthNew ==
    ASSUME Inv, NEW p, NEW q, q.xid = xid + 1, Same(p, q),
           reqs' = reqs \cup {p}, reps' = reps, first' = first
    PROVE  Truth(q)'
<1>1. NetTypes /\ xid \in Nat /\ first \in Nat /\ first <= xid
  BY Numbers DEF Inv, Types
<1>2. \A r \in reqs : r.xid # q.xid
  <2>1. \A r \in reqs : r.xid \in Nat /\ r.xid <= xid
    BY <1>1, RequestFields DEF NetTypes
  <2>. QED
    BY <1>1, <2>1
<1>3. \A r \in reps : r.xid # q.xid
  BY <1>1 DEF NetTypes
<1>4. q.xid > first'
  BY <1>1
<1>5. \A r \in reqs' : r.xid = q.xid => r.proc = q.proc /\ r.off = q.off /\ r.cnt = q.cnt
  BY <1>2 DEF Same
<1>6. \A r \in reps' : r.xid # q.xid
  BY <1>3
<1>. QED
  BY <1>4, <1>5, <1>6 DEF Truth

\* The handle after clntaudp_sendsb: slot s holds the new request.
LEMMA SlotTaken ==
    ASSUME Inv, NEW s \in Slots, s \notin Used, inuse' = [inuse EXCEPT ![s] = TRUE]
    PROVE  /\ inuse' \in [Slots -> BOOLEAN] /\ Used' = Used \cup {s}
           /\ Cardinality(Used)' = Cardinality(Used) + 1
<1>1. inuse \in [Slots -> BOOLEAN]
  BY DEF Inv, Types, HandleTypes
<1>2. Used' = Used \cup {s}
  BY <1>1 DEF Used
<1>3. Cardinality(Used \cup {s}) = Cardinality(Used) + 1
  BY UsedFinite, FS_AddElement
<1>. QED
  BY <1>1, <1>2, <1>3

LEMMA SlotReleased ==
    ASSUME Inv, NEW s \in Used, inuse' = [inuse EXCEPT ![s] = FALSE]
    PROVE  /\ inuse' \in [Slots -> BOOLEAN] /\ Used' = Used \ {s}
           /\ Cardinality(Used)' = Cardinality(Used) - 1
<1>1. inuse \in [Slots -> BOOLEAN] /\ s \in Slots
  BY DEF Inv, Types, HandleTypes, Used
<1>2. Used' = Used \ {s}
  BY <1>1 DEF Used
<1>3. Cardinality(Used \ {s}) = Cardinality(Used) - 1
  BY UsedFinite, FS_RemoveElement
<1>. QED
  BY <1>1, <1>2, <1>3

LEMMA PartFacts ==
    ASSUME Inv, op \in Pipes, SendPart
    PROVE  \E s \in Slots, p \in Requests, q \in Requests, k \in Nat :
           /\ s \notin Used /\ Same(p, q) /\ q.xid = xid + 1 /\ q.proc = Procedure(op)
           /\ q.off = asked - count /\ q.cnt = k /\ 0 < k /\ k <= count
           /\ xid' = xid + 1 /\ count' = count - k
           /\ Used' = Used \cup {s} /\ Cardinality(Used)' = Cardinality(Used) + 1
           /\ out' = [out EXCEPT ![s] = q] /\ reqs' = reqs \cup {p}
           /\ HandleTypes'
<1>. DEFINE s == LeastOf(Slots \ Used)
            k == Smaller(count, MaxData)
<1>0. HandleTypes /\ LocalTypes /\ ServerTypes /\ op # "none" /\ ~calling /\ op \in Ops
  BY DEF Inv, Types, Pipes, Call, Single, LocalTypes
<1>1. /\ More /\ SlotFree /\ xid' = xid + 1 /\ xresults' = Procedure(op)
      /\ inuse' = [inuse EXCEPT ![s] = TRUE] /\ waited' = [waited EXCEPT ![s] = 0]
      /\ reqs' = reqs \cup {Request(xid', TRUE)} /\ count' = count - k
    BY Zenon DEF SendPart, SendsbOk
<1>1a. out' = [out EXCEPT ![s] = Request(xid', Procedure(op) # "write")]
    BY Zenon DEF SendPart, SendsbOk
<1>2. s \in Slots /\ s \notin Used
  BY <1>1, FreeSlotExists
<1>3. PICK w \in BOOLEAN : w = (Procedure(op) # "write")
  OBVIOUS
<1>4. out' = [out EXCEPT ![s] = Request(xid', w)]
  BY <1>1a, <1>3, Zenon
<1>5. xid + 1 <= MaxXid + MaxCount
  BY <1>0, <1>1, NextXid
<1>. HIDE DEF s
<1>6. /\ xid' \in 0 .. MaxXid + MaxCount
      /\ out' \in [Slots -> Requests] /\ \A t \in Slots : out'[t].xid <= xid'
  BY <1>0, <1>1, <1>2, <1>4, <1>5, EncodeTypes, Zenon
<1>7. count > 0
  BY <1>1 DEF More
<1>8. /\ Request(xid', w) \in Requests /\ Request(xid', w).xid = xid'
      /\ Request(xid', w).proc = Procedure(op) /\ Request(xid', w).off = asked - count
      /\ Request(xid', w).cnt = k /\ k \in 1 .. count
  BY <1>0, <1>6, <1>7, RequestFacts, Zenon
<1>9. /\ Request(xid', TRUE) \in Requests /\ Request(xid', TRUE).xid = xid'
      /\ Request(xid', TRUE).proc = Procedure(op) /\ Request(xid', TRUE).off = asked - count
      /\ Request(xid', TRUE).cnt = k
  BY <1>0, <1>6, <1>7, RequestFacts, Zenon
<1>10. /\ inuse' \in [Slots -> BOOLEAN] /\ Used' = Used \cup {s}
       /\ Cardinality(Used)' = Cardinality(Used) + 1
  BY <1>1, <1>2, SlotTaken
<1>11. waited' \in [Slots -> 0 .. Rounds] /\ xresults' \in Procs
  <2>1. 0 \in 0 .. Rounds /\ waited \in [Slots -> 0 .. Rounds]
    BY <1>0, RpcAssumption DEF HandleTypes
  <2>2. waited' = [waited EXCEPT ![s] = 0]
    BY <1>1
  <2>3. waited' \in [Slots -> 0 .. Rounds]
    BY <2>1, <2>2
  <2>. QED
    BY <1>1, <2>3 DEF Procedure, Procs
<1>12. HandleTypes'
  BY <1>6, <1>10, <1>11 DEF HandleTypes
<1>13. PICK p : p = Request(xid', TRUE)
  OBVIOUS
<1>14. PICK q : q = Request(xid', w)
  OBVIOUS
<1>15. k \in Nat /\ 0 < k /\ k <= count
  BY <1>8, <1>0, Numbers
<1>. HIDE DEF k, Request, Requests
<1>16. p \in Requests /\ q \in Requests /\ Same(p, q) /\ q.xid = xid + 1
       /\ q.proc = Procedure(op) /\ q.off = asked - count /\ q.cnt = k
  BY <1>1, <1>8, <1>9, <1>13, <1>14 DEF Same
<1>17. out' = [out EXCEPT ![s] = q] /\ reqs' = reqs \cup {p}
  BY <1>1, <1>4, <1>13, <1>14
<1>. QED
  BY <1>1, <1>2, <1>10, <1>12, <1>15, <1>16, <1>17

LEMMA SendPartKeeps ==
    ASSUME Inv, op \in Pipes, SendPart
    PROVE  Inv'
<1>0. HandleTypes /\ LocalTypes /\ NetTypes /\ ServerTypes /\ op # "none" /\ ~calling /\ op \in Ops
  BY DEF Inv, Types, Pipes, Call, Single, LocalTypes
<1>1. PICK s \in Slots, p \in Requests, q \in Requests, k \in Nat :
           /\ s \notin Used /\ Same(p, q) /\ q.xid = xid + 1 /\ q.proc = Procedure(op)
           /\ q.off = asked - count /\ q.cnt = k /\ 0 < k /\ k <= count
           /\ xid' = xid + 1 /\ count' = count - k
           /\ Used' = Used \cup {s} /\ Cardinality(Used)' = Cardinality(Used) + 1
           /\ out' = [out EXCEPT ![s] = q] /\ reqs' = reqs \cup {p}
           /\ HandleTypes'
  BY PartFacts
<1>2. /\ More /\ ~MustWait /\ SlotFree /\ SameDecoder /\ xresults' = Procedure(op)
      /\ numfree' = numfree - 1 /\ pending' = pending + 1
      /\ UNCHANGED <<op, asked, eof, tot, first, callvars, outcome, reps, server>>
  BY DEF SendPart, SendsbOk
<1>3. /\ op' = op /\ asked' = asked /\ eof' = eof /\ tot' = tot /\ first' = first
      /\ calling' = calling /\ cwaited' = cwaited /\ refreshes' = refreshes
      /\ res' = res /\ cause' = cause /\ reps' = reps /\ applied' = applied /\ size' = size
  BY <1>2 DEF callvars, outcome, server
<1>n. /\ xid \in Nat /\ count \in Nat /\ asked \in Nat /\ pending \in Nat /\ first \in Nat
      /\ MaxXid \in Nat /\ MaxCount \in Nat /\ NumAsync \in Nat /\ NumRPCs \in Nat
      /\ count <= asked /\ first <= xid /\ size \in Nat /\ asked <= MaxCount
  BY <1>0, Numbers
<1>o. /\ out'[s] = q /\ \A t \in Slots : t # s => out'[t] = out[t]
      /\ \A t \in Slots : out[t] \in Requests /\ out[t].xid <= xid
      /\ \A t \in Slots : out[t].xid \in Nat /\ out[t].off \in Nat /\ out[t].cnt \in Nat
  BY <1>0, <1>1, RequestFields DEF HandleTypes
<1>u. Used \subseteq Slots /\ Cardinality(Used) \in Nat
  BY UsedFinite
<1>t. Trusted' <=> Trusted
  BY <1>1, <1>2, <1>n, <1>u DEF Trusted
<1>4. Types'
  <2>1. LocalTypes'
    <3>1. pending < NumRPCs
      BY <1>2, <1>n DEF MustWait
    <3>2. pending' \in 0 .. NumRPCs
      BY <3>1, <1>2, <1>n
    <3>3. count' \in 0 .. asked
      BY <1>1, <1>n
    <3>4. first \in 0 .. xid'
      BY <1>1, <1>n
    <3>. QED
      BY <3>2, <3>3, <3>4, <1>0, <1>3 DEF LocalTypes
  <2>2. NetTypes'
    <3>1. \A r \in reqs' : r \in Requests
      BY <1>0, <1>1 DEF NetTypes
    <3>2. \A r \in reqs : r.xid \in Nat /\ r.xid <= xid
      BY <1>0, RequestFields DEF NetTypes
    <3>3. \A r \in reqs' : r.xid <= xid'
      BY <3>2, <1>1, <1>n DEF Same
    <3>4. \A r \in reps : r.xid \in 0 .. xid'
      BY <1>0, <1>1, <1>n DEF NetTypes
    <3>. QED
      BY <3>1, <3>3, <3>4, <1>0, <1>3 DEF NetTypes
  <2>3. ServerTypes'
    BY <1>0, <1>3 DEF ServerTypes
  <2>. QED
    BY <2>1, <2>2, <2>3, <1>1 DEF Types
<1>5. Counted'
  <2>1. numfree = NumAsync - Cardinality(Used) /\ Cardinality(Used) >= pending
    BY DEF Inv, Counted
  <2>2. numfree' = NumAsync - Cardinality(Used)'
    BY <2>1, <1>1, <1>2, <1>n, <1>u
  <2>3. Cardinality(Used)' >= pending'
    BY <2>1, <1>1, <1>2, <1>n, <1>u
  <2>. QED
    BY <2>2, <2>3 DEF Counted
<1>p. Procedure(op)' = Procedure(op)
  BY <1>3 DEF Procedure
<1>6. Current'
  <2>1. q.off + q.cnt <= asked /\ p.off + p.cnt <= asked /\ p.proc = Procedure(op)
    BY <1>1, <1>n DEF Same
  <2>2. \A r \in reqs' : Asks(r)'
    <3>1. \A r \in reqs : Asks(r)'
      BY <1>3, <1>p DEF Inv, Current, Asks
    <3>. QED
      BY <3>1, <2>1, <1>1, <1>3, <1>p DEF Asks
  <2>3. \A t \in Used' : Asks(out[t])'
    <3>. SUFFICES ASSUME NEW t \in Used' PROVE Asks(out[t])'
      OBVIOUS
    <3>1. CASE t = s
      BY <3>1, <2>1, <1>o, <1>1, <1>3, <1>p DEF Asks
    <3>2. CASE t # s
      <4>1. t \in Used /\ out'[t] = out[t]
        BY <3>2, <1>1, <1>u, <1>o
      <4>. QED
        BY <4>1, <1>3, <1>p DEF Inv, Current, Asks
    <3>. QED
      BY <3>1, <3>2
  <2>. QED
    BY <2>2, <2>3 DEF Current
<1>7. Pipeline'
  <2>. SUFFICES ASSUME Trusted
                PROVE  (SlotCalls /\ SlotsDiffer /\ Covered)'
    BY <1>t, <1>2, <1>3, <1>p DEF Pipeline
  <2>0. SlotCalls /\ SlotsDiffer /\ Covered
    BY DEF Inv, Pipeline
  <2>1. PICK n \in Nat : n = asked - count
    BY <1>n
  <2>1a. (asked - count)' = n + k /\ n + k <= asked
    BY <2>1, <1>1, <1>3, <1>n
  <2>e. /\ Extent(q) = n .. n + k - 1
        /\ \A t \in Used : Extent(out'[t]) = Extent(out[t]) /\ Extent(out[t]) \subseteq 0 .. n - 1
    <3>1. Extent(q) = n .. n + k - 1
      BY <1>1, <2>1 DEF Extent
    <3>2. ASSUME NEW t \in Used
          PROVE  Extent(out'[t]) = Extent(out[t]) /\ Extent(out[t]) \subseteq 0 .. n - 1
      <4>1. out'[t] = out[t]
        BY <1>1, <1>o, <1>u
      <4>2. out[t].off + out[t].cnt <= n /\ out[t].off \in Nat /\ out[t].cnt \in Nat
        BY <2>0, <2>1, <1>o, <1>u DEF SlotCalls
      <4>. QED
        BY <4>1, <4>2 DEF Extent
    <3>. QED
      BY <3>1, <3>2
  <2>2. SlotCalls'
    <3>. SUFFICES ASSUME NEW t \in Used'
                  PROVE  (/\ Truth(out[t]) /\ out[t].proc = Procedure(op)
                          /\ out[t].cnt > 0 /\ out[t].off + out[t].cnt <= asked - count)'
      BY DEF SlotCalls
    <3>1. CASE t = s
      <4>1. Truth(q)'
        BY <1>1, <1>3, TruthNew
      <4>2. q.off + q.cnt <= (asked - count)'
        BY <2>1, <2>1a, <1>1
      <4>. QED
        BY <3>1, <4>1, <4>2, <1>o, <1>1, <1>p
    <3>2. CASE t # s
      <4>1. t \in Used /\ out'[t] = out[t] /\ t \in Slots
        BY <3>2, <1>1, <1>u, <1>o
      <4>2. PICK z \in Requests : z = out[t]
        BY <4>1, <1>o
      <4>3. Truth(z) /\ z.proc = Procedure(op) /\ z.cnt > 0 /\ z.off + z.cnt <= n
        BY <4>1, <4>2, <2>0, <2>1 DEF SlotCalls
      <4>4. p.xid # z.xid
        BY <4>1, <4>2, <1>1, <1>o, <1>n DEF Same
      <4>5. Truth(z)'
        BY <4>3, <4>4, <1>1, <1>3, TruthKept DEF server
      <4>6. z.off + z.cnt <= n + k
        BY <4>3, RequestFields, <1>1
      <4>. QED
        BY <4>1, <4>2, <4>3, <4>5, <4>6, <2>1a, <1>p
    <3>. QED
      BY <3>1, <3>2
  <2>3. SlotsDiffer'
    <3>. SUFFICES ASSUME NEW t \in Used', NEW u \in Used', t # u
                  PROVE  out'[t].xid # out'[u].xid /\ Extent(out'[t]) \cap Extent(out'[u]) = {}
      BY DEF SlotsDiffer, Extent
    <3>1. \A v \in Used : /\ out'[v] = out[v] /\ out'[v].xid # q.xid
                          /\ Extent(out'[v]) \cap Extent(q) = {}
      <4>. SUFFICES ASSUME NEW v \in Used
                    PROVE  /\ out'[v] = out[v] /\ out'[v].xid # q.xid
                           /\ Extent(out'[v]) \cap Extent(q) = {}
        OBVIOUS
      <4>1. out'[v] = out[v] /\ out[v].xid # q.xid
        BY <1>1, <1>o, <1>u, <1>n
      <4>2. \A b \in Extent(out'[v]) : b \notin Extent(q)
        BY <2>e
      <4>. QED
        BY <4>1, <4>2
    <3>2. CASE t \in Used /\ u \in Used
      BY <3>1, <3>2, <2>0 DEF SlotsDiffer
    <3>3. CASE t = s
      <4>1. u \in Used
        BY <3>3, <1>1
      <4>. QED
        BY <4>1, <3>1, <3>3, <1>o
    <3>4. CASE u = s
      <4>1. t \in Used
        BY <3>4, <1>1
      <4>. QED
        BY <4>1, <3>1, <3>4, <1>o
    <3>. QED
      BY <3>2, <3>3, <3>4, <1>1
  <2>4. Covered'
    <3>1. ASSUME op = "MAWrite", NEW b \in 0 .. n + k - 1
          PROVE  b \in applied \/ \E t \in Used' : b \in Extent(out'[t])
      <4>1. CASE b \in 0 .. n - 1
        <5>1. b \in applied \/ \E t \in Used : b \in Extent(out[t])
          BY <4>1, <3>1, <2>0, <2>1 DEF Covered
        <5>. QED
          BY <5>1, <2>e, <1>1
      <4>2. CASE ~(b \in 0 .. n - 1)
        <5>1. b \in Extent(out'[s])
          BY <4>2, <2>e, <1>o
        <5>. QED
          BY <5>1, <1>1
      <4>. QED
        BY <4>1, <4>2
    <3>2. Arrived' = Arrived
      <4>1. Arrived' = {b \in 0 .. n + k - 1 : b < size /\ \A t \in Used' : b \notin Extent(out'[t])}
        BY <2>1a, <1>3 DEF Arrived, Extent
      <4>2. Arrived = {b \in 0 .. n - 1 : b < size /\ \A t \in Used : b \notin Extent(out[t])}
        BY <2>1 DEF Arrived
      <4>3. ASSUME NEW b \in 0 .. n + k - 1, \A t \in Used' : b \notin Extent(out'[t])
            PROVE  b \in 0 .. n - 1 /\ \A t \in Used : b \notin Extent(out[t])
        <5>1. b \notin n .. n + k - 1
          BY <4>3, <1>1, <1>o, <2>e
        <5>2. \A t \in Used : b \notin Extent(out[t])
          BY <4>3, <1>1, <2>e
        <5>. QED
          BY <5>1, <5>2
      <4>4. ASSUME NEW b \in 0 .. n - 1, \A t \in Used : b \notin Extent(out[t])
            PROVE  b \in 0 .. n + k - 1 /\ \A t \in Used' : b \notin Extent(out'[t])
        <5>1. b \notin Extent(q) /\ b \in 0 .. n + k - 1
          BY <2>e
        <5>. QED
          BY <5>1, <4>4, <1>1, <1>o, <2>e
      <4>. QED
        BY <4>1, <4>2, <4>3, <4>4
    <3>3. op = "MARead" => tot' = Cardinality(Arrived)'
      BY <3>2, <2>0, <1>3 DEF Covered
    <3>4. op' = "MAWrite" => \A b \in 0 .. (asked - count)' - 1 :
                                b \in applied' \/ \E t \in Used' : b \in Extent(out'[t])
      BY <3>1, <2>1a, <1>3
    <3>. QED
      BY <3>3, <3>4, <1>3 DEF Covered, Extent
  <2>. QED
    BY <2>2, <2>3, <2>4
<1>8. Abandoned'
  <2>. SUFFICES ASSUME ~Trusted PROVE xresults' = "write" /\ op' # "MARead"
    BY <1>t DEF Abandoned
  <2>1. xresults = "write" /\ Cardinality(Used) # 0
    BY <1>n, <1>u DEF Inv, Abandoned, Counted, Trusted
  <2>2. numfree # NumAsync
    BY <2>1, <1>n, <1>u DEF Inv, Counted
  <2>3. Procedure(op) = "write"
    BY <2>1, <2>2, <1>2 DEF SameDecoder
  <2>. QED
    BY <2>3, <1>2, <1>3 DEF Procedure
<1>9. Call'
  BY <1>0, <1>3 DEF Call
<1>10. Progress'
  <2>1. /\ op \notin Single /\ op \notin {"MRead", "MWrite", "Proc", "none"} /\ asked > 0
        /\ ~eof /\ (op = "MAWrite" => tot = 0)
    BY <1>2 DEF Inv, Progress, Pipes, Single, More
  <2>. QED
    BY <2>1, <1>3 DEF Progress, Single
<1>11. Bound'
  <2>1. xid + count <= MaxXid + MaxCount - 1
    BY <1>0, <1>2 DEF Inv, Bound
  <2>2. xid' + count' <= MaxXid + MaxCount - 1
    <3>1. xid + 1 + (count - k) <= MaxXid + MaxCount - 1
      BY <2>1, <1>1, <1>n
    <3>. QED
      BY <3>1, <1>1
  <2>. QED
    BY <2>2, <1>0, <1>3 DEF Bound
<1>. QED
  BY <1>4, <1>5, <1>6, <1>7, <1>8, <1>9, <1>10, <1>11 DEF Inv

LEMMA PipeResendKeeps == Inv /\ PipeResend => Inv'
<1>. SUFFICES ASSUME Inv, PipeResend PROVE Inv'
  OBVIOUS
<1>0. HandleTypes /\ LocalTypes /\ NetTypes /\ ServerTypes /\ ~calling /\ op \in Pipes
  BY DEF Inv, Types, Pipes, Call, Single, LocalTypes, PipeResend
<1>1. /\ reqs' = reqs \cup {out[s] : s \in Resent} /\ WaitAges
      /\ xid' = xid /\ inuse' = inuse /\ out' = out /\ numfree' = numfree /\ xresults' = xresults
      /\ op' = op /\ count' = count /\ asked' = asked /\ pending' = pending /\ eof' = eof
      /\ tot' = tot /\ first' = first
      /\ calling' = calling /\ cwaited' = cwaited /\ refreshes' = refreshes
      /\ res' = res /\ cause' = cause /\ reps' = reps /\ applied' = applied /\ size' = size
  BY DEF PipeResend, locals, callvars, outcome, server
<1>2. Resent \subseteq Used /\ Used \subseteq Slots /\ Used' = Used
  BY <1>1 DEF Resent, Used
<1>3. \A r \in reqs' : r \in reqs \/ \E s \in Used : r = out[s]
  BY <1>1, <1>2
<1>4. Types'
  <2>1. waited' \in [Slots -> 0 .. Rounds]
    <3>1. ASSUME NEW s \in Slots
          PROVE  waited[s] \in 0 .. Rounds /\ Smaller(waited[s] + 1, Rounds) \in 0 .. Rounds
      BY <1>0, RpcAssumption DEF HandleTypes, Smaller
    <3>. QED
      BY <3>1, <1>1 DEF WaitAges
  <2>2. HandleTypes' /\ LocalTypes' /\ ServerTypes'
    BY <2>1, <1>0, <1>1 DEF HandleTypes, LocalTypes, ServerTypes
  <2>3. NetTypes'
    <3>1. \A s \in Used : out[s] \in Requests /\ out[s].xid <= xid
      BY <1>0, <1>2 DEF HandleTypes
    <3>. QED
      BY <3>1, <1>0, <1>1, <1>3 DEF NetTypes
  <2>. QED
    BY <2>2, <2>3 DEF Types
<1>5. Counted' /\ Abandoned' /\ Call' /\ Bound' /\ (Trusted' <=> Trusted)
  BY <1>0, <1>1, <1>2 DEF Inv, Counted, Abandoned, Call, Bound, Trusted, More
<1>6. Current'
  <2>1. \A q : Asks(q)' <=> Asks(q)
    BY <1>1 DEF Asks, Procedure
  <2>2. \A s \in Used : Asks(out[s])
    BY <1>0 DEF Inv, Current
  <2>3. \A r \in reqs' : Asks(r)
    BY <1>3, <2>2 DEF Inv, Current
  <2>. QED
    BY <2>1, <2>2, <2>3, <1>1, <1>2, Zenon DEF Current
<1>7. Pipeline'
  <2>. SUFFICES ASSUME Trusted PROVE Pipeline'
    BY <1>5 DEF Pipeline
  <2>0. SlotCalls /\ SlotsDiffer /\ Covered /\ (Used # {} => xresults = Procedure(op))
    BY DEF Inv, Pipeline
  <2>1. \A s \in Used : Truth(out[s])'
    <3>. SUFFICES ASSUME NEW s \in Used PROVE Truth(out[s])'
      OBVIOUS
    <3>1. PICK q : q = out[s]
      OBVIOUS
    <3>2. Truth(q)
      BY <3>1, <2>0 DEF SlotCalls
    <3>3. ASSUME NEW r \in reqs', r \notin reqs, r.xid = q.xid PROVE Same(r, q)
      <4>1. PICK t \in Used : r = out[t]
        BY <3>3, <1>3
      <4>2. t = s
        BY <3>1, <3>3, <4>1, <2>0 DEF SlotsDiffer
      <4>. QED
        BY <3>1, <4>1, <4>2 DEF Same
    <3>4. Truth(q)'
      BY <3>2, <3>3, <1>1, TruthKept DEF server
    <3>. QED
      BY <3>1, <3>4, <1>1
  <2>2. SlotCalls'
    BY <2>0, <2>1, <1>1, <1>2 DEF SlotCalls, Procedure
  <2>3. SlotsDiffer' /\ Covered'
    BY <2>0, <1>1, <1>2 DEF SlotsDiffer, Covered, Arrived, Extent
  <2>. QED
    BY <2>0, <2>2, <2>3, <1>0, <1>1, <1>2 DEF Pipeline, Procedure
<1>8. Progress'
  BY <1>0, <1>1 DEF Inv, Progress, Single, Pipes
<1>. QED
  BY <1>4, <1>5, <1>6, <1>7, <1>8 DEF Inv

----------------------------------------------------------------------------
(* Answers of pipelined calls.                                             *)

\* The answer frees the slot that waits for it; without an abandoned write
\* it is the true answer to the call in that slot.
LEMMA ReleaseKeeps ==
    ASSUME Inv, op \in Pipes, MustWait, NEW r \in reps, Answers(r) # {},
           "ok" \in Decoded(r, xresults), FreeSlot(LeastOf(Answers(r))),
           pending' = pending - 1,
           UNCHANGED <<op, count, asked, first, callvars, outcome, reps, server>>
    PROVE  /\ HandleTypes' /\ NetTypes' /\ ServerTypes' /\ Counted' /\ Current' /\ Call'
           /\ pending' \in 0 .. NumRPCs
           /\ Trusted' <=> Trusted
           /\ Trusted => SlotCalls' /\ SlotsDiffer'
           /\ LeastOf(Answers(r)) \in Used /\ Used' = Used \ {LeastOf(Answers(r))} /\ out' = out
           /\ Trusted => /\ r.stat = "ok" /\ Truth(out[LeastOf(Answers(r))])
                         /\ r.xid = out[LeastOf(Answers(r))].xid
<1>0. HandleTypes /\ LocalTypes /\ NetTypes /\ ServerTypes /\ ~calling /\ op \in Pipes
  BY DEF Inv, Types, Pipes, Call, Single, LocalTypes
<1>1. PICK s : s = LeastOf(Answers(r))
  OBVIOUS
<1>2. s \in Used /\ out[s].xid = r.xid /\ Used \subseteq Slots
  <2>1. Answers(r) \in SUBSET Nat
    BY SlotFacts DEF Answers, Used
  <2>2. s \in Answers(r)
    BY <2>1, <1>1, LeastOfNats
  <2>. QED
    BY <2>2 DEF Answers, Used
<1>3. /\ inuse' = [inuse EXCEPT ![s] = FALSE] /\ numfree' = numfree + 1
      /\ reqs' = {x \in reqs : x.xid # out[s].xid}
      /\ xid' = xid /\ waited' = waited /\ out' = out /\ xresults' = xresults
  BY <1>1 DEF FreeSlot
<1>4. /\ op' = op /\ count' = count /\ asked' = asked /\ first' = first
      /\ calling' = calling /\ cwaited' = cwaited /\ refreshes' = refreshes
      /\ res' = res /\ cause' = cause /\ reps' = reps /\ applied' = applied /\ size' = size
  BY DEF callvars, outcome, server
<1>5. /\ inuse' \in [Slots -> BOOLEAN] /\ Used' = Used \ {s}
      /\ Cardinality(Used)' = Cardinality(Used) - 1
  BY <1>2, <1>3, SlotReleased
<1>6. HandleTypes' /\ NetTypes' /\ ServerTypes' /\ Call'
  BY <1>0, <1>3, <1>4, <1>5 DEF HandleTypes, NetTypes, ServerTypes, Call
<1>n. /\ pending \in Nat /\ 0 < pending /\ pending <= NumRPCs /\ NumRPCs \in Nat
      /\ NumAsync \in Nat /\ Cardinality(Used) \in Nat
  BY <1>0, Numbers, UsedFinite DEF MustWait, LocalTypes
<1>7. Counted'
  <2>1. numfree = NumAsync - Cardinality(Used) /\ Cardinality(Used) >= pending
    BY DEF Inv, Counted
  <2>2. numfree' = NumAsync - Cardinality(Used)'
    BY <2>1, <1>3, <1>5, <1>n
  <2>3. Cardinality(Used)' >= pending'
    BY <2>1, <1>5, <1>n
  <2>. QED
    BY <2>2, <2>3 DEF Counted
<1>8. Current'
  <2>1. \A q : Asks(q)' <=> Asks(q)
    BY <1>4 DEF Asks, Procedure
  <2>. QED
    BY <2>1, <1>0, <1>3, <1>5, Zenon DEF Inv, Current
<1>9. pending' \in 0 .. NumRPCs /\ (Trusted' <=> Trusted)
  BY <1>n, <1>5 DEF Trusted
<1>10. ASSUME Trusted
       PROVE  SlotCalls' /\ SlotsDiffer' /\ r.stat = "ok" /\ Truth(out[s])
  <2>0. SlotCalls /\ SlotsDiffer /\ xresults = Procedure(op)
    BY <1>10, <1>2 DEF Inv, Pipeline
  <2>1. r.stat = "ok"
    <3>1. r.proc = xresults
      BY <2>0, <1>2 DEF SlotCalls, Truth
    <3>. QED
      BY <3>1 DEF Decoded
  <2>2. \A t \in Used : Truth(out[t])'
    <3>. SUFFICES ASSUME NEW t \in Used PROVE Truth(out[t])'
      OBVIOUS
    <3>1. PICK q : q = out[t]
      OBVIOUS
    <3>2. Truth(q)
      BY <3>1, <2>0 DEF SlotCalls
    <3>3. Truth(q)'
      BY <3>2, <1>3, <1>4, TruthKept DEF server
    <3>. QED
      BY <3>1, <3>3, <1>3
  <2>3. SlotCalls'
    BY <2>0, <2>2, <1>3, <1>4, <1>5 DEF SlotCalls, Procedure
  <2>4. SlotsDiffer'
    BY <2>0, <1>3, <1>5 DEF SlotsDiffer, Extent
  <2>. QED
    BY <2>0, <2>1, <2>3, <2>4, <1>2 DEF SlotCalls
<1>. QED
  BY <1>1, <1>2, <1>3, <1>5, <1>6, <1>7, <1>8, <1>9, <1>10

LEMMA MAWriteAnswerKeeps == \A r \in reps : Inv /\ MAWriteAnswer(r) => Inv'
<1>. SUFFICES ASSUME NEW r \in reps, Inv, MAWriteAnswer(r) PROVE Inv'
  OBVIOUS
<1>0. /\ op = "MAWrite" /\ op \in Pipes /\ MustWait /\ Answers(r) # {} /\ "ok" \in Decoded(r, xresults)
      /\ FreeSlot(LeastOf(Answers(r))) /\ pending' = pending - 1 /\ eof' = eof /\ tot' = tot
      /\ UNCHANGED <<op, count, asked, first, callvars, outcome, reps, server>>
  BY DEF MAWriteAnswer, Working, Pipes
<1>1. PICK s : s = LeastOf(Answers(r))
  OBVIOUS
<1>2. /\ HandleTypes' /\ NetTypes' /\ ServerTypes' /\ Counted' /\ Current' /\ Call'
      /\ pending' \in 0 .. NumRPCs
      /\ Trusted' <=> Trusted
      /\ Trusted => SlotCalls' /\ SlotsDiffer'
      /\ s \in Used /\ Used' = Used \ {s} /\ out' = out
      /\ Trusted => r.stat = "ok" /\ Truth(out[s]) /\ r.xid = out[s].xid
  BY <1>0, <1>1, ReleaseKeeps
<1>3. /\ op' = op /\ count' = count /\ asked' = asked /\ first' = first
      /\ calling' = calling /\ cwaited' = cwaited /\ refreshes' = refreshes
      /\ res' = res /\ cause' = cause /\ reps' = reps /\ applied' = applied /\ size' = size
      /\ xid' = xid /\ xresults' = xresults
  BY <1>0 DEF callvars, outcome, server, FreeSlot
<1>4. Types'
  BY <1>0, <1>2, <1>3 DEF Inv, Types, LocalTypes
<1>5. Pipeline'
  <2>. SUFFICES ASSUME Trusted PROVE Pipeline'
    BY <1>2 DEF Pipeline
  <2>1. Covered /\ xresults = Procedure(op) /\ SlotCalls
    BY <1>2 DEF Inv, Pipeline
  <2>2. Extent(out[s]) \subseteq applied
    <3>1. out[s].proc = "write"
      BY <2>1, <1>0, <1>2 DEF SlotCalls, Procedure
    <3>. QED
      BY <3>1, <1>2 DEF Truth
  <2>3. Covered'
    <3>1. \A b \in 0 .. asked - count - 1 : b \in applied \/ \E t \in Used : b \in Extent(out[t])
      BY <2>1, <1>0 DEF Covered
    <3>2. \A b \in 0 .. asked - count - 1 : b \in applied \/ \E t \in Used' : b \in Extent(out[t])
      BY <3>1, <2>2, <1>2
    <3>. QED
      BY <3>2, <1>0, <1>2, <1>3 DEF Covered, Extent
  <2>. QED
    BY <2>1, <2>3, <1>0, <1>2, <1>3 DEF Pipeline, Procedure
<1>6. Abandoned' /\ Progress' /\ Bound'
  BY <1>0, <1>2, <1>3 DEF Inv, Abandoned, Progress, Bound, More, Single
<1>. QED
  BY <1>2, <1>4, <1>5, <1>6 DEF Inv

LEMMA DisjointCount ==
    ASSUME NEW S, NEW T, IsFiniteSet(S), IsFiniteSet(T), S \cap T = {}
    PROVE  /\ IsFiniteSet(S \cup T)
           /\ Cardinality(S \cup T) = Cardinality(S) + Cardinality(T)
<1>1. IsFiniteSet(S \cup T)
      /\ Cardinality(S \cup T) = Cardinality(S) + Cardinality(T) - Cardinality(S \cap T)
  BY FS_Union, Zenon
<1>2. Cardinality(S \cap T) = 0
  BY FS_EmptySet
<1>3. Cardinality(S) \in Nat /\ Cardinality(T) \in Nat
  BY FS_CardinalityType
<1>. QED
  BY <1>1, <1>2, <1>3

LEMMA SubIntervalCount ==
    ASSUME NEW n \in Nat, NEW S \in SUBSET (0 .. n - 1)
    PROVE  IsFiniteSet(S) /\ Cardinality(S) \in 0 .. n
<1>1. IsFiniteSet(0 .. n - 1) /\ Cardinality(0 .. n - 1) <= n
  <2>1. CASE n = 0
    <3>1. 0 .. n - 1 = {}
      BY <2>1
    <3>. QED
      BY <3>1, <2>1, FS_EmptySet
  <2>2. CASE n > 0
    <3>1. PICK e \in Int : e = n - 1
      OBVIOUS
    <3>2. IsFiniteSet(0 .. e) /\ Cardinality(0 .. e) = e - 0 + 1
      BY <2>2, <3>1, FS_Interval, IntervalCount
    <3>3. Cardinality(0 .. e) <= n
      BY <3>1, <3>2
    <3>. QED
      BY <3>1, <3>2, <3>3
  <2>. QED
    BY <2>1, <2>2
<1>2. IsFiniteSet(S) /\ Cardinality(S) <= Cardinality(0 .. n - 1)
  BY <1>1, FS_Subset
<1>3. Cardinality(S) \in Nat /\ Cardinality(0 .. n - 1) \in Nat
  BY <1>1, <1>2, FS_CardinalityType
<1>. QED
  BY <1>1, <1>2, <1>3

LEMMA MAReadAnswerKeeps == \A r \in reps : Inv /\ MAReadAnswer(r) => Inv'
<1>. SUFFICES ASSUME NEW r \in reps, Inv, MAReadAnswer(r) PROVE Inv'
  OBVIOUS
<1>1. PICK s : s = LeastOf(Answers(r))
  OBVIOUS
<1>0. /\ op = "MARead" /\ op \in Pipes /\ MustWait /\ Answers(r) # {} /\ "ok" \in Decoded(r, xresults)
      /\ FreeSlot(LeastOf(Answers(r))) /\ pending' = pending - 1
      /\ eof' = (eof \/ r.len < out[s].cnt) /\ tot' = tot + r.len
      /\ UNCHANGED <<op, count, asked, first, callvars, outcome, reps, server>>
  BY <1>1 DEF MAReadAnswer, Working, Pipes
<1>2. /\ HandleTypes' /\ NetTypes' /\ ServerTypes' /\ Counted' /\ Current' /\ Call'
      /\ pending' \in 0 .. NumRPCs
      /\ Trusted' <=> Trusted
      /\ Trusted => SlotCalls' /\ SlotsDiffer'
      /\ s \in Used /\ Used' = Used \ {s} /\ out' = out
      /\ Trusted => r.stat = "ok" /\ Truth(out[s]) /\ r.xid = out[s].xid
  BY <1>0, <1>1, ReleaseKeeps
<1>3. /\ op' = op /\ count' = count /\ asked' = asked /\ first' = first
      /\ calling' = calling /\ cwaited' = cwaited /\ refreshes' = refreshes
      /\ res' = res /\ cause' = cause /\ reps' = reps /\ applied' = applied /\ size' = size
      /\ xid' = xid /\ xresults' = xresults
  BY <1>0 DEF callvars, outcome, server, FreeSlot
<1>4. HandleTypes /\ LocalTypes /\ ServerTypes
  BY DEF Inv, Types
<1>n. /\ size \in Nat /\ asked \in Nat /\ count \in Nat /\ count <= asked /\ asked <= MaxCount
      /\ MaxCount \in Nat /\ tot \in Nat /\ pending \in Nat /\ NumRPCs \in Nat /\ NumRPCs > 0
  BY <1>4, Numbers
<1>t. Trusted
  <2>1. pending # 0
    BY <1>0, <1>n DEF MustWait
  <2>. QED
    BY <2>1, <1>0 DEF Inv, Abandoned
<1>5. SlotCalls /\ SlotsDiffer /\ Covered /\ xresults = Procedure(op)
  BY <1>t, <1>2 DEF Inv, Pipeline
<1>6. PICK q \in Requests : q = out[s]
  BY <1>2, <1>4 DEF HandleTypes, Used
<1>7. PICK n \in Nat : n = asked - count
  BY <1>n
<1>8. q.off \in Nat /\ q.cnt \in Nat /\ q.cnt > 0 /\ q.off + q.cnt <= n /\ q.proc = "read"
  BY <1>0, <1>2, <1>5, <1>6, <1>7, RequestFields DEF SlotCalls, Procedure
<1>9. r.len = ReadLen(q)
  BY <1>t, <1>2, <1>6, <1>8 DEF Truth
<1>10. r.len \in Nat /\ (r.len < q.cnt => size <= n)
  <2>1. ReadLen(q) = IF size <= q.off THEN 0 ELSE IF size >= q.off + q.cnt THEN q.cnt ELSE size - q.off
    BY <1>n, ReadLenFacts
  <2>2. ReadLen(q) \in Nat
    BY <1>n, ReadLenFacts
  <2>. QED
    BY <2>1, <2>2, <1>8, <1>9, <1>n
<1>. DEFINE D == {b \in Extent(q) : b < size}
<1>11. Arrived' = Arrived \cup D /\ Arrived \cap D = {}
  <2>1. Arrived = {b \in 0 .. n - 1 : b < size /\ \A t \in Used : b \notin Extent(out[t])}
    BY <1>7 DEF Arrived
  <2>2. Arrived' = {b \in 0 .. n - 1 : b < size /\ \A t \in Used \ {s} : b \notin Extent(out[t])}
    BY <1>2, <1>3, <1>7 DEF Arrived, Extent
  <2>3. Extent(q) \subseteq 0 .. n - 1
    BY <1>8 DEF Extent
  <2>4. \A t \in Used \ {s} : \A b \in Extent(q) : b \notin Extent(out[t])
    BY <1>2, <1>5, <1>6 DEF SlotsDiffer
  <2>5. Arrived' \subseteq Arrived \cup D
    BY <2>1, <2>2, <1>2, <1>6
  <2>6. Arrived \cup D \subseteq Arrived'
    BY <2>1, <2>2, <2>3, <2>4
  <2>7. Arrived \cap D = {}
    BY <2>1, <1>2, <1>6
  <2>. QED
    BY <2>5, <2>6, <2>7
<1>12. /\ Arrived \in SUBSET (0 .. n - 1) /\ Arrived' \in SUBSET (0 .. n - 1) /\ D \in SUBSET (0 .. n - 1)
  BY <1>7, <1>3, <1>8 DEF Arrived, Extent
<1>13. Cardinality(D) = r.len
  BY <1>9 DEF ReadLen
<1>14. tot' = Cardinality(Arrived)' /\ tot' \in 0 .. n
  <2>1. tot = Cardinality(Arrived)
    BY <1>0, <1>5 DEF Covered
  <2>. HIDE DEF D
  <2>2. IsFiniteSet(Arrived) /\ IsFiniteSet(D) /\ Cardinality(Arrived') \in 0 .. n
    BY <1>12, SubIntervalCount
  <2>3. Cardinality(Arrived \cup D) = Cardinality(Arrived) + Cardinality(D)
    BY <2>2, <1>11, DisjointCount
  <2>4. tot' = Cardinality(Arrived')
    BY <2>1, <2>3, <1>0, <1>11, <1>13
  <2>. QED
    BY <2>2, <2>4
<1>15. Types'
  <2>1. tot' \in 0 .. MaxCount
    BY <1>14, <1>7, <1>n
  <2>2. eof' \in BOOLEAN
    BY <1>0
  <2>. QED
    BY <2>1, <2>2, <1>2, <1>3, <1>4 DEF Types, LocalTypes
<1>16. Pipeline'
  <2>1. Covered'
    BY <1>0, <1>3, <1>14 DEF Covered
  <2>. QED
    BY <2>1, <1>0, <1>2, <1>3, <1>5, <1>t DEF Pipeline, Procedure
<1>17. Abandoned'
  BY <1>t, <1>2 DEF Abandoned
<1>18. Progress'
  <2>1. eof' => size <= asked - count
    BY <1>0, <1>6, <1>7, <1>10 DEF Inv, Progress
  <2>2. asked > 0
    BY <1>0 DEF Inv, Progress
  <2>. QED
    BY <2>1, <2>2, <1>0, <1>3 DEF Progress, Single
<1>19. Bound'
  <2>1. More' => More
    BY <1>0, <1>3 DEF More
  <2>. QED
    BY <2>1, <1>3 DEF Inv, Bound
<1>. QED
  BY <1>2, <1>15, <1>16, <1>17, <1>18, <1>19 DEF Inv

----------------------------------------------------------------------------
(* Calls one at a time.                                                    *)

\* In a routine that makes one call at a time no slot is in use, unless by an
\* abandoned write.
LEMMA SinglePipeline ==
    ASSUME Inv, op \in Single, inuse' = inuse, pending' = pending, op' = op
    PROVE  Pipeline'
<1>1. pending = 0 /\ Used' = Used /\ op \notin Pipes
  BY DEF Inv, Progress, Used, Single, Pipes
<1>2. Trusted' => Used' = {}
  BY <1>1, UsedEmpty DEF Trusted
<1>. QED
  BY <1>1, <1>2 DEF Pipeline, SlotCalls, SlotsDiffer, Covered, Pipes

LEMMA EncodeSends ==
    ASSUME Inv, op \in Single, More, EncodeCall, reqs' = reqs \cup {Request(xid', TRUE)},
           calling' = TRUE, cwaited' \in 0 .. Rounds, refreshes' \in 0 .. 2,
           UNCHANGED <<locals, outcome, reps, server>>,
           xid + 1 + count <= MaxXid + MaxCount
    PROVE  Inv'
<1>0. HandleTypes /\ LocalTypes /\ NetTypes /\ ServerTypes /\ op # "none" /\ op \notin Pipes
  BY DEF Inv, Types, Single, Pipes
<1>1. /\ op' = op /\ count' = count /\ asked' = asked /\ pending' = pending /\ eof' = eof
      /\ tot' = tot /\ first' = first
      /\ res' = res /\ cause' = cause /\ reps' = reps /\ applied' = applied /\ size' = size
  BY DEF locals, outcome, server
<1>2. /\ xid' = xid + 1 /\ out' = [out EXCEPT ![0] = Request(xid', TRUE)]
      /\ inuse' = inuse /\ waited' = waited /\ numfree' = numfree /\ xresults' = xresults
  BY DEF EncodeCall
<1>n. /\ xid \in Nat /\ count \in Nat /\ asked \in Nat /\ count > 0 /\ count <= asked
      /\ MaxXid \in Nat /\ MaxCount \in Nat /\ first \in Nat /\ first <= xid
  BY <1>0, Numbers DEF More
<1>3. xid + 1 <= MaxXid + MaxCount
  BY <1>n
<1>4. /\ xid' \in 0 .. MaxXid + MaxCount
      /\ out' \in [Slots -> Requests] /\ \A t \in Slots : out'[t].xid <= xid'
  BY <1>0, <1>2, <1>3, SlotFacts, EncodeTypes
<1>5. PICK q : q = Request(xid', TRUE)
  OBVIOUS
<1>6. /\ q \in Requests /\ q.xid = xid' /\ q.proc = Procedure(op) /\ q.off = asked - count
      /\ q.cnt = Smaller(count, MaxData) /\ Smaller(count, MaxData) \in 1 .. count
  BY <1>0, <1>4, <1>5, <1>n, RequestFacts
<1>7. out'[0] = q /\ out'[0] = Request(xid', TRUE) /\ reqs' = reqs \cup {q}
  BY <1>0, <1>2, <1>5, SlotFacts DEF HandleTypes
<1>8. Types'
  <2>1. HandleTypes' /\ ServerTypes'
    BY <1>0, <1>1, <1>2, <1>4 DEF HandleTypes, ServerTypes
  <2>2. LocalTypes'
    <3>1. first \in 0 .. xid'
      BY <1>2, <1>n
    <3>. QED
      BY <3>1, <1>0, <1>1 DEF LocalTypes
  <2>3. NetTypes'
    <3>1. \A r \in reqs : r.xid \in Nat /\ r.xid <= xid
      BY <1>0, RequestFields DEF NetTypes
    <3>2. ASSUME NEW r \in reqs' PROVE r \in Requests /\ r.xid <= xid'
      <4>1. CASE r \in reqs
        BY <4>1, <3>1, <1>0, <1>2, <1>n DEF NetTypes
      <4>2. CASE r = q
        BY <4>2, <1>2, <1>6, <1>n
      <4>. QED
        BY <4>1, <4>2, <1>7
    <3>3. \A r \in reps : r.xid \in 0 .. xid'
      BY <1>0, <1>2, <1>n DEF NetTypes
    <3>. QED
      BY <3>2, <3>3, <1>0, <1>1 DEF NetTypes
  <2>. QED
    BY <2>1, <2>2, <2>3 DEF Types
<1>9. Used' = Used /\ (Trusted' <=> Trusted) /\ Counted' /\ Abandoned'
  BY <1>1, <1>2 DEF Inv, Used, Trusted, Counted, Abandoned
<1>10. Current'
  <2>1. \A z : Asks(z)' <=> Asks(z)
    BY <1>1 DEF Asks, Procedure
  <2>2. Asks(q)
    BY <1>6, <1>n DEF Asks
  <2>3. \A r \in reqs' : Asks(r)
    BY <2>2, <1>7 DEF Inv, Current
  <2>. QED
    BY <2>1, <2>3, <1>0, <1>1, Zenon DEF Current
<1>11. Pipeline'
  BY <1>1, <1>2, SinglePipeline
<1>12. Call'
  <2>1. Truth(q)'
    BY <1>1, <1>2, <1>6, <1>7, TruthNew DEF Same
  <2>2. (out[0] = Request(xid, TRUE))'
    BY <1>1, <1>7 DEF Request, Procedure
  <2>3. (op \in Single /\ More)'
    BY <1>1 DEF More
  <2>. QED
    BY <2>1, <2>2, <2>3, <1>7 DEF Call
<1>13. Progress'
  BY <1>0, <1>1 DEF Inv, Progress
<1>14. Bound'
  BY <1>1, <1>2, <1>n DEF Bound
<1>. QED
  BY <1>8, <1>9, <1>10, <1>11, <1>12, <1>13, <1>14 DEF Inv

LEMMA CallSendKeeps ==
    ASSUME Inv
    PROVE  /\ CallSend \/ CallAgain => Inv'
           /\ \A r \in reps : CallRefresh(r) => Inv'
<1>n. /\ xid \in Nat /\ count \in Nat /\ MaxXid \in Nat /\ MaxCount \in Nat
      /\ asked \in Nat /\ count <= asked /\ asked <= MaxCount /\ LocalTypes
  BY Numbers DEF Inv, Types
<1>r. 0 \in 0 .. Rounds /\ 2 \in 0 .. 2
  BY RpcAssumption
<1>1. ASSUME CallSend PROVE Inv'
  <2>1. /\ op \in Single /\ More /\ ~calling /\ EncodeCall /\ op # "none"
        /\ reqs' = reqs \cup {Request(xid', TRUE)}
        /\ calling' = TRUE /\ cwaited' = 0 /\ refreshes' = 2
        /\ UNCHANGED <<locals, outcome, reps, server>>
    BY <1>1 DEF CallSend, Single
  <2>2. xid + 1 + count <= MaxXid + MaxCount
    <3>1. xid + count <= MaxXid + MaxCount - (IF calling THEN 0 ELSE 1)
      BY <2>1, Zenon DEF Inv, Bound
    <3>. QED
      BY <3>1, <2>1, <1>n
  <2>. QED
    BY <2>1, <2>2, <1>r, EncodeSends
<1>2. ASSUME CallAgain PROVE Inv'
  <2>1. /\ calling /\ xid < MaxXid /\ EncodeCall /\ reqs' = reqs \cup {Request(xid', TRUE)}
        /\ calling' = calling /\ cwaited' = 0 /\ refreshes' = 2
        /\ UNCHANGED <<locals, outcome, reps, server>>
    BY <1>2 DEF CallAgain
  <2>2. xid + 1 + count <= MaxXid + MaxCount /\ op \in Single /\ More /\ calling' = TRUE
    BY <2>1, <1>n DEF Inv, Call, LocalTypes
  <2>. QED
    BY <2>1, <2>2, <1>r, EncodeSends
<1>3. ASSUME NEW r \in reps, CallRefresh(r) PROVE Inv'
  <2>1. /\ calling /\ xid < MaxXid /\ EncodeCall /\ reqs' = reqs \cup {Request(xid', TRUE)}
        /\ calling' = calling /\ cwaited' = cwaited /\ refreshes > 0 /\ refreshes' = refreshes - 1
        /\ UNCHANGED <<locals, outcome, reps, server>>
    BY <1>3 DEF CallRefresh
  <2>2. xid + 1 + count <= MaxXid + MaxCount /\ op \in Single /\ More /\ calling' = TRUE
    BY <2>1, <1>n DEF Inv, Call, LocalTypes
  <2>3. cwaited' \in 0 .. Rounds /\ refreshes' \in 0 .. 2
    BY <2>1, <1>n DEF LocalTypes
  <2>. QED
    BY <2>1, <2>2, <2>3, EncodeSends
<1>. QED
  BY <1>1, <1>2, <1>3

LEMMA CallResendKeeps == Inv /\ CallResend => Inv'
<1>. SUFFICES ASSUME Inv, CallResend PROVE Inv'
  OBVIOUS
<1>1. /\ calling /\ cwaited + 1 < Rounds /\ cwaited' = cwaited + 1 /\ reqs' = reqs \cup {out[0]}
      /\ xid' = xid /\ inuse' = inuse /\ waited' = waited /\ out' = out /\ numfree' = numfree
      /\ xresults' = xresults
      /\ op' = op /\ count' = count /\ asked' = asked /\ pending' = pending /\ eof' = eof
      /\ tot' = tot /\ first' = first /\ calling' = calling /\ refreshes' = refreshes
      /\ res' = res /\ cause' = cause /\ reps' = reps /\ applied' = applied /\ size' = size
  BY DEF CallResend, handle, locals, outcome, server
<1>0. /\ HandleTypes /\ LocalTypes /\ NetTypes /\ ServerTypes
      /\ op \in Single /\ More /\ out[0] = Request(xid, TRUE) /\ Truth(out[0])
  BY <1>1 DEF Inv, Types, Call
<1>2. PICK q : q = out[0]
  OBVIOUS
<1>3. q \in Requests /\ q.xid <= xid /\ Truth(q)
  BY <1>0, <1>2, SlotFacts DEF HandleTypes
<1>n. /\ xid \in Nat /\ count \in Nat /\ asked \in Nat /\ count > 0 /\ count <= asked
      /\ MaxCount \in Nat
  BY <1>0, Numbers DEF More
<1>4. q.proc = Procedure(op) /\ q.off + q.cnt <= asked
  <2>1. PICK x \in 0 .. MaxXid + MaxCount : x = xid
    BY <1>0 DEF HandleTypes
  <2>2. q = Request(x, TRUE)
    BY <2>1, <1>0, <1>2
  <2>3. q.proc = Procedure(op) /\ q.off = asked - count /\ q.cnt = Smaller(count, MaxData)
        /\ Smaller(count, MaxData) \in 1 .. count
    BY <2>2, <1>0, <1>n, RequestFacts
  <2>. QED
    BY <2>3, <1>n
<1>5. Types'
  <2>1. cwaited' \in 0 .. Rounds
    BY <1>0, <1>1, RpcAssumption DEF LocalTypes
  <2>2. HandleTypes' /\ LocalTypes' /\ ServerTypes'
    BY <2>1, <1>0, <1>1 DEF HandleTypes, LocalTypes, ServerTypes
  <2>3. NetTypes'
    BY <1>0, <1>1, <1>2, <1>3 DEF NetTypes
  <2>. QED
    BY <2>2, <2>3 DEF Types
<1>6. Used' = Used /\ (Trusted' <=> Trusted) /\ Counted' /\ Abandoned' /\ Bound'
  BY <1>1 DEF Inv, Used, Trusted, Counted, Abandoned, Bound, More
<1>7. Current'
  <2>1. \A z : Asks(z)' <=> Asks(z)
    BY <1>1 DEF Asks, Procedure
  <2>2. \A r \in reqs' : Asks(r)
    BY <1>1, <1>2, <1>4 DEF Inv, Current, Asks
  <2>. QED
    BY <2>1, <2>2, <1>0, <1>1 DEF Current, Pipes, Single
<1>8. Call'
  <2>1. Truth(q)'
    BY <1>1, <1>2, <1>3, TruthKept DEF server, Same
  <2>2. (out[0] = Request(xid, TRUE))'
    BY <1>0, <1>1 DEF Request, Procedure
  <2>3. (op \in Single /\ More)'
    BY <1>0, <1>1 DEF More
  <2>. QED
    BY <2>1, <2>2, <2>3, <1>1, <1>2 DEF Call
<1>9. Pipeline'
  BY <1>0, <1>1, SinglePipeline
<1>10. Progress'
  BY <1>0, <1>1 DEF Inv, Progress, Single
<1>. QED
  BY <1>5, <1>6, <1>7, <1>8, <1>9, <1>10 DEF Inv

LEMMA CallAnswerKeeps == \A r \in reps : Inv /\ CallAnswer(r) => Inv'
<1>. SUFFICES ASSUME NEW r \in reps, Inv, CallAnswer(r) PROVE Inv'
  OBVIOUS
<1>1. PICK len : len = IF op = "MRead" THEN r.len ELSE out[0].cnt
  OBVIOUS
<1>2. /\ calling /\ r.xid = out[0].xid /\ r.stat = "ok" /\ CallReturns
      /\ count' = count - len /\ tot' = tot + len /\ eof' = (len = 0)
      /\ xid' = xid /\ inuse' = inuse /\ waited' = waited /\ out' = out /\ numfree' = numfree
      /\ xresults' = xresults /\ op' = op /\ asked' = asked /\ pending' = pending /\ first' = first
      /\ res' = res /\ cause' = cause /\ reqs' = reqs /\ reps' = reps /\ applied' = applied /\ size' = size
  BY <1>1 DEF CallAnswer, handle, outcome, net, server
<1>0. /\ HandleTypes /\ LocalTypes /\ NetTypes /\ ServerTypes
      /\ op \in Single /\ More /\ out[0] = Request(xid, TRUE) /\ Truth(out[0])
  BY <1>2 DEF Inv, Types, Call
<1>c. calling' = FALSE /\ cwaited' \in 0 .. Rounds /\ refreshes' \in 0 .. 2
  BY <1>2, CallReturned
<1>n. /\ xid \in Nat /\ count \in Nat /\ asked \in Nat /\ count > 0 /\ count <= asked
      /\ MaxCount \in Nat /\ size \in Nat /\ asked <= MaxCount /\ MaxXid \in Nat
  BY <1>0, Numbers DEF More
<1>3. PICK q : q = out[0]
  OBVIOUS
<1>4. PICK n \in Nat : n = asked - count
  BY <1>n
<1>5. PICK k \in 1 .. count : q.off = n /\ q.cnt = k /\ q \in Requests /\ q.proc = Procedure(op)
  <2>1. PICK x \in 0 .. MaxXid + MaxCount : x = xid
    BY <1>0 DEF HandleTypes
  <2>2. q = Request(x, TRUE)
    BY <2>1, <1>0, <1>3
  <2>. QED
    BY <2>2, <1>0, <1>4, <1>n, RequestFacts
<1>6. tot = n
  BY <1>0, <1>4 DEF Inv, Progress
<1>7. /\ len \in 0 .. count
      /\ len = 0 => size <= n
      /\ op = "MRead" => n + len <= size
      /\ op \in {"MWrite", "Proc"} => len = k /\ Extent(q) \subseteq applied
  <2>1. CASE op = "MRead"
    <3>1. q.proc = "read" /\ r.xid = q.xid /\ len = r.len
      BY <2>1, <1>1, <1>2, <1>3, <1>5 DEF Procedure
    <3>2. len = ReadLen(q)
      BY <3>1, <1>0, <1>2, <1>3 DEF Truth
    <3>3. ReadLen(q) = IF size <= q.off THEN 0 ELSE IF size >= q.off + q.cnt THEN q.cnt ELSE size - q.off
      BY <1>5, <1>n, ReadLenFacts
    <3>4. n <= size
      BY <2>1, <1>6 DEF Inv, Progress
    <3>5. n + len <= size /\ len \in 0 .. count /\ (len = 0 => size <= n)
      BY <3>2, <3>3, <3>4, <1>5, <1>n
    <3>. QED
      BY <3>5, <2>1
  <2>2. CASE op # "MRead"
    <3>1. q.proc # "read" /\ r.xid = q.xid /\ len = k
      BY <2>2, <1>0, <1>1, <1>2, <1>3, <1>5 DEF Procedure, Single
    <3>2. Extent(q) \subseteq applied
      BY <3>1, <1>0, <1>2, <1>3 DEF Truth
    <3>. QED
      BY <3>1, <3>2, <2>2, <1>5
  <2>. QED
    BY <2>1, <2>2
<1>8. (asked - count)' = n + len /\ tot' = n + len /\ count' \in 0 .. asked /\ count' = count - len
      /\ n + len <= asked
  BY <1>2, <1>4, <1>6, <1>7, <1>n
<1>9. Types'
  <2>1. tot' \in 0 .. MaxCount
    BY <1>7, <1>8, <1>n
  <2>2. LocalTypes'
    BY <2>1, <1>0, <1>2, <1>8, <1>c DEF LocalTypes
  <2>3. HandleTypes' /\ NetTypes' /\ ServerTypes'
    BY <1>0, <1>2 DEF HandleTypes, NetTypes, ServerTypes
  <2>. QED
    BY <2>2, <2>3 DEF Types
<1>10. Used' = Used /\ (Trusted' <=> Trusted) /\ Counted' /\ Abandoned'
  BY <1>0, <1>2 DEF Inv, Used, Trusted, Counted, Abandoned, Single
<1>11. Current'
  <2>1. \A z : Asks(z)' <=> Asks(z)
    BY <1>2 DEF Asks, Procedure
  <2>. QED
    BY <2>1, <1>0, <1>2 DEF Inv, Current, Single, Pipes
<1>12. Pipeline'
  BY <1>0, <1>2, SinglePipeline
<1>13. Call'
  BY <1>c DEF Call
<1>14. Progress'
  <2>1. pending = 0 /\ asked > 0 /\ op # "none" /\ op # "MAWrite"
    BY <1>0 DEF Inv, Progress, Single
  <2>2. ASSUME op \in {"MWrite", "Proc"} PROVE 0 .. n + len - 1 \subseteq applied /\ ~eof'
    <3>1. 0 .. n - 1 \subseteq applied
      BY <2>2, <1>4 DEF Inv, Progress
    <3>2. n .. n + len - 1 \subseteq applied
      BY <2>2, <1>5, <1>7 DEF Extent
    <3>3. len # 0
      BY <2>2, <1>5, <1>7
    <3>4. ~eof'
      BY <3>3, <1>2, Zenon
    <3>. QED
      BY <3>1, <3>2, <3>4, <1>7
  <2>3. eof' => size <= n + len
    <3>1. eof' => len = 0
      BY <1>2, Zenon
    <3>. QED
      BY <3>1, <1>7, <1>n
  <2>4. 0 .. n + len - 1 = 0 .. (asked - count)' - 1
    <3>1. asked' = asked /\ count' = count - len /\ asked - (count - len) = n + len
      BY <1>2, <1>4, <1>7, <1>n
    <3>. QED
      BY <3>1, <1>7, <1>n
  <2>. QED
    BY <2>1, <2>2, <2>3, <2>4, <1>2, <1>7, <1>8, <1>n DEF Progress
<1>15. Bound'
  <2>1. xid + count <= MaxXid + MaxCount
    <3>1. xid + count <= MaxXid + MaxCount - (IF calling THEN 0 ELSE 1)
      BY <1>0, Zenon DEF Inv, Bound, Single
    <3>. QED
      BY <3>1, <1>2, <1>n
  <2>2. len # 0 => xid + (count - len) <= MaxXid + MaxCount - 1
    BY <2>1, <1>7, <1>n
  <2>. QED
    BY <2>2, <1>2, <1>c DEF Bound, More
<1>. QED
  BY <1>9, <1>10, <1>11, <1>12, <1>13, <1>14, <1>15 DEF Inv

----------------------------------------------------------------------------
(* The callers and the server.                                             *)

LEMMA BeginKeeps ==
    ASSUME Inv, NEW o \in Ops \ {"none"}, NEW n \in 1 .. MaxCount, Begin(o, n)
    PROVE  Inv'
<1>0. HandleTypes /\ LocalTypes /\ NetTypes /\ ServerTypes
  BY DEF Inv, Types
<1>1. /\ op = "none" /\ xid < MaxXid /\ op' = o /\ count' = n /\ asked' = n
      /\ pending' = 0 /\ eof' = FALSE /\ tot' = 0 /\ first' = xid
      /\ res' = "none" /\ cause' = "none" /\ applied' = {}
      /\ reqs' \subseteq reqs /\ reps' \subseteq reps
      /\ xid' = xid /\ inuse' = inuse /\ waited' = waited /\ out' = out /\ numfree' = numfree
      /\ xresults' = xresults
      /\ calling' = calling /\ cwaited' = cwaited /\ refreshes' = refreshes
  BY DEF Begin, handle, callvars
<1>2. pending = 0 /\ ~calling
  BY <1>1 DEF Inv, Progress
<1>n. xid \in Nat /\ MaxXid \in Nat /\ MaxCount \in Nat /\ n \in Nat /\ 0 < n /\ n <= MaxCount
      /\ NumRPCs \in Nat
  BY <1>0, Numbers
<1>3. size' \in 0 .. MaxCount
  <2>1. size' \in IF Procedure(o) = "read" THEN 0 .. MaxCount ELSE {0}
    BY DEF Begin
  <2>. QED
    BY <2>1, <1>n
<1>4. Types'
  <2>1. HandleTypes'
    BY <1>0, <1>1 DEF HandleTypes
  <2>2. LocalTypes'
    <3>1. /\ n \in 0 .. MaxCount /\ n \in 0 .. n /\ 0 \in 0 .. NumRPCs /\ 0 \in 0 .. MaxCount
          /\ xid \in 0 .. xid
      BY <1>n
    <3>. QED
      BY <3>1, <1>0, <1>1 DEF LocalTypes, Ops, Causes
  <2>3. NetTypes'
    BY <1>0, <1>1 DEF NetTypes
  <2>4. ServerTypes'
    BY <1>1, <1>3 DEF ServerTypes
  <2>. QED
    BY <2>1, <2>2, <2>3, <2>4 DEF Types
<1>5. Used' = Used /\ (Trusted' <=> Trusted) /\ Counted' /\ Abandoned'
  BY <1>1, <1>2 DEF Inv, Used, Trusted, Counted, Abandoned
<1>6. Current'
  <2>1. \A r \in reqs' : r.xid \in Nat /\ r.xid <= xid
    BY <1>0, <1>1, RequestFields DEF NetTypes
  <2>2. \A s \in Used' : out'[s].xid \in Nat /\ out'[s].xid <= xid
    BY <1>0, <1>1, <1>5, RequestFields DEF HandleTypes, Used
  <2>. QED
    BY <2>1, <2>2, <1>1, <1>n DEF Current, Asks
<1>7. Pipeline'
  <2>. SUFFICES ASSUME Trusted' PROVE Pipeline'
    BY DEF Pipeline
  <2>1. Used' = {}
    BY <1>1, <1>2, <1>5, UsedEmpty DEF Trusted
  <2>2. 0 .. (asked - count)' - 1 = {}
    BY <1>1, <1>n
  <2>3. Arrived' = {}
    BY <2>2 DEF Arrived
  <2>4. Covered'
    BY <2>2, <2>3, <1>1, FS_EmptySet DEF Covered
  <2>. QED
    BY <2>1, <2>4, <1>1 DEF Pipeline, SlotCalls, SlotsDiffer
<1>8. Call'
  BY <1>1, <1>2 DEF Call
<1>9. Progress'
  <2>1. (asked - count)' = 0 /\ 0 .. (asked - count)' - 1 = {}
    BY <1>1, <1>n
  <2>2. 0 <= size'
    BY <1>3
  <2>. QED
    BY <2>1, <2>2, <1>1, <1>n DEF Progress
<1>10. Bound'
  BY <1>1, <1>2, <1>n DEF Bound
<1>. QED
  BY <1>4, <1>5, <1>6, <1>7, <1>8, <1>9, <1>10 DEF Inv

LEMMA ServeKeeps ==
    ASSUME Inv, NEW r \in reqs, NEW st \in Stats, Serve(r, st)
    PROVE  Inv'
<1>0. HandleTypes /\ LocalTypes /\ NetTypes /\ ServerTypes
  BY DEF Inv, Types
<1>1. PICK a : /\ reps' = reps \cup {a} /\ a.xid = r.xid /\ a.proc = r.proc /\ a.stat = st
               /\ a.len = IF r.proc = "read" /\ st = "ok" THEN ReadLen(r) ELSE 0
  <2>. DEFINE l == IF r.proc = "read" /\ st = "ok" THEN ReadLen(r) ELSE 0
  <2>1. reps' = reps \cup {[xid |-> r.xid, proc |-> r.proc, stat |-> st, len |-> l]}
    BY Zenon DEF Serve
  <2>. HIDE DEF l
  <2>2. PICK a : a = [xid |-> r.xid, proc |-> r.proc, stat |-> st, len |-> l]
    OBVIOUS
  <2>3. reps' = reps \cup {a} /\ a.xid = r.xid /\ a.proc = r.proc /\ a.stat = st /\ a.len = l
    BY <2>1, <2>2
  <2>. QED
    BY <2>3, Zenon DEF l
<1>2. /\ applied' = IF st = "ok" /\ r.proc # "read" /\ r.xid > first
                    THEN applied \cup Extent(r) ELSE applied
      /\ xid' = xid /\ inuse' = inuse /\ waited' = waited /\ out' = out /\ numfree' = numfree
      /\ xresults' = xresults
      /\ op' = op /\ count' = count /\ asked' = asked /\ pending' = pending /\ eof' = eof
      /\ tot' = tot /\ first' = first
      /\ calling' = calling /\ cwaited' = cwaited /\ refreshes' = refreshes
      /\ res' = res /\ cause' = cause /\ reqs' = reqs /\ size' = size
  BY DEF Serve, handle, locals, callvars, outcome
<1>n. /\ xid \in Nat /\ size \in Nat /\ asked \in Nat /\ asked <= MaxCount /\ MaxCount \in Nat
      /\ r \in Requests /\ r.xid \in Nat /\ r.xid <= xid /\ r.off \in Nat /\ r.cnt \in Nat
      /\ r.proc \in Procs /\ ReadLen(r) \in Nat
  BY <1>0, Numbers, RequestFields, ReadLenFacts DEF NetTypes
<1>3. applied \subseteq applied' /\ applied' \subseteq Bytes
  <2>1. CASE st = "ok" /\ r.proc # "read" /\ r.xid > first
    <3>1. r.off + r.cnt <= asked
      BY <2>1 DEF Inv, Current, Asks
    <3>2. Extent(r) \subseteq Bytes
      BY <3>1, <1>n DEF Extent, Bytes
    <3>. QED
      BY <3>2, <2>1, <1>0, <1>2 DEF ServerTypes
  <2>2. CASE ~(st = "ok" /\ r.proc # "read" /\ r.xid > first)
    BY <2>2, <1>0, <1>2 DEF ServerTypes
  <2>. QED
    BY <2>1, <2>2
<1>4. Types'
  <2>1. HandleTypes' /\ LocalTypes' /\ ServerTypes'
    BY <1>0, <1>2, <1>3 DEF HandleTypes, LocalTypes, ServerTypes
  <2>2. a.xid \in 0 .. xid /\ a.proc \in Procs /\ a.stat \in Stats /\ a.len \in Nat
    BY <1>1, <1>n
  <2>3. NetTypes'
    BY <2>2, <1>0, <1>1, <1>2 DEF NetTypes
  <2>. QED
    BY <2>1, <2>3 DEF Types
<1>5. Used' = Used /\ (Trusted' <=> Trusted) /\ Counted' /\ Abandoned' /\ Bound'
  BY <1>2 DEF Inv, Used, Trusted, Counted, Abandoned, Bound, More
<1>6. Current'
  <2>1. \A z : Asks(z)' <=> Asks(z)
    BY <1>2 DEF Asks, Procedure
  <2>. QED
    BY <2>1, <1>2, <1>5, Zenon DEF Inv, Current
<1>7. ASSUME NEW q, Truth(q) PROVE Truth(q)'
  <2>1. ReadLen(q)' = ReadLen(q)
    BY <1>2 DEF ReadLen, Extent
  <2>2. ASSUME NEW x \in reps', x.xid = q.xid
        PROVE  x.proc = q.proc /\ (x.stat = "ok" => IF q.proc = "read" THEN x.len = ReadLen(q)
                                                    ELSE Extent(q) \subseteq applied')
    <3>1. CASE x \in reps
      BY <3>1, <2>2, <1>7, <1>3 DEF Truth
    <3>2. CASE x = a
      <4>1. r.proc = q.proc /\ r.off = q.off /\ r.cnt = q.cnt /\ r.xid > first
        BY <3>2, <2>2, <1>1, <1>7 DEF Truth
      <4>2. Extent(r) = Extent(q) /\ ReadLen(r) = ReadLen(q)
        BY <4>1 DEF Extent, ReadLen
      <4>. QED
        BY <4>1, <4>2, <3>2, <1>1, <1>2
    <3>. QED
      BY <3>1, <3>2, <1>1, <2>2
  <2>. QED
    BY <2>1, <2>2, <1>2, <1>7 DEF Truth, Extent
<1>8. Pipeline'
  <2>. SUFFICES ASSUME Trusted PROVE Pipeline'
    BY <1>5 DEF Pipeline
  <2>0. /\ SlotCalls /\ SlotsDiffer /\ Covered /\ (op \notin Pipes => pending = 0)
        /\ (Used # {} => xresults = Procedure(op))
    BY DEF Inv, Pipeline
  <2>1. \A s \in Used : Truth(out[s])'
    <3>. SUFFICES ASSUME NEW s \in Used PROVE Truth(out[s])'
      OBVIOUS
    <3>1. PICK q : q = out[s]
      OBVIOUS
    <3>2. Truth(q)'
      BY <3>1, <2>0, <1>7 DEF SlotCalls
    <3>. QED
      BY <3>1, <3>2, <1>2
  <2>2. SlotCalls'
    BY <2>0, <2>1, <1>2, <1>5 DEF SlotCalls, Procedure
  <2>3. SlotsDiffer'
    BY <2>0, <1>2, <1>5 DEF SlotsDiffer, Extent
  <2>4. Arrived' = Arrived
    BY <1>2, <1>5 DEF Arrived, Extent
  <2>5. Covered'
    BY <2>0, <2>4, <1>2, <1>3, <1>5 DEF Covered, Extent
  <2>. QED
    BY <2>0, <2>2, <2>3, <2>5, <1>2, <1>5 DEF Pipeline, Procedure
<1>9. Call'
  <2>. SUFFICES ASSUME calling PROVE Call'
    BY <1>2 DEF Call
  <2>1. op \in Single /\ More /\ out[0] = Request(xid, TRUE) /\ Truth(out[0])
    BY DEF Inv, Call
  <2>2. PICK q : q = out[0]
    OBVIOUS
  <2>3. Truth(q)'
    BY <2>1, <2>2, <1>7
  <2>4. (out[0] = Request(xid, TRUE) /\ op \in Single /\ More)'
    BY <2>1, <1>2 DEF Request, Procedure, More
  <2>. QED
    BY <2>2, <2>3, <2>4, <1>2 DEF Call
<1>10. Progress'
  BY <1>2, <1>3 DEF Inv, Progress
<1>. QED
  BY <1>4, <1>5, <1>6, <1>8, <1>9, <1>10 DEF Inv

----------------------------------------------------------------------------
(* The theorems.                                                           *)

LEMMA InitInv == Init => Inv
<1>. SUFFICES ASSUME Init PROVE Inv
  OBVIOUS
<1>n. MaxCount \in Nat /\ MaxXid \in Nat /\ NumAsync \in Nat /\ NumRPCs \in Nat /\ Rounds \in Nat
      /\ MaxData \in Nat
  BY MaxCountFacts, RpcAssumption
<1>1. Used = {} /\ Cardinality(Used) = 0
  <2>1. Used = {}
    BY DEF Init, Used
  <2>. QED
    BY <2>1, UsedEmpty
<1>2. Types
  <2>1. NoRequest \in Requests
    BY <1>n DEF NoRequest, Requests
  <2>2. HandleTypes
    <3>1. NoRequest.xid = 0
      BY DEF NoRequest
    <3>. QED
      BY <2>1, <3>1, <1>n DEF Init, HandleTypes, Procs
  <2>3. LocalTypes /\ NetTypes /\ ServerTypes
    <3>1. 0 \in 0 .. MaxCount /\ 0 \in 0 .. 0 /\ 0 \in 0 .. NumRPCs /\ 0 \in 0 .. Rounds /\ 0 \in 0 .. 2
      BY <1>n
    <3>2. LocalTypes
      BY <3>1, Zenon DEF Init, LocalTypes, Ops, Causes
    <3>. QED
      BY <3>1, <3>2 DEF Init, NetTypes, ServerTypes
  <2>. QED
    BY <2>2, <2>3 DEF Types
<1>3. Trusted
  BY <1>1 DEF Init, Trusted
<1>4. Counted /\ Current /\ Call /\ Progress /\ Bound
  BY <1>1, <1>n DEF Init, Counted, Current, Call, Progress, Bound, Pipes, Single
<1>5. Pipeline /\ Abandoned
  BY <1>1, <1>3 DEF Init, Pipeline, Abandoned, SlotCalls, SlotsDiffer, Covered
<1>. QED
  BY <1>2, <1>4, <1>5 DEF Inv

LEMMA NextInv == Inv /\ [Next]_vars => Inv'
<1>. SUFFICES ASSUME Inv, [Next]_vars PROVE Inv'
  OBVIOUS
<1>1. CASE Running
  <2>1. CASE MAWriteSend \/ MAReadSend
    BY <2>1, SendPartKeeps DEF MAWriteSend, MAReadSend, Working, Pipes
  <2>2. CASE MAWriteSendFails \/ MAReadSendFails
    BY <2>2, MAWriteSendFailsKeeps, MAReadSendFailsKeeps
  <2>3. CASE PipeResend \/ PipeTimeout \/ PipeEnd
    BY <2>3, PipeResendKeeps, PipeFailsKeep, EndsKeep
  <2>4. CASE CallSend \/ CallResend \/ CallTimeout \/ SingleEnd
    BY <2>4, CallSendKeeps, CallResendKeeps, EndsKeep
  <2>. QED
    BY <1>1, <2>1, <2>2, <2>3, <2>4 DEF Running
<1>2. CASE Receiving
  <2>1. CASE CallAgain \/ CallSendFails \/ PipeSocketFails \/ CallSocketFails
    BY <2>1, CallSendKeeps, PipeFailsKeep, EndsKeep
  <2>2. ASSUME NEW r \in reps,
               \/ PipeBadAnswer(r) \/ MAWriteAnswer(r) \/ MAReadAnswer(r) \/ MAReadIncomplete(r)
               \/ CallRefresh(r) \/ CallBadAnswer(r) \/ CallAnswer(r)
        PROVE  Inv'
    <3>1. CASE PipeBadAnswer(r) \/ MAReadIncomplete(r)
      BY <3>1, PipeFailsKeep
    <3>2. CASE MAWriteAnswer(r)
      BY <3>2, MAWriteAnswerKeeps
    <3>3. CASE MAReadAnswer(r)
      BY <3>3, MAReadAnswerKeeps
    <3>4. CASE CallRefresh(r)
      BY <3>4, CallSendKeeps
    <3>5. CASE CallBadAnswer(r)
      BY <3>5, EndsKeep
    <3>6. CASE CallAnswer(r)
      BY <3>6, CallAnswerKeeps
    <3>. QED
      BY <2>2, <3>1, <3>2, <3>3, <3>4, <3>5, <3>6
  <2>. QED
    BY <1>2, <2>1, <2>2 DEF Receiving
<1>3. CASE Environment
  <2>1. ASSUME NEW o \in {"MAWrite", "MARead", "MWrite", "MRead"}, NEW n \in Counts, Begin(o, n)
        PROVE  Inv'
    <3>1. n \in 1 .. MaxCount /\ o \in Ops \ {"none"}
      BY MaxCountFacts DEF Ops
    <3>. QED
      BY <3>1, <2>1, BeginKeeps
  <2>2. CASE Begin("Proc", 1)
    <3>1. 1 \in 1 .. MaxCount /\ "Proc" \in Ops \ {"none"}
      BY MaxCountFacts DEF Ops
    <3>. QED
      BY <3>1, <2>2, BeginKeeps
  <2>3. ASSUME NEW r \in reqs, NEW st \in {"ok", "err", "denied", "garbled"}, Serve(r, st)
        PROVE  Inv'
    BY <2>3, ServeKeeps DEF Stats
  <2>. QED
    BY <1>3, <2>1, <2>2, <2>3 DEF Environment
<1>4. CASE UNCHANGED vars
  <2>1. /\ xid' = xid /\ inuse' = inuse /\ waited' = waited /\ out' = out /\ numfree' = numfree
        /\ xresults' = xresults
        /\ op' = op /\ count' = count /\ asked' = asked /\ pending' = pending /\ eof' = eof
        /\ tot' = tot /\ first' = first
        /\ calling' = calling /\ cwaited' = cwaited /\ refreshes' = refreshes
        /\ res' = res /\ cause' = cause /\ reqs' = reqs /\ reps' = reps
        /\ applied' = applied /\ size' = size
    BY <1>4 DEF vars, handle, locals, callvars, outcome, net, server
  <2>2. Used' = Used /\ Arrived' = Arrived /\ (Trusted' <=> Trusted)
    BY <2>1 DEF Used, Arrived, Extent, Trusted
  <2>3. \A q : (Truth(q)' <=> Truth(q)) /\ (Asks(q)' <=> Asks(q))
    BY <2>1 DEF Truth, Asks, ReadLen, Extent, Procedure
  <2>4. Types' /\ Counted' /\ Abandoned' /\ Progress' /\ Bound'
    BY <2>1, <2>2 DEF Inv, Types, HandleTypes, LocalTypes, NetTypes, ServerTypes, Counted,
       Abandoned, Progress, Bound, More
  <2>5. Current' /\ Call'
    BY <2>1, <2>2, <2>3 DEF Inv, Current, Call, More, Request, Procedure
  <2>6. SlotCalls' <=> SlotCalls
    BY <2>1, <2>2, <2>3 DEF SlotCalls, Procedure
  <2>7. Pipeline'
    BY <2>1, <2>2, <2>6 DEF Inv, Pipeline, SlotsDiffer, Covered, Extent, Procedure
  <2>. QED
    BY <2>4, <2>5, <2>7 DEF Inv
<1>. QED
  BY <1>1, <1>2, <1>3, <1>4 DEF Next

\* The inductive invariant holds in every state of the client.
THEOREM InvariantHolds == Spec => []Inv
<1>. QED
  BY InitInv, NextInv, PTL DEF Spec

\* The slots of the handle are accounted for whatever datagrams do and
\* whatever operations fail: without an abandoned write, the slots in use are
\* the calls of the running routine, each has its own transaction id, and
\* there is always a slot for its next part (clntaudp_sendsb, clnt_abort).
THEOREM SlotsStayAccounted == Spec => []SlotsAccounted
<1>. QED
  BY InvariantHolds, InvSlots, PTL

\* A read that ends well returned exactly the bytes the file has in the range,
\* whatever the order and the repetitions of the answers (nfs_MARead,
\* nfs_MRead).
THEOREM ReadsStayExact == Spec => []ReadExact
<1>. QED
  BY InvariantHolds, InvReads, PTL

----------------------------------------------------------------------------
(* The client implements Transfer.                                         *)

want == IF op \in {"MAWrite", "MWrite", "Proc"} THEN 0 .. asked - 1 ELSE {}
done == IF op = "none" THEN {} ELSE applied

\* A step that changes nothing a caller sees.
LEMMA Unseen ==
    ASSUME op' = op, asked' = asked, applied' = applied, res' = res, Trusted' <=> Trusted
    PROVE  UNCHANGED Abstract!vars
BY DEF Abstract!vars, Trusted

\* An operation ends badly.
LEMMA FailRefines ==
    ASSUME Inv, op # "none", Return, res' = "failed",
           \/ op = "MAWrite"
           \/ op = "MARead" /\ Trusted'
           \/ op \in Single /\ (Trusted' <=> Trusted)
    PROVE  Abstract!Next
<1>1. op' = "none" /\ want' = {} /\ done' = {}
  BY DEF Return, want, done
<1>2. Abstract!Fail
  BY <1>1 DEF Abstract!Fail, Return, Trusted, want, done, Single
<1>. QED
  BY <1>2 DEF Abstract!Next

LEMMA AbortTrusts ==
    ASSUME Inv, Abort, Return
    PROVE  Trusted'
<1>1. (Used = {})' /\ pending' = 0
  BY AbortFrees DEF Return
<1>2. (Cardinality(Used) = 0 <=> Used = {})'
  BY UsedEmpty, PTL
<1>. QED
  BY <1>1, <1>2 DEF Trusted

\* An operation ends well: everything has been carried out.
LEMMA SuccessRefines ==
    ASSUME Inv, ~More, ~calling, pending = 0, op # "none", Return, res' = "ok", inuse' = inuse
    PROVE  Abstract!Next
<1>0. HandleTypes /\ LocalTypes /\ ServerTypes
  BY DEF Inv, Types
<1>n. asked \in Nat /\ count \in Nat /\ count <= asked /\ op \in Ops /\ asked > 0 /\ pending' = pending
  BY <1>0, Numbers DEF LocalTypes, Inv, Progress, Return
<1>1. op \in {"MWrite", "Proc"} => 0 .. asked - 1 \subseteq applied
  <2>. SUFFICES ASSUME op \in {"MWrite", "Proc"} PROVE 0 .. asked - 1 \subseteq applied
    OBVIOUS
  <2>1. count = 0 /\ 0 .. asked - count - 1 \subseteq applied
    BY <1>n DEF Inv, Progress, More
  <2>2. asked - count - 1 = asked - 1
    BY <2>1, <1>n
  <2>. QED
    BY <2>1, <2>2
<1>2. op = "MAWrite" /\ Trusted => 0 .. asked - 1 \subseteq applied
  <2>. SUFFICES ASSUME op = "MAWrite", Trusted PROVE 0 .. asked - 1 \subseteq applied
    OBVIOUS
  <2>1. count = 0
    BY <1>n DEF Inv, Progress, More
  <2>2. Used = {}
    BY UsedEmpty DEF Trusted
  <2>3. 0 .. asked - count - 1 \subseteq applied
    BY <2>2 DEF Inv, Pipeline, Covered
  <2>4. asked - count - 1 = asked - 1
    BY <2>1, <1>n
  <2>. QED
    BY <2>3, <2>4
<1>3. op = "MARead" => Trusted
  BY <1>n DEF Inv, Abandoned, More
<1>4. Trusted' <=> Trusted
  BY <1>n DEF Trusted, Used
<1>5. op' = "none" /\ want' = {} /\ done' = {}
  BY DEF Return, want, done
<1>6. want \subseteq done \/ (op = "MAWrite" /\ ~Trusted)
  BY <1>1, <1>2 DEF want, done
<1>7. Abstract!Succeed
  BY <1>3, <1>4, <1>5, <1>6 DEF Abstract!Succeed, want, done, Trusted
<1>. QED
  BY <1>7 DEF Abstract!Next

LEMMA BeginRefines ==
    ASSUME Inv, NEW o \in Ops \ {"none"}, NEW n \in 1 .. MaxCount, Begin(o, n)
    PROVE  Abstract!Next
<1>1. /\ op = "none" /\ op' = o /\ asked' = n /\ pending' = 0 /\ applied' = {} /\ res' = "none"
      /\ inuse' = inuse
  BY DEF Begin, handle
<1>2. Trusted' <=> Trusted
  BY <1>1 DEF Inv, Progress, Trusted, Used
<1>3. 0 .. n - 1 \subseteq Bytes
  BY MaxCountFacts DEF Bytes
<1>4. want' \in SUBSET Bytes /\ done' = {}
  BY <1>1, <1>3 DEF want, done
<1>5. o \notin {"MAWrite", "MWrite", "Proc"} => want' = {}
  BY <1>1 DEF want
<1>6. Abstract!Begin
  BY <1>1, <1>2, <1>4, <1>5 DEF Abstract!Begin, Abstract!Ops, Abstract!Asking, want, done, Trusted, Ops
<1>. QED
  BY <1>6 DEF Abstract!Next

LEMMA ServeRefines ==
    ASSUME Inv, NEW r \in reqs, NEW st \in Stats, Serve(r, st)
    PROVE  Abstract!Next
<1>0. HandleTypes /\ LocalTypes /\ NetTypes /\ ServerTypes
  BY DEF Inv, Types
<1>1. /\ applied' = IF st = "ok" /\ r.proc # "read" /\ r.xid > first
                    THEN applied \cup Extent(r) ELSE applied
      /\ op' = op /\ asked' = asked /\ res' = res /\ pending' = pending /\ inuse' = inuse
  BY DEF Serve, handle, locals, outcome
<1>2. PICK u \in SUBSET want : done' = done \cup u
  <2>1. CASE op # "none" /\ st = "ok" /\ r.proc # "read" /\ r.xid > first
    <3>1. r.proc = Procedure(op) /\ r.off + r.cnt <= asked
      BY <2>1 DEF Inv, Current, Asks
    <3>2. op \in {"MAWrite", "MWrite", "Proc"}
      BY <3>1, <2>1, <1>0 DEF Procedure, LocalTypes, Ops
    <3>3. r.off \in Nat /\ r.cnt \in Nat /\ asked \in Nat
      BY <1>0, RequestFields, Numbers DEF NetTypes
    <3>4. Extent(r) \subseteq want
      BY <3>1, <3>2, <3>3 DEF Extent, want
    <3>5. done' = done \cup Extent(r)
      BY <2>1, <1>1 DEF done
    <3>. QED
      BY <3>4, <3>5
  <2>2. CASE ~(op # "none" /\ st = "ok" /\ r.proc # "read" /\ r.xid > first)
    <3>1. done' = done
      BY <2>2, <1>1 DEF done
    <3>2. {} \in SUBSET want /\ done' = done \cup {}
      BY <3>1
    <3>. QED
      BY <3>2
  <2>. QED
    BY <2>1, <2>2
<1>3. want' = want /\ (Trusted' <=> Trusted)
  BY <1>1 DEF want, Trusted, Used
<1>4. Abstract!Store
  BY <1>1, <1>2, <1>3 DEF Abstract!Store, want, done, Trusted
<1>. QED
  BY <1>4 DEF Abstract!Next

LEMMA PipeRefines ==
    ASSUME Inv, op \in Pipes
    PROVE  /\ SendPart \/ PipeResend => UNCHANGED Abstract!vars
           /\ \A r \in reps : MAWriteAnswer(r) \/ MAReadAnswer(r) => UNCHANGED Abstract!vars
           /\ \/ MAWriteSendFails \/ MAReadSendFails \/ PipeTimeout \/ PipeSocketFails
              \/ \E r \in reps : PipeBadAnswer(r) \/ MAReadIncomplete(r)
              => Abstract!Next
           /\ PipeEnd => Abstract!Next
<1>0. op # "none" /\ ~calling
  BY DEF Inv, Call, Pipes, Single
<1>1. ASSUME SendPart PROVE UNCHANGED Abstract!vars
  <2>1. /\ op' = op /\ asked' = asked /\ applied' = applied /\ res' = res /\ pending' = pending + 1
    BY <1>1 DEF SendPart, outcome, server
  <2>2. Cardinality(Used)' = Cardinality(Used) + 1
    BY <1>1, PartFacts
  <2>3. Trusted' <=> Trusted
    BY <2>1, <2>2, UsedFinite, Numbers DEF Trusted, Inv, Types
  <2>. QED
    BY <2>1, <2>3, Unseen
<1>2. ASSUME PipeResend PROVE UNCHANGED Abstract!vars
  <2>1. /\ op' = op /\ asked' = asked /\ applied' = applied /\ res' = res /\ pending' = pending
        /\ inuse' = inuse
    BY <1>2 DEF PipeResend, locals, outcome, server
  <2>. QED
    BY <2>1, Unseen DEF Trusted, Used
<1>3. ASSUME NEW r \in reps, MAWriteAnswer(r) \/ MAReadAnswer(r) PROVE UNCHANGED Abstract!vars
  <2>1. /\ MustWait /\ Answers(r) # {} /\ "ok" \in Decoded(r, xresults)
        /\ FreeSlot(LeastOf(Answers(r))) /\ pending' = pending - 1
        /\ UNCHANGED <<op, count, asked, first, callvars, outcome, reps, server>>
    BY <1>3 DEF MAWriteAnswer, MAReadAnswer
  <2>2. Trusted' <=> Trusted
    BY <2>1, ReleaseKeeps
  <2>. QED
    BY <2>1, <2>2, Unseen DEF outcome, server
<1>4. ASSUME MAWriteSendFails PROVE Abstract!Next
  BY <1>0, <1>4, FailRefines DEF MAWriteSendFails, Working, Fail
<1>5. ASSUME Abort, NEW why, Fail(why) PROVE Abstract!Next
  <2>1. Return /\ res' = "failed"
    BY <1>5 DEF Fail
  <2>2. Trusted'
    BY <2>1, <1>5, AbortTrusts
  <2>. QED
    BY <2>1, <2>2, <1>0, FailRefines DEF Pipes
<1>6. ASSUME \/ MAReadSendFails \/ PipeTimeout \/ PipeSocketFails
             \/ \E r \in reps : PipeBadAnswer(r) \/ MAReadIncomplete(r)
      PROVE  Abstract!Next
  <2>1. Abort /\ \E why : Fail(why)
    BY <1>6 DEF MAReadSendFails, PipeTimeout, PipeSocketFails, PipeBadAnswer, MAReadIncomplete
  <2>. QED
    BY <2>1, <1>5
<1>7. ASSUME PipeEnd PROVE Abstract!Next
  BY <1>0, <1>7, SuccessRefines DEF PipeEnd, Succeed, handle
<1>. QED
  BY <1>1, <1>2, <1>3, <1>4, <1>6, <1>7

LEMMA CallRefines ==
    ASSUME Inv
    PROVE  /\ CallSend \/ CallResend \/ CallAgain => UNCHANGED Abstract!vars
           /\ \A r \in reps : CallRefresh(r) \/ CallAnswer(r) => UNCHANGED Abstract!vars
           /\ CallSendFails \/ CallTimeout \/ CallSocketFails => Abstract!Next
           /\ \A r \in reps : CallBadAnswer(r) => Abstract!Next
           /\ SingleEnd => Abstract!Next
<1>1. ASSUME CallSend \/ CallResend \/ CallAgain PROVE UNCHANGED Abstract!vars
  <2>1. /\ op' = op /\ asked' = asked /\ applied' = applied /\ res' = res /\ pending' = pending
        /\ inuse' = inuse
    BY <1>1 DEF CallSend, CallResend, CallAgain, EncodeCall, handle, locals, outcome, server
  <2>. QED
    BY <2>1, Unseen DEF Trusted, Used
<1>2. ASSUME NEW r \in reps, CallRefresh(r) \/ CallAnswer(r) PROVE UNCHANGED Abstract!vars
  <2>1. /\ op' = op /\ asked' = asked /\ applied' = applied /\ res' = res /\ pending' = pending
        /\ inuse' = inuse
    BY <1>2 DEF CallRefresh, CallAnswer, EncodeCall, handle, locals, outcome, server
  <2>. QED
    BY <2>1, Unseen DEF Trusted, Used
<1>3. ASSUME op \in Single, Return, res' = "failed", inuse' = inuse PROVE Abstract!Next
  <2>1. pending = 0 /\ pending' = 0 /\ op # "none"
    BY <1>3 DEF Inv, Progress, Return, Single
  <2>2. Trusted' <=> Trusted
    BY <2>1, <1>3 DEF Trusted, Used
  <2>. QED
    BY <2>1, <2>2, <1>3, FailRefines
<1>4. ASSUME CallSendFails \/ CallTimeout \/ CallSocketFails PROVE Abstract!Next
  <2>1. Return /\ res' = "failed" /\ inuse' = inuse
    BY <1>4 DEF CallSendFails, CallTimeout, CallSocketFails, Fail, EncodeCall, handle
  <2>2. op \in Single
    BY <1>4 DEF CallSendFails, CallTimeout, CallSocketFails, Inv, Call
  <2>. QED
    BY <2>1, <2>2, <1>3
<1>5. ASSUME NEW r \in reps, CallBadAnswer(r) PROVE Abstract!Next
  <2>1. Return /\ res' = "failed" /\ inuse' = inuse /\ op \in Single
    BY <1>5 DEF CallBadAnswer, Fail, handle, Inv, Call
  <2>. QED
    BY <2>1, <1>3
<1>6. ASSUME SingleEnd PROVE Abstract!Next
  <2>1. op \in Single /\ ~More /\ ~calling /\ Return /\ res' = "ok" /\ inuse' = inuse
    BY <1>6 DEF SingleEnd, Succeed, handle
  <2>2. pending = 0 /\ op # "none"
    BY <2>1 DEF Inv, Progress, Single
  <2>. QED
    BY <2>1, <2>2, SuccessRefines
<1>. QED
  BY <1>1, <1>2, <1>4, <1>5, <1>6

LEMMA NextRefines == Inv /\ [Next]_vars => [Abstract!Next]_(Abstract!vars)
<1>. SUFFICES ASSUME Inv, [Next]_vars PROVE Abstract!Next \/ UNCHANGED Abstract!vars
  OBVIOUS
<1>1. CASE Running
  <2>1. CASE MAWriteSend \/ MAReadSend
    BY <2>1, PipeRefines DEF MAWriteSend, MAReadSend, Working, Pipes
  <2>2. CASE MAWriteSendFails \/ MAReadSendFails \/ PipeResend \/ PipeTimeout \/ PipeEnd
    <3>1. op \in Pipes
      BY <2>2 DEF MAWriteSendFails, MAReadSendFails, PipeResend, PipeTimeout, PipeEnd, Working, Pipes
    <3>. QED
      BY <2>2, <3>1, PipeRefines
  <2>3. CASE CallSend \/ CallResend \/ CallTimeout \/ SingleEnd
    BY <2>3, CallRefines
  <2>. QED
    BY <1>1, <2>1, <2>2, <2>3 DEF Running
<1>2. CASE Receiving
  <2>1. CASE CallAgain \/ CallSendFails \/ CallSocketFails
    BY <2>1, CallRefines
  <2>2. CASE PipeSocketFails
    BY <2>2, PipeRefines DEF PipeSocketFails, Pipes
  <2>3. ASSUME NEW r \in reps,
               PipeBadAnswer(r) \/ MAWriteAnswer(r) \/ MAReadAnswer(r) \/ MAReadIncomplete(r)
        PROVE  Abstract!Next \/ UNCHANGED Abstract!vars
    <3>1. op \in Pipes
      BY <2>3 DEF PipeBadAnswer, MAWriteAnswer, MAReadAnswer, MAReadIncomplete, Working, Pipes
    <3>. QED
      BY <2>3, <3>1, PipeRefines
  <2>4. ASSUME NEW r \in reps, CallRefresh(r) \/ CallBadAnswer(r) \/ CallAnswer(r)
        PROVE  Abstract!Next \/ UNCHANGED Abstract!vars
    BY <2>4, CallRefines
  <2>. QED
    BY <1>2, <2>1, <2>2, <2>3, <2>4 DEF Receiving
<1>3. CASE Environment
  <2>1. ASSUME NEW o \in {"MAWrite", "MARead", "MWrite", "MRead"}, NEW n \in Counts, Begin(o, n)
        PROVE  Abstract!Next
    <3>1. n \in 1 .. MaxCount /\ o \in Ops \ {"none"}
      BY MaxCountFacts DEF Ops
    <3>. QED
      BY <3>1, <2>1, BeginRefines
  <2>2. CASE Begin("Proc", 1)
    <3>1. 1 \in 1 .. MaxCount /\ "Proc" \in Ops \ {"none"}
      BY MaxCountFacts DEF Ops
    <3>. QED
      BY <3>1, <2>2, BeginRefines
  <2>3. ASSUME NEW r \in reqs, NEW st \in {"ok", "err", "denied", "garbled"}, Serve(r, st)
        PROVE  Abstract!Next
    BY <2>3, ServeRefines DEF Stats
  <2>. QED
    BY <1>3, <2>1, <2>2, <2>3 DEF Environment
<1>4. CASE UNCHANGED vars
  <2>1. /\ op' = op /\ asked' = asked /\ applied' = applied /\ res' = res /\ pending' = pending
        /\ inuse' = inuse
    BY <1>4 DEF vars, handle, locals, outcome, server
  <2>. QED
    BY <2>1, Unseen DEF Trusted, Used
<1>. QED
  BY <1>1, <1>2, <1>3, <1>4 DEF Next

LEMMA InitRefines == Init => Abstract!Init
<1>. SUFFICES ASSUME Init PROVE Abstract!Init
  OBVIOUS
<1>1. Used = {} /\ Cardinality(Used) = 0
  <2>1. Used = {}
    BY DEF Init, Used
  <2>. QED
    BY <2>1, UsedEmpty
<1>. QED
  BY <1>1 DEF Init, Abstract!Init

\* The client implements Transfer: a routine that reports success has had all
\* of its calls carried out by the server, unless it is a pipelined write
\* behind an abandoned one, and only a pipelined write leaves calls behind.
THEOREM ClientImplementsTransfer == Spec => AnswersHonest
<1>. QED
  BY InvariantHolds, InitRefines, NextRefines, PTL DEF Spec, AnswersHonest, Abstract!Spec
=============================================================================
