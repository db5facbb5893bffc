------------------------------- MODULE DirScan ------------------------------
(***************************************************************************)
(* Scans of one directory (examine.c) and the handles they keep between    *)
(* two packets (dirs.c).                                                   *)
(*                                                                         *)
(* A program that uses EXAMINE_NEXT brings back only a FileInfoBlock: the  *)
(* handler finds the handle (EDH) of the scan by the file id and the name  *)
(* it has put there.  Programs that stand on the same entry cannot be told *)
(* apart, and a program that gives up never says so.  A program that uses  *)
(* EXAMINE_ALL brings back the address of the handle.                      *)
(*                                                                         *)
(* An entry is its slot in the directory of the server, which is its NFS   *)
(* cookie too, and stands for the pair of file id and name in a            *)
(* FileInfoBlock.  Slot 0 is the directory itself.  Packets run one after  *)
(* the other, but at any time others create and remove files: other        *)
(* clients between two calls of one packet, and programs of this machine   *)
(* between two packets.  A handle keeps the list it has read; so scans     *)
(* that trade their handles (dirs.c:121 takes the newest) trade what the   *)
(* directory held at two different times.                                  *)
(***************************************************************************)
EXTENDS Integers, Sequences, FiniteSets

CONSTANTS
    NumSlots,   \* places for entries in the directory
    Spare,      \* the slots that are free at the beginning
    Dots,       \* the slots of "." and ".."
    Longs,      \* slots of names longer than g_MaxFileNameLen
    Matching,   \* slots of names the pattern of EXAMINE_ALL matches
    NextProgs,  \* programs that scan with EXAMINE_NEXT
    AllProgs,   \* programs that scan with EXAMINE_ALL
    Chunk,      \* entries in one answer to READDIR: ng_MaxReadDirSize
    Room,       \* entries that fit into the buffer of EXAMINE_ALL
    MaxScans,   \* bound: scans that are started
    MaxChanges, \* bound: files that others create or remove
    MaxFaults   \* bound: calls and allocations that fail

ASSUME DirScanAssumption ==
    /\ NumSlots \in Nat
    /\ Dots \subseteq 1 .. NumSlots /\ Longs \subseteq 1 .. NumSlots
    /\ Spare \subseteq (1 .. NumSlots) \ Dots /\ Matching \subseteq 1 .. NumSlots
    /\ NextProgs \cap AllProgs = {}
    /\ IsFiniteSet(NextProgs) /\ IsFiniteSet(AllProgs)
    /\ Chunk \in Nat \ {0} /\ Room \in Nat \ {0}
    /\ MaxScans \in Nat /\ MaxChanges \in Nat /\ MaxFaults \in Nat

Slots == 1 .. NumSlots
Root == 0                   \* what EXAMINE_OBJECT leaves in the FileInfoBlock
NoName == NumSlots + 1      \* the name of a handle of EXAMINE_ALL
Progs == NextProgs \cup AllProgs
Addrs == 1 .. MaxScans   \* no more handles than scans
NoAddr == 0

VARIABLES
    present,    \* slots of the entries the server has
    DH,         \* g_DH, the newest handle first
    scan,       \* per program: "none", "on", "ended" or "failed"
    fib,        \* per program of NextProgs: its FileInfoBlock
    lastkey,    \* per program of AllProgs: eac_LastKey
    pkt,        \* the packet that runs: program, index of its handle, step, room
    got,        \* per program: the entries its scan returned, in order
    stable,     \* per program: entries that were there all through its scan
    cut,        \* per program: a failure was reported as the end
    abandoned,  \* scans that were given up
    started, changes, faults

srv == <<present, changes>>
ghosts == <<stable, cut, abandoned>>
vars == <<srv, DH, scan, fib, lastkey, pkt, got, ghosts, started, faults>>

NoPacket == [prog |-> "nobody", edh |-> 0, step |-> "none", room |-> 0]
Skipped == Dots \cup Longs

----------------------------------------------------------------------------
(* dirs.c                                                                  *)

dir_Create(addr, name) ==
    [addr |-> addr, name |-> name, cookie |-> 0, entries |-> <<>>, eof |-> FALSE]

dir_Insert(edh) == <<edh>> \o DH

\* The first hit on the way through the list of handles, or 0.
FirstOf(hits) ==
    IF hits = {} THEN 0 ELSE CHOOSE i \in hits : \A j \in hits : i <= j

dir_LookupFromKeyAndCookieAndCBSTR(name) ==
    FirstOf({i \in 1 .. Len(DH) : DH[i].name = name})

dir_LookupFromAddress(addr) ==
    FirstOf({i \in 1 .. Len(DH) : DH[i].addr = addr})

dir_Remove(i) == SubSeq(DH, 1, i - 1) \o SubSeq(DH, i + 1, Len(DH))

Edh == DH[pkt.edh]      \* the handle of the packet

----------------------------------------------------------------------------
(* The server: entries after a cookie, in the order of the directory.      *)

After(cookie) == {s \in present : s > cookie}

\* The answers to a READDIR: as many of these entries as it may hold, none
\* left out between them.
Replies(cookie) ==
    LET rest == After(cookie)
        n == IF Cardinality(rest) < Chunk THEN Cardinality(rest) ELSE Chunk
    IN  {r \in [1 .. n -> rest] :
            /\ \A i, j \in 1 .. n : i < j => r[i] < r[j]
            /\ \A s \in rest : \/ \E i \in 1 .. n : r[i] = s
                              \/ \A i \in 1 .. n : r[i] < s}

\* An answer with all the rest may carry the mark of the end or leave it
\* to a further, empty answer.
MayEof(cookie, reply) ==
    IF Len(reply) < Cardinality(After(cookie)) THEN {FALSE}
    ELSE IF reply = <<>> THEN {TRUE} ELSE BOOLEAN

\* The number of entries at the head of an answer that both scans skip:
\* "." and "..", and names that are too long.  Only the head is looked at.
Leading(reply) ==
    CHOOSE n \in 0 .. Len(reply) :
        /\ \A i \in 1 .. n : reply[i] \in Skipped
        /\ n < Len(reply) => reply[n + 1] \notin Skipped

----------------------------------------------------------------------------
(* The end of a packet.                                                    *)

Finish(p, how) ==
    /\ pkt' = NoPacket
    /\ scan' = [scan EXCEPT ![p] = how]

\* The handle goes, the program is told the end or an error.
FinishRemove(p, how) == Finish(p, how) /\ DH' = dir_Remove(pkt.edh)

Fault == faults < MaxFaults /\ faults' = faults + 1

----------------------------------------------------------------------------
(* Packets arrive.                                                         *)

\* A scan that goes on with the handle will come to the entry: it is behind,
\* or in the list, or has still to be read.
Covers(h, s) ==
    \/ s <= h.name
    \/ \E k \in 1 .. Len(h.entries) : h.entries[k] = s
    \/ ~h.eof /\ s > h.cookie /\ \A k \in 1 .. Len(h.entries) : h.entries[k] < s

\* The entries a new scan has to return: those that are there, but for the
\* ones missing in a list that was read before and that the scan may be
\* handed.  EXAMINE_ALL is handed nothing.
Known(p) ==
    {s \in present : p \in NextProgs =>
        \A i \in 1 .. Len(DH) : DH[i].name # NoName => Covers(DH[i], s)}

\* do_act_EXAMINE_OBJECT before a scan with EXAMINE_NEXT, the clearing of
\* eac_LastKey before one with EXAMINE_ALL.  A scan that is still on is
\* given up.
Start(p) ==
    /\ pkt = NoPacket /\ started < MaxScans
    /\ started' = started + 1
    /\ abandoned' = abandoned + (IF scan[p] = "on" THEN 1 ELSE 0)
    /\ scan' = [scan EXCEPT ![p] = "on"]
    /\ fib' = IF p \in NextProgs THEN [fib EXCEPT ![p] = Root] ELSE fib
    /\ lastkey' = IF p \in AllProgs THEN [lastkey EXCEPT ![p] = NoAddr] ELSE lastkey
    /\ got' = [got EXCEPT ![p] = <<>>]
    /\ stable' = [stable EXCEPT ![p] = Known(p)]
    /\ cut' = [cut EXCEPT ![p] = FALSE]
    /\ UNCHANGED <<srv, DH, pkt, faults>>

\* act_EXAMINE_NEXT with a handle found or made: entries are left, or the
\* list is empty and more must be read, or it was the last list.
WithHandle(p, i, dh) ==
    /\ DH' = IF dh[i].entries = <<>> /\ dh[i].eof THEN dir_Remove(i) ELSE dh
    /\ IF dh[i].entries = <<>> /\ dh[i].eof
       THEN Finish(p, "ended")
       ELSE /\ pkt' = [prog |-> p, edh |-> i, room |-> Room,
                       step |-> IF dh[i].entries = <<>> THEN "read" ELSE "take"]
            /\ UNCHANGED scan

\* AllocVec, external: an address that was freed is used again at once.
AllocVec ==
    LET free == Addrs \ {DH[i].addr : i \in 1 .. Len(DH)}
    IN  CHOOSE a \in free : \A b \in free : a <= b

act_EXAMINE_NEXT(p) ==
    LET i == dir_LookupFromKeyAndCookieAndCBSTR(fib[p])
    IN  /\ p \in NextProgs /\ pkt = NoPacket /\ scan[p] = "on"
        /\ \/ /\ i # 0
              /\ WithHandle(p, i, DH)
              /\ UNCHANGED faults
           \/ \* an illegal FileInfoBlock
              /\ i = 0 /\ fib[p] # Root
              /\ Finish(p, "ended")
              /\ UNCHANGED <<DH, faults>>
           \/ /\ i = 0 /\ fib[p] = Root
              /\ WithHandle(p, 1, dir_Insert(dir_Create(AllocVec, Root)))
              /\ UNCHANGED faults
           \/ /\ i = 0 /\ fib[p] = Root
              /\ Fault
              /\ Finish(p, "failed")
              /\ UNCHANGED DH
        /\ UNCHANGED <<srv, fib, lastkey, got, ghosts, started>>

act_EXAMINE_ALL(p) ==
    LET i == dir_LookupFromAddress(lastkey[p])
    IN  /\ p \in AllProgs /\ pkt = NoPacket /\ scan[p] = "on"
        /\ \/ /\ lastkey[p] # NoAddr /\ i # 0
              /\ WithHandle(p, i, DH)
              /\ UNCHANGED <<lastkey, faults>>
           \/ \* an illegal eac_LastKey
              /\ lastkey[p] # NoAddr /\ i = 0
              /\ Finish(p, "ended")
              /\ UNCHANGED <<DH, lastkey, faults>>
           \/ /\ lastkey[p] = NoAddr
              /\ WithHandle(p, 1, dir_Insert(dir_Create(AllocVec, NoName)))
              /\ lastkey' = [lastkey EXCEPT ![p] = AllocVec]
              /\ UNCHANGED faults
           \/ /\ lastkey[p] = NoAddr
              /\ Fault
              /\ Finish(p, "failed")
              /\ UNCHANGED <<DH, lastkey>>
        /\ UNCHANGED <<srv, fib, got, ghosts, started>>

----------------------------------------------------------------------------
(* The READDIR call of act_EXAMINE_NEXT and of GetNextEntries.             *)

Reading(p) == pkt.step = "read" /\ pkt.prog = p

SkipTo(reply, n, cookie) == IF n = 0 THEN cookie ELSE reply[n]

\* An answer that leaves something after its head was skipped: the rest is
\* copied into the handle.  One that was skipped whole is followed by
\* another call (nextdir), or is the end.
ReadDir(p) ==
    /\ Reading(p)
    /\ \E reply \in Replies(Edh.cookie) : \E eof \in MayEof(Edh.cookie, reply) :
          LET n == Leading(reply)
              rest == SubSeq(reply, n + 1, Len(reply))
          IN  \/ /\ rest = <<>> /\ eof
                 /\ FinishRemove(p, "ended")
              \/ /\ ~(rest = <<>> /\ eof)
                 /\ DH' = [DH EXCEPT ![pkt.edh] =
                              [Edh EXCEPT !.cookie = SkipTo(reply, n, Edh.cookie),
                                          !.entries = rest, !.eof = eof]]
                 /\ pkt' = IF rest = <<>> THEN pkt ELSE [pkt EXCEPT !.step = "take"]
                 /\ UNCHANGED scan
    /\ UNCHANGED <<srv, fib, lastkey, got, ghosts, started, faults>>

\* The server refuses, or the call fails.  A failed call has a code above
\* 1000, which both scans turn into ERROR_NO_MORE_ENTRIES.
ReadDirFails(p) ==
    /\ Reading(p) /\ Fault
    /\ \E rpc \in BOOLEAN :
          /\ FinishRemove(p, IF rpc THEN "ended" ELSE "failed")
          /\ cut' = [cut EXCEPT ![p] = rpc]
    /\ UNCHANGED <<srv, fib, lastkey, got, stable, abandoned, started>>

\* There is no memory for the copy: act_EXAMINE_NEXT overwrites that error
\* when the answer carried the mark of the end, GetNextEntries does not.
DupEntriesFails(p) ==
    /\ Reading(p) /\ Fault
    /\ \E reply \in Replies(Edh.cookie) : \E eof \in MayEof(Edh.cookie, reply) :
          LET masked == eof /\ p \in NextProgs
          IN  /\ Leading(reply) < Len(reply)
              /\ FinishRemove(p, IF masked THEN "ended" ELSE "failed")
              /\ cut' = [cut EXCEPT ![p] = masked]
    /\ UNCHANGED <<srv, fib, lastkey, got, stable, abandoned, started>>

----------------------------------------------------------------------------
(* The next entry of the handle: LookupAttr, then the answer.              *)

Taking(p) == pkt.step = "take" /\ pkt.prog = p
Entry == Head(Edh.entries)

\* The handle after dir_RemHeadEntry.
Removed == [Edh EXCEPT !.entries = Tail(@)]

\* Mutant: the handle keeps the name of the entry before.
AdvanceNoName == [Removed EXCEPT !.cookie = Entry]

\* Mutant: the cookie of the handle is not moved.
AdvanceNoCookie == [Removed EXCEPT !.name = Entry]

\* ... and standing on the entry that is returned.
Advance == [Removed EXCEPT !.cookie = Entry, !.name = Entry]

TakeNext(p) ==
    /\ p \in NextProgs /\ Taking(p)
    /\ DH' = [DH EXCEPT ![pkt.edh] = Advance]
    /\ fib' = [fib EXCEPT ![p] = Entry]
    /\ got' = [got EXCEPT ![p] = Append(@, Entry)]
    /\ pkt' = NoPacket
    /\ UNCHANGED <<srv, scan, lastkey, ghosts, started, faults>>

\* The attributes of a removed file may be cached; those of a file that is
\* there are not found only if the call fails.
LookupFails == IF Entry \in present THEN Fault ELSE UNCHANGED faults

\* The entry is gone from the handle, which stays where it was; the program
\* gets an error and may call again.  No scan that may be handed the handle
\* has to return the entry.
TakeNextFails(p) ==
    /\ p \in NextProgs /\ Taking(p) /\ LookupFails
    /\ DH' = [DH EXCEPT ![pkt.edh] = Removed]
    /\ stable' = [q \in Progs |-> IF q \in NextProgs THEN stable[q] \ {Entry}
                                 ELSE stable[q]]
    /\ pkt' = NoPacket
    /\ UNCHANGED <<srv, scan, fib, lastkey, got, cut, abandoned, started>>

\* The loop goes on after an entry: with the next one, with GetNextEntries,
\* or not at all after the last list.
PassEntry(p, room) ==
    /\ IF Tail(Edh.entries) = <<>> /\ Edh.eof
       THEN FinishRemove(p, "ended")
       ELSE /\ DH' = [DH EXCEPT ![pkt.edh] = [Removed EXCEPT !.cookie = Entry]]
            /\ pkt' = [pkt EXCEPT !.room = room,
                          !.step = IF Tail(Edh.entries) = <<>> THEN "read" ELSE "take"]
            /\ UNCHANGED scan
    /\ UNCHANGED <<srv, fib, lastkey, ghosts, started, faults>>

\* The entry matches, has attributes and fits into the buffer.
TakeAll(p) ==
    /\ p \in AllProgs /\ Taking(p) /\ Entry \in Matching /\ pkt.room > 0
    /\ got' = [got EXCEPT ![p] = Append(@, Entry)]
    /\ PassEntry(p, pkt.room - 1)

PassUnmatched(p) ==
    /\ p \in AllProgs /\ Taking(p) /\ Entry \notin Matching
    /\ PassEntry(p, pkt.room)
    /\ UNCHANGED got

\* Mutant: the loop does not end with a full buffer.
TakeAllFullGoesOn(p) ==
    /\ p \in AllProgs /\ Taking(p) /\ Entry \in Matching /\ pkt.room = 0
    /\ UNCHANGED vars

\* The buffer is full: the entry stays at the head of the handle.
TakeAllFull(p) ==
    /\ p \in AllProgs /\ Taking(p) /\ Entry \in Matching /\ pkt.room = 0
    /\ pkt' = NoPacket
    /\ UNCHANGED <<srv, DH, scan, fib, lastkey, got, ghosts, started, faults>>

\* A lookup fails, also after a second try with the caches unlocked.
TakeAllFails(p) ==
    /\ p \in AllProgs /\ Taking(p) /\ Entry \in Matching /\ LookupFails
    /\ FinishRemove(p, "failed")
    /\ UNCHANGED <<srv, fib, lastkey, got, ghosts, started>>

----------------------------------------------------------------------------
(* Others create and remove files.  A new entry takes any free slot, also  *)
(* one a scan has passed.                                                  *)

Change ==
    /\ changes < MaxChanges
    /\ changes' = changes + 1
    /\ UNCHANGED <<DH, scan, fib, lastkey, pkt, got, cut, abandoned, started, faults>>

ServerCreate(s) ==
    /\ s \in Slots \ present
    /\ present' = present \cup {s}
    /\ UNCHANGED stable
    /\ Change

ServerRemove(s) ==
    /\ s \in present \ Dots
    /\ present' = present \ {s}
    /\ stable' = [p \in Progs |-> stable[p] \ {s}]
    /\ Change

----------------------------------------------------------------------------

Init ==
    /\ present = Slots \ Spare
    /\ DH = <<>>
    /\ scan = [p \in Progs |-> "none"]
    /\ fib = [p \in NextProgs |-> Root]
    /\ lastkey = [p \in AllProgs |-> NoAddr]
    /\ pkt = NoPacket
    /\ got = [p \in Progs |-> <<>>]
    /\ stable = [p \in Progs |-> {}]
    /\ cut = [p \in Progs |-> FALSE]
    /\ abandoned = 0 /\ started = 0 /\ changes = 0 /\ faults = 0

\* What the handler and the programs that scan do by themselves.
Step(p) ==
    \/ act_EXAMINE_NEXT(p) \/ act_EXAMINE_ALL(p)
    \/ ReadDir(p) \/ ReadDirFails(p) \/ DupEntriesFails(p)
    \/ TakeNext(p) \/ TakeNextFails(p)
    \/ TakeAll(p) \/ PassUnmatched(p) \/ TakeAllFull(p) \/ TakeAllFails(p)

Next ==
    \/ \E p \in Progs : Start(p) \/ Step(p)
    \/ \E s \in Slots : ServerCreate(s) \/ ServerRemove(s)

Spec == Init /\ [][Next]_vars

\* While a scan is on, some program asks for more or the packet that runs
\* goes on; which program comes first is left open.
FairSpec == Spec /\ WF_vars(\E p \in Progs : Step(p))

----------------------------------------------------------------------------
(* Properties.                                                             *)

TypeOK ==
    /\ present \subseteq Slots
    /\ \A i \in 1 .. Len(DH) :
          /\ DH[i].addr \in Addrs /\ DH[i].name \in 0 .. NoName
          /\ DH[i].cookie \in 0 .. NumSlots /\ DH[i].eof \in BOOLEAN
          /\ \A k \in 1 .. Len(DH[i].entries) : DH[i].entries[k] \in Slots
    /\ scan \in [Progs -> {"none", "on", "ended", "failed"}]
    /\ fib \in [NextProgs -> 0 .. NumSlots]
    /\ lastkey \in [AllProgs -> Addrs \cup {NoAddr}]
    /\ pkt.step \in {"none", "read", "take"} /\ pkt.room \in 0 .. Room
    /\ pkt.step # "none" => pkt.edh \in 1 .. Len(DH)
    /\ pkt.step = "take" => Edh.entries # <<>>

\* The programs on an entry never outnumber the handles on it, and the
\* handle whose address a program of EXAMINE_ALL brings back is its own:
\* a scan is not cut short as illegal because another one took its handle.
EachScanHasHandle ==
    /\ \A s \in Slots :
          Cardinality({p \in NextProgs : scan[p] = "on" /\ fib[p] = s})
              <= Cardinality({i \in 1 .. Len(DH) : DH[i].name = s})
    /\ \A p \in AllProgs :
          scan[p] = "on" /\ lastkey[p] # NoAddr =>
              /\ \E i \in 1 .. Len(DH) : DH[i].addr = lastkey[p] /\ DH[i].name = NoName
              /\ \A q \in AllProgs \ {p} : scan[q] = "on" => lastkey[q] # lastkey[p]

\* Handles are only left behind by programs that gave up a scan: the ends
\* and the errors that end a scan free its handle.
HandlesAccounted ==
    Len(DH) <= abandoned + Cardinality({p \in Progs : scan[p] = "on"})

Wanted(p) == IF p \in AllProgs THEN Matching ELSE Slots

\* A scan that was told the end, and not because a call failed, returned
\* every ordinary file that was there all the time and was in no way missed
\* before: neither by a list that was read before the scan began and was
\* still kept, nor by a failed lookup, in this scan or in another one that
\* handed its handle over.  And no scan returns an entry twice.
ScanExact ==
    \A p \in Progs :
        /\ \A i, j \in 1 .. Len(got[p]) : i # j => got[p][i] # got[p][j]
        /\ scan[p] = "ended" /\ ~cut[p] =>
              \A s \in (stable[p] \ Skipped) \cap Wanted(p) :
                  \E i \in 1 .. Len(got[p]) : got[p][i] = s

\* The scans come to their ends while their programs keep asking: no packet
\* reads the same part of the directory for ever, and no program is given
\* the same entries again and again.
ScanEnds == []<>(\A p \in Progs : scan[p] # "on")

\* Every scan keeps a handle of its own, and no handle outlives its scan
\* unless the program gave the scan up.
HandlesExact == TypeOK /\ EachScanHasHandle /\ HandlesAccounted
=============================================================================
