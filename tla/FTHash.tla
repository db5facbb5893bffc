------------------------------- MODULE FTHash -------------------------------
(***************************************************************************)
(* The generic cache with timeouts (common/fthash.c) under the attribute   *)
(* cache (attrs.c) and the directory cache (dcache.c).                     *)
(*                                                                         *)
(* A packet works with pointers to cached values.  The first successful    *)
(* lookup locks the table (tht_LockCnt > 0); from then on a value that     *)
(* dies is parked in tht_LockedEntries until fthash_UnLockAll, at the end  *)
(* of the packet, frees it.  The hash lists are abstracted to a set: which *)
(* entries UnLockAll evicts depends on the clock and on the use of the     *)
(* lists, and is any choice here.                                          *)
(***************************************************************************)
EXTENDS Integers, FiniteSets

CONSTANTS
    Keys,                \* file ids
    Vals,                \* identities of the cached values
    MaxTTL,              \* bound of tht_TTL, which IOCONTROL changes
    MaxSize,             \* bound of tht_MaxEntries, which MORE_CACHE changes
    Slack,               \* entries above tht_MaxEntries until UnLockAll (10)
    MaxTime              \* bound of the clock

ASSUME FTHashAssumption ==
    /\ MaxTTL \in Nat /\ MaxSize \in Nat \ {0}
    /\ Slack \in Nat \ {0} /\ MaxTime \in Nat

VARIABLES
    table,               \* the entries of all hash lists
    parked,              \* the values in tht_LockedEntries
    nfree,               \* length of tht_FreeEntries
    numEntries,          \* tht_NumEntries
    locked,              \* tht_LockCnt > 0
    maxEntries, ttl,     \* tht_MaxEntries, tht_TTL
    now, started,        \* the clock, and its value when the packet started
    found, inserted      \* values the packet got from Lookup and from Insert

packet == <<found, inserted, started>>
config == <<maxEntries, ttl>>
vars == <<table, parked, nfree, numEntries, locked, maxEntries, ttl, now,
          started, found, inserted>>

Entry == [key : Keys, birth : 0 .. MaxTTL + MaxTime, val : Vals]

Live == {e.val : e \in table} \cup parked

\* fthash_Now counts seconds since 1978 and is far beyond every timeout, so
\* that dead = now - tht_TTL does not wrap: Init starts it there.
IsDead(e) == now - ttl > e.birth

Larger(a, b) == IF a < b THEN b ELSE a

Smaller(a, b) == IF a < b THEN a ELSE b

-----------------------------------------------------------------------------
\* The first entry of a hash list with this key is looked at and no other.
LookupHit(e) ==
    /\ ~IsDead(e)
    /\ locked' = TRUE
    /\ found' = found \cup {e.val}
    /\ UNCHANGED <<table, parked, nfree, inserted>>

\* Mutant: a dead value is freed although the packet may use it.
LookupDeadFree(e) ==
    /\ IsDead(e)
    /\ table' = table \ {e}
    /\ nfree' = nfree + 1
    /\ UNCHANGED <<parked, locked, found, inserted>>

\* "entry is dead but possibly locked".
LookupDead(e) ==
    /\ IsDead(e)
    /\ table' = table \ {e}
    /\ \/ locked /\ parked' = parked \cup {e.val} /\ UNCHANGED nfree
       \/ ~locked /\ nfree' = nfree + 1 /\ UNCHANGED parked
    /\ UNCHANGED <<locked, found, inserted>>

fthash_Lookup2(k) == \E e \in table : e.key = k /\ (LookupHit(e) \/ LookupDead(e))

\* The value in the entry is what the packet gets.
fthash_Lookup(k) ==
    /\ fthash_Lookup2(k)
    /\ UNCHANGED <<numEntries, config, now, started>>

\* GetFreeEnt: a free entry, or a new one while there are not too many.
GetFreeEnt ==
    \/ nfree > 0 /\ nfree' = nfree - 1 /\ UNCHANGED numEntries
    \/ /\ nfree = 0 /\ numEntries < maxEntries + Slack
       /\ numEntries' = numEntries + 1 /\ UNCHANGED nfree

\* fthash_Insert, called by attrs_CreateAndInsert and dc_DCECreateAndInsert
\* for a key whose lookup has just failed.  The table is not locked by it.
fthash_Insert(k) ==
    /\ \A e \in table : e.key # k
    /\ GetFreeEnt
    /\ \E v \in Vals \ (Live \cup found \cup inserted) :
         /\ table' = table \cup {[key |-> k, birth |-> now, val |-> v]}
         /\ inserted' = inserted \cup {v}
    /\ UNCHANGED <<parked, locked, config, now, started, found>>

\* Mutant: the entry is not taken out of its hash list.
MarkRemovedStays(k) ==
    /\ \E e \in table : e.key = k /\ parked' = parked \cup {e.val}
    /\ UNCHANGED <<table, nfree, numEntries, locked, config, now, packet>>

\* fthash_MarkRemoved (attrs_Delete, dc_DCEDeleteFromFileId): the value stays
\* valid for the packet that removes it.
fthash_MarkRemoved(k) ==
    /\ \E e \in table :
         /\ e.key = k
         /\ table' = table \ {e}
         /\ parked' = parked \cup {e.val}
    /\ UNCHANGED <<nfree, numEntries, locked, config, now, packet>>

\* fthash_Lock: dcache.c locks the table when it hands out a name entry.
fthash_Lock ==
    /\ locked' = TRUE
    /\ UNCHANGED <<table, parked, nfree, numEntries, config, now, packet>>

-----------------------------------------------------------------------------
\* Entries that can be freed without touching the hash lists.
Idle == nfree + Cardinality(parked)

FreeFirst(max) == Smaller(Larger(numEntries - max, 0), Idle)

\* What is left above the limit is evicted from the hash lists.
Evict(max) == Larger(numEntries - FreeFirst(max) - max, 0)

\* Mutant: the limit is not enforced on entries in use.
UnLockKeep(max) ==
    /\ UNCHANGED table
    /\ parked' = {} /\ locked' = FALSE
    /\ nfree' = Idle - FreeFirst(max)
    /\ numEntries' = numEntries - FreeFirst(max)

\* The body of fthash_UnLockAll for the limit max.
UnLock(max) ==
    /\ \E S \in SUBSET table : Cardinality(S) = Evict(max) /\ table' = table \ S
    /\ parked' = {} /\ locked' = FALSE
    /\ nfree' = Idle - FreeFirst(max)
    /\ numEntries' = numEntries - FreeFirst(max) - Evict(max)

\* The packet is over, or act_EXAMINE_ALL, which keeps no pointers, makes
\* room for more entries; the next packet starts.
fthash_UnLockAll ==
    /\ UnLock(maxEntries)
    /\ found' = {} /\ inserted' = {}
    /\ started' = now
    /\ UNCHANGED <<config, now>>

\* The packets TIMER, MORE_CACHE and IOCONTROL hold no values.
HoldsNothing == found = {} /\ inserted = {}

fthash_Bury ==
    /\ HoldsNothing /\ ~locked
    /\ table' = {e \in table : ~IsDead(e)}
    /\ nfree' = nfree + Cardinality({e \in table : IsDead(e)})
    /\ UNCHANGED <<parked, numEntries, locked, config, now, packet>>

fthash_SetMaxEntries ==
    /\ HoldsNothing
    /\ \E n \in 1 .. MaxSize :
         /\ maxEntries' = n
         /\ \/ maxEntries <= n /\ UNCHANGED <<table, parked, nfree, numEntries, locked>>
            \/ maxEntries > n /\ UnLock(n)
    /\ UNCHANGED <<ttl, now, packet>>

fthash_SetTimeToLive ==
    /\ HoldsNothing
    /\ ttl' \in 0 .. MaxTTL
    /\ UNCHANGED <<table, parked, nfree, numEntries, locked, maxEntries, now, packet>>

\* Time passes, while the packet waits for the server or between packets.
Tick ==
    /\ now < MaxTTL + MaxTime
    /\ now' = now + 1
    /\ started' = IF HoldsNothing THEN now' ELSE started
    /\ UNCHANGED <<table, parked, nfree, numEntries, locked, config, found, inserted>>

\* fthash_New.
Init ==
    /\ table = {} /\ parked = {} /\ nfree = 0 /\ numEntries = 0
    /\ locked = FALSE
    /\ maxEntries \in 1 .. MaxSize /\ ttl \in 1 .. MaxTTL
    /\ now = MaxTTL /\ started = MaxTTL
    /\ found = {} /\ inserted = {}

Next ==
    \/ \E k \in Keys : fthash_Lookup(k) \/ fthash_Insert(k) \/ fthash_MarkRemoved(k)
    \/ fthash_Lock \/ fthash_UnLockAll \/ fthash_Bury
    \/ fthash_SetMaxEntries \/ fthash_SetTimeToLive \/ Tick

Spec == Init /\ [][Next]_vars

-----------------------------------------------------------------------------
\* The variables hold what their comments say.
TypeOK ==
    /\ table \subseteq Entry /\ parked \subseteq Vals
    /\ nfree \in Nat /\ numEntries \in Nat
    /\ locked \in BOOLEAN
    /\ maxEntries \in 1 .. MaxSize /\ ttl \in 0 .. MaxTTL
    /\ now \in 0 .. MaxTTL + MaxTime /\ started \in 0 .. MaxTTL + MaxTime
    /\ found \subseteq Vals /\ inserted \subseteq Vals

\* No value a packet got from a lookup is freed before the packet ends,
\* however long the packet waits and whatever it deletes or looks up.
FoundAlive == found \subseteq Live

\* A value the packet inserted itself is safe too, though Insert does not
\* lock the table, as long as the packet does not outlast the timeout.
InsertedAlive == now - started <= ttl => inserted \subseteq Live

\* tht_NumEntries counts the entries of all lists.  Otherwise UnLockAll would
\* free too few, or search the hash lists for ever for one that is not empty.
EntriesCounted == numEntries = Cardinality(table) + Cardinality(parked) + nfree

\* The limit may be exceeded only by a packet that is under way; after
\* UnLockAll the next insert finds room, which act_EXAMINE_ALL relies on when
\* it retries ("may be a cache overflow, so this may help").
LimitRestored ==
    /\ numEntries <= MaxSize + Slack
    /\ ~locked /\ HoldsNothing /\ parked = {} => numEntries <= maxEntries

\* The hash lists and the parked values are finite, the table is locked while
\* a value found in it is in use, and what the packet inserted is not older
\* than the packet: what makes the other invariants inductive.
PacketSound ==
    /\ IsFiniteSet(table) /\ IsFiniteSet(parked)
    /\ started <= now
    /\ found # {} => locked
    /\ \A e \in table : e.val \in inserted => started <= e.birth

\* A key has one entry, a value one owner: no value is freed twice.
OneOwner ==
    /\ \A e, f \in table : (e.key = f.key \/ e.val = f.val) => e = f
    /\ \A e \in table : e.val \notin parked

\* No value a packet holds, found or inserted, is freed under it.
ValuesAlive == FoundAlive /\ InsertedAlive

\* The lists and their count agree, and no value is freed twice.
TableSound == TypeOK /\ PacketSound /\ EntriesCounted /\ OneOwner
=============================================================================
