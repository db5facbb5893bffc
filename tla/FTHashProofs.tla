---------------------------- MODULE FTHashProofs ----------------------------
(***************************************************************************)
(* Proofs about FTHash for every number of keys, sizes and timeouts.  The  *)
(* inductive invariant Inv adds PacketSound to what TLC checks: a table    *)
(* with a value in use is locked, and what the packet inserted is not      *)
(* older than the packet.                                                  *)
(***************************************************************************)
EXTENDS FTHash, FiniteSetTheorems, TLAPS

Inv ==
    /\ TypeOK /\ PacketSound /\ OneOwner
    /\ FoundAlive /\ InsertedAlive /\ EntriesCounted /\ LimitRestored

\* The cardinalities the counters are compared with are numbers.
LEMMA CardTypes ==
    ASSUME PacketSound
    PROVE  Cardinality(table) \in Nat /\ Cardinality(parked) \in Nat
BY FS_CardinalityType DEF PacketSound

\* An entry leaves the hash lists.
LEMMA TakeOut ==
    ASSUME PacketSound, NEW e \in table
    PROVE  /\ IsFiniteSet(table \ {e})
           /\ Cardinality(table \ {e}) = Cardinality(table) - 1
BY FS_RemoveElement DEF PacketSound

\* A value that is not parked yet is parked.
LEMMA Park ==
    ASSUME PacketSound, NEW v, v \notin parked
    PROVE  /\ IsFiniteSet(parked \cup {v})
           /\ Cardinality(parked \cup {v}) = Cardinality(parked) + 1
BY FS_AddElement DEF PacketSound

\* What is within a span of time was so before.
LEMMA Aging ==
    ASSUME NEW a \in Int, NEW b \in Int, NEW s \in Int, NEW t \in Int,
           a <= b, b - s <= t
    PROVE  a - s <= t
OBVIOUS

\* A set of entries leaves the hash lists.
LEMMA TakeOutAll ==
    ASSUME PacketSound, NEW S \in SUBSET table
    PROVE  /\ IsFiniteSet(table \ S) /\ IsFiniteSet(S)
           /\ Cardinality(S) \in Nat
           /\ Cardinality(table \ S) = Cardinality(table) - Cardinality(S)
<1>1. IsFiniteSet(table)
  BY DEF PacketSound
<1>2. table \cap S = S
  OBVIOUS
<1> QED
  BY <1>1, <1>2, FS_Difference, FS_Subset, FS_CardinalityType

-----------------------------------------------------------------------------
\* fthash_New establishes the invariant.
LEMMA InitInv ==
    ASSUME Init
    PROVE  Inv
<1>1. TypeOK
  <2>1. MaxTTL \in 0 .. MaxTTL + MaxTime /\ 1 .. MaxTTL \subseteq 0 .. MaxTTL
    BY FTHashAssumption
  <2>2. {} \subseteq Entry /\ {} \subseteq Vals
    OBVIOUS
  <2> QED
    BY <2>1, <2>2 DEF Init, TypeOK
<1>2. PacketSound
  BY FS_EmptySet, FTHashAssumption DEF Init, PacketSound
<1>3. OneOwner /\ FoundAlive /\ InsertedAlive
  BY DEF Init, OneOwner, FoundAlive, InsertedAlive
<1>4. EntriesCounted
  BY FS_EmptySet DEF Init, EntriesCounted
<1>5. LimitRestored
  BY FTHashAssumption DEF Init, LimitRestored
<1> QED
  BY <1>1, <1>2, <1>3, <1>4, <1>5 DEF Inv

\* A lookup that finds a value locks the table.
LEMMA LookupHitInv ==
    ASSUME Inv, NEW e \in table, LookupHit(e),
           UNCHANGED <<numEntries, config, now, started>>
    PROVE  Inv'
<1> USE DEF Inv, LookupHit, config
<1>1. TypeOK'
  BY DEF TypeOK, Entry
<1>2. PacketSound'
  BY DEF PacketSound
<1>3. OneOwner'
  BY DEF OneOwner
<1>4. FoundAlive' /\ InsertedAlive'
  BY DEF FoundAlive, InsertedAlive, Live
<1>5. EntriesCounted' /\ LimitRestored'
  BY DEF EntriesCounted, LimitRestored, HoldsNothing
<1> QED
  BY <1>1, <1>2, <1>3, <1>4, <1>5 DEF Inv

\* A dead entry leaves the table; its value is kept if the table is locked.
LEMMA LookupDeadInv ==
    ASSUME Inv, NEW e \in table, LookupDead(e),
           UNCHANGED <<numEntries, config, now, started>>
    PROVE  Inv'
<1> USE DEF Inv, LookupDead, config
<1>0. e \in Entry /\ e.val \in Vals /\ e.val \notin parked
  BY DEF TypeOK, Entry, OneOwner
<1>1. TypeOK'
  BY <1>0 DEF TypeOK
<1>2. PacketSound'
  BY <1>0, TakeOut, Park DEF PacketSound
<1>3. OneOwner'
  BY DEF OneOwner
<1>4. FoundAlive'
  BY DEF FoundAlive, Live, PacketSound
<1>5. InsertedAlive'
  <2>1. CASE locked
    BY <2>1 DEF InsertedAlive, Live
  <2>2. CASE ~locked /\ e.val \notin inserted
    BY <2>2 DEF InsertedAlive, Live
  <2>3. CASE e.val \in inserted
    <3>1. started <= e.birth /\ now - ttl > e.birth
      BY <2>3 DEF PacketSound, IsDead
    <3>2. started \in Int /\ e.birth \in Int /\ now \in Int /\ ttl \in Int
      BY <1>0, FTHashAssumption DEF TypeOK, Entry
    <3>3. ~(now - started <= ttl)
      BY <3>1, <3>2
    <3> QED
      BY <3>3 DEF InsertedAlive
  <2> QED
    BY <2>1, <2>2, <2>3
<1>6. EntriesCounted'
  <2>1. Cardinality(table') = Cardinality(table) - 1
    BY TakeOut
  <2>2. \/ parked' = parked /\ nfree' = nfree + 1
        \/ Cardinality(parked') = Cardinality(parked) + 1 /\ nfree' = nfree
    BY <1>0, Park
  <2>3. nfree \in Nat /\ Cardinality(table) \in Nat /\ Cardinality(parked) \in Nat
    BY CardTypes DEF TypeOK
  <2> QED
    BY <2>1, <2>2, <2>3 DEF EntriesCounted
<1>7. LimitRestored'
  BY DEF LimitRestored, HoldsNothing
<1> QED
  BY <1>1, <1>2, <1>3, <1>4, <1>5, <1>6, <1>7 DEF Inv

\* A new entry is as young as the clock and has a value of its own.
LEMMA InsertInv ==
    ASSUME Inv, NEW k \in Keys, fthash_Insert(k)
    PROVE  Inv'
<1> USE DEF Inv
<1>1. PICK v \in Vals \ (Live \cup found \cup inserted) :
        /\ table' = table \cup {[key |-> k, birth |-> now, val |-> v]}
        /\ inserted' = inserted \cup {v}
  BY DEF fthash_Insert
<1> DEFINE new == [key |-> k, birth |-> now, val |-> v]
<1>2. /\ new \in Entry /\ new.key = k /\ new.val = v /\ new.birth = now
      /\ new \notin table
  BY DEF fthash_Insert, TypeOK, Entry
<1>3. v \notin parked /\ \A e \in table : e.val # v
  BY <1>1 DEF Live
<1>4. table' = table \cup {new}
  BY <1>1
<1>5. UNCHANGED <<parked, locked, maxEntries, ttl, now, started, found>>
  BY DEF fthash_Insert, config
<1> HIDE DEF new
<1>6. TypeOK'
  <2>1. nfree' \in Nat /\ numEntries' \in Nat
    BY DEF fthash_Insert, GetFreeEnt, TypeOK
  <2> QED
    BY <2>1, <1>1, <1>2, <1>4, <1>5 DEF TypeOK
<1>7. PacketSound'
  <2>1. IsFiniteSet(table')
    BY <1>4, FS_AddElement DEF PacketSound
  <2>2. \A e \in table' : e.val \in inserted' => started <= e.birth
    BY <1>1, <1>2, <1>3, <1>4 DEF PacketSound
  <2> QED
    BY <2>1, <2>2, <1>5 DEF PacketSound
<1>8. OneOwner'
  BY <1>2, <1>3, <1>4, <1>5 DEF OneOwner, fthash_Insert
<1>9. FoundAlive' /\ InsertedAlive'
  BY <1>1, <1>2, <1>4, <1>5 DEF FoundAlive, InsertedAlive, Live
<1>10. EntriesCounted'
  <2>1. Cardinality(table') = Cardinality(table) + 1
    BY <1>2, <1>4, FS_AddElement DEF PacketSound
  <2>2. Cardinality(table) \in Nat /\ Cardinality(parked) \in Nat
    BY CardTypes
  <2>3. nfree \in Nat /\ numEntries \in Nat
    BY DEF TypeOK
  <2>4. numEntries' - nfree' = numEntries - nfree + 1 /\ nfree' \in Int /\ numEntries' \in Int
    BY <2>3 DEF fthash_Insert, GetFreeEnt
  <2> QED
    BY <2>1, <2>2, <2>3, <2>4, <1>5 DEF EntriesCounted
<1>11. LimitRestored'
  <2>1. inserted' # {}
    BY <1>1
  <2>2. numEntries' <= MaxSize + Slack
    BY FTHashAssumption DEF fthash_Insert, GetFreeEnt, LimitRestored, TypeOK
  <2> QED
    BY <2>1, <2>2 DEF LimitRestored, HoldsNothing
<1> QED
  BY <1>6, <1>7, <1>8, <1>9, <1>10, <1>11 DEF Inv

\* A removed entry's value stays valid.
LEMMA MarkRemovedInv ==
    ASSUME Inv, NEW k \in Keys, fthash_MarkRemoved(k)
    PROVE  Inv'
<1> USE DEF Inv, config, packet
<1>1. PICK e \in table : table' = table \ {e} /\ parked' = parked \cup {e.val}
  BY DEF fthash_MarkRemoved
<1>2. UNCHANGED <<nfree, numEntries, locked, maxEntries, ttl, now, found, inserted, started>>
  BY DEF fthash_MarkRemoved
<1>3. e.val \in Vals /\ e.val \notin parked
  BY DEF TypeOK, Entry, OneOwner
<1>4. TypeOK'
  BY <1>1, <1>2, <1>3 DEF TypeOK
<1>5. PacketSound'
  BY <1>1, <1>2, <1>3, TakeOut, Park DEF PacketSound
<1>6. OneOwner'
  BY <1>1, <1>2 DEF OneOwner
<1>7. FoundAlive' /\ InsertedAlive'
  BY <1>1, <1>2 DEF FoundAlive, InsertedAlive, Live
<1>8. EntriesCounted'
  <2>1. Cardinality(table') = Cardinality(table) - 1
    BY <1>1, TakeOut
  <2>2. Cardinality(parked') = Cardinality(parked) + 1
    BY <1>1, <1>3, Park
  <2>3. nfree \in Nat /\ Cardinality(table) \in Nat /\ Cardinality(parked) \in Nat
    BY CardTypes DEF TypeOK
  <2> QED
    BY <1>2, <2>1, <2>2, <2>3 DEF EntriesCounted
<1>9. LimitRestored'
  BY <1>1, <1>2 DEF LimitRestored, HoldsNothing
<1> QED
  BY <1>4, <1>5, <1>6, <1>7, <1>8, <1>9 DEF Inv

-----------------------------------------------------------------------------
\* What the body of fthash_UnLockAll does to the lists and the counters when
\* no value is in use afterwards.
LEMMA UnLockEffect ==
    ASSUME Inv, NEW max \in 1 .. MaxSize, UnLock(max)
    PROVE  /\ table' \subseteq table /\ IsFiniteSet(table')
           /\ parked' = {} /\ locked' = FALSE
           /\ nfree' \in Nat /\ numEntries' \in Nat
           /\ numEntries' = Cardinality(table') + nfree'
           /\ numEntries' <= max
<1>1. PICK S \in SUBSET table : Cardinality(S) = Evict(max) /\ table' = table \ S
  BY DEF UnLock
<1>2. /\ IsFiniteSet(table') /\ Cardinality(S) \in Nat
      /\ Cardinality(table') = Cardinality(table) - Cardinality(S)
  BY <1>1, TakeOutAll DEF Inv
<1>3. Cardinality(table) \in Nat /\ Cardinality(parked) \in Nat
  BY CardTypes DEF Inv
<1>4. Cardinality(table') \in Nat
  BY <1>2, FS_CardinalityType
<1>5. nfree \in Nat /\ numEntries \in Nat /\ max \in Nat
  BY FTHashAssumption DEF Inv, TypeOK
<1>6. numEntries = Cardinality(table) + Cardinality(parked) + nfree
  BY DEF Inv, EntriesCounted
<1>7. /\ nfree' = Idle - FreeFirst(max)
      /\ numEntries' = numEntries - FreeFirst(max) - Evict(max)
      /\ parked' = {} /\ locked' = FALSE
  BY DEF UnLock
<1> DEFINE T == Cardinality(table)
           P == Cardinality(parked)
           T2 == Cardinality(table')
           C == Cardinality(S)
<1>8. T \in Nat /\ P \in Nat /\ T2 \in Nat /\ C \in Nat /\ T2 = T - C
  BY <1>2, <1>3, <1>4
<1>9. FreeFirst(max) = Smaller(Larger(numEntries - max, 0), nfree + P)
  BY DEF FreeFirst, Idle
<1>10. C = Larger(numEntries - FreeFirst(max) - max, 0)
  BY <1>1 DEF Evict
<1>11. numEntries = T + P + nfree
  BY <1>6
<1> DEFINE F == FreeFirst(max)
<1> HIDE DEF T, P, T2, C, F
<1>12. F \in Nat /\ F <= nfree + P
  BY <1>5, <1>8, <1>9 DEF F, Smaller, Larger
<1>13. nfree' = nfree + P - F /\ numEntries' = numEntries - F - C
  <2>1. Evict(max) = C /\ Idle = nfree + P
    BY <1>1 DEF C, P, Idle
  <2> QED
    BY <1>5, <1>7, <1>8, <1>12, <2>1 DEF F
<1>14. numEntries - F - C <= max
  BY <1>5, <1>8, <1>10, <1>12 DEF F, Larger
<1>15. nfree' \in Nat /\ numEntries' = T2 + nfree' /\ numEntries' \in Nat
  BY <1>5, <1>8, <1>13, <1>11, <1>12 DEF F
<1> QED
  BY <1>1, <1>2, <1>5, <1>7, <1>13, <1>14, <1>15 DEF T2, F

\* The end of a packet.
LEMMA UnLockAllInv ==
    ASSUME Inv, fthash_UnLockAll
    PROVE  Inv'
<1> USE DEF Inv, config
<1>1. maxEntries \in 1 .. MaxSize
  BY DEF TypeOK
<1>2. UNCHANGED <<maxEntries, ttl, now>> /\ found' = {} /\ inserted' = {} /\ started' = now
  BY DEF fthash_UnLockAll
<1>3. /\ table' \subseteq table /\ IsFiniteSet(table')
      /\ parked' = {} /\ locked' = FALSE
      /\ nfree' \in Nat /\ numEntries' \in Nat
      /\ numEntries' = Cardinality(table') + nfree'
      /\ numEntries' <= maxEntries
  BY <1>1, UnLockEffect DEF fthash_UnLockAll
<1>4. TypeOK'
  BY <1>2, <1>3 DEF TypeOK
<1>5. PacketSound'
  <2>1. now <= now
    BY FTHashAssumption DEF TypeOK
  <2> QED
    BY <2>1, <1>2, <1>3, FS_EmptySet DEF PacketSound
<1>6. OneOwner'
  BY <1>3 DEF OneOwner
<1>7. FoundAlive' /\ InsertedAlive'
  BY <1>2 DEF FoundAlive, InsertedAlive
<1>8. EntriesCounted'
  <2>1. Cardinality(table') \in Nat
    BY <1>3, FS_CardinalityType
  <2> QED
    BY <2>1, <1>3, FS_EmptySet DEF EntriesCounted
<1>9. LimitRestored'
  BY <1>1, <1>2, <1>3, FTHashAssumption DEF LimitRestored
<1> QED
  BY <1>4, <1>5, <1>6, <1>7, <1>8, <1>9 DEF Inv

\* MORE_CACHE: a smaller limit is enforced at once.
LEMMA SetMaxEntriesInv ==
    ASSUME Inv, fthash_SetMaxEntries
    PROVE  Inv'
<1> USE DEF Inv, packet
<1>1. PICK n \in 1 .. MaxSize :
        /\ maxEntries' = n
        /\ \/ maxEntries <= n /\ UNCHANGED <<table, parked, nfree, numEntries, locked>>
           \/ maxEntries > n /\ UnLock(n)
  BY DEF fthash_SetMaxEntries
<1>2. HoldsNothing /\ UNCHANGED <<ttl, now, found, inserted, started>>
  BY DEF fthash_SetMaxEntries
<1>3. CASE maxEntries <= n /\ UNCHANGED <<table, parked, nfree, numEntries, locked>>
  <2>1. TypeOK' /\ PacketSound' /\ OneOwner'
    BY <1>1, <1>2, <1>3 DEF TypeOK, PacketSound, OneOwner
  <2>2. FoundAlive' /\ InsertedAlive' /\ EntriesCounted'
    BY <1>2, <1>3 DEF FoundAlive, InsertedAlive, EntriesCounted, Live
  <2>3. LimitRestored'
    <3>1. maxEntries \in Int /\ n \in Int /\ numEntries \in Int
      BY DEF TypeOK
    <3> QED
      BY <3>1, <1>1, <1>2, <1>3 DEF LimitRestored, HoldsNothing
  <2> QED
    BY <2>1, <2>2, <2>3 DEF Inv
<1>4. CASE UnLock(n)
  <2>1. /\ table' \subseteq table /\ IsFiniteSet(table')
        /\ parked' = {} /\ locked' = FALSE
        /\ nfree' \in Nat /\ numEntries' \in Nat
        /\ numEntries' = Cardinality(table') + nfree'
        /\ numEntries' <= n
    BY <1>4, UnLockEffect
  <2>2. TypeOK'
    BY <1>1, <1>2, <2>1 DEF TypeOK
  <2>3. PacketSound' /\ OneOwner'
    BY <1>2, <2>1, FS_EmptySet DEF PacketSound, OneOwner, HoldsNothing
  <2>4. FoundAlive' /\ InsertedAlive'
    BY <1>2 DEF FoundAlive, InsertedAlive, HoldsNothing
  <2>5. EntriesCounted'
    <3>1. Cardinality(table') \in Nat
      BY <2>1, FS_CardinalityType
    <3> QED
      BY <3>1, <2>1, FS_EmptySet DEF EntriesCounted
  <2>6. LimitRestored'
    BY <1>1, <2>1, FTHashAssumption DEF LimitRestored
  <2> QED
    BY <2>2, <2>3, <2>4, <2>5, <2>6 DEF Inv
<1> QED
  BY <1>1, <1>3, <1>4

\* TIMER: entries that have timed out become free entries.
LEMMA BuryInv ==
    ASSUME Inv, fthash_Bury
    PROVE  Inv'
<1> USE DEF Inv, config, packet
<1> DEFINE D == {e \in table : IsDead(e)}
<1>1. table' = table \ D /\ nfree' = nfree + Cardinality(D)
  BY DEF fthash_Bury
<1>2. HoldsNothing /\ UNCHANGED <<parked, numEntries, locked, maxEntries, ttl, now, found, inserted, started>>
  BY DEF fthash_Bury
<1>3. D \in SUBSET table
  OBVIOUS
<1> HIDE DEF D
<1>4. /\ IsFiniteSet(table') /\ Cardinality(D) \in Nat
      /\ Cardinality(table') = Cardinality(table) - Cardinality(D)
  BY <1>1, <1>3, TakeOutAll
<1>5. TypeOK'
  BY <1>1, <1>2, <1>4 DEF TypeOK
<1>6. PacketSound'
  BY <1>1, <1>2, <1>4 DEF PacketSound
<1>7. OneOwner'
  BY <1>1, <1>2 DEF OneOwner
<1>8. FoundAlive' /\ InsertedAlive'
  BY <1>2 DEF FoundAlive, InsertedAlive, HoldsNothing
<1>9. EntriesCounted'
  BY <1>1, <1>2, <1>4, CardTypes DEF EntriesCounted, TypeOK
<1>10. LimitRestored'
  BY <1>2 DEF LimitRestored, HoldsNothing
<1> QED
  BY <1>5, <1>6, <1>7, <1>8, <1>9, <1>10 DEF Inv

\* fthash_Lock, IOCONTROL's new timeout and the clock change no list.
LEMMA ClockInv ==
    ASSUME Inv, fthash_Lock \/ fthash_SetTimeToLive \/ Tick
    PROVE  Inv'
<1> USE DEF Inv, config, packet
<1>1. UNCHANGED <<table, parked, nfree, numEntries, found, inserted, maxEntries>>
  BY DEF fthash_Lock, fthash_SetTimeToLive, Tick
<1>2. locked' = locked \/ locked' = TRUE
  BY DEF fthash_Lock, fthash_SetTimeToLive, Tick
<1>3. /\ now' \in 0 .. MaxTTL + MaxTime /\ started' \in 0 .. MaxTTL + MaxTime
      /\ now <= now' /\ started' <= now'
      /\ started' = started \/ HoldsNothing
      /\ (ttl' = ttl /\ ttl' \in 0 .. MaxTTL) \/ (HoldsNothing /\ ttl' \in 0 .. MaxTTL)
  BY FTHashAssumption DEF fthash_Lock, fthash_SetTimeToLive, Tick, TypeOK, PacketSound
<1>4. TypeOK'
  BY <1>1, <1>2, <1>3 DEF TypeOK
<1>5. PacketSound'
  BY <1>1, <1>2, <1>3 DEF PacketSound, HoldsNothing
<1>6. OneOwner'
  BY <1>1 DEF OneOwner
<1>7. FoundAlive' /\ EntriesCounted'
  BY <1>1 DEF FoundAlive, EntriesCounted, Live
<1>8. InsertedAlive'
  <2>1. CASE HoldsNothing
    BY <2>1, <1>1 DEF InsertedAlive, HoldsNothing
  <2>2. CASE ~HoldsNothing
    <3>1. started' = started /\ ttl' = ttl /\ now <= now'
      BY <2>2, <1>3
    <3>2. now \in Int /\ now' \in Int /\ started \in Int /\ ttl \in Int
      BY <1>3, FTHashAssumption DEF TypeOK
    <3>3. now' - started' <= ttl' => now - started <= ttl
      BY <3>1, <3>2, Aging
    <3> QED
      BY <3>3, <1>1 DEF InsertedAlive, Live
  <2> QED
    BY <2>1, <2>2
<1>9. LimitRestored'
  BY <1>1, <1>2 DEF LimitRestored, HoldsNothing, TypeOK
<1> QED
  BY <1>4, <1>5, <1>6, <1>7, <1>8, <1>9 DEF Inv

-----------------------------------------------------------------------------
\* Every operation preserves the invariant.
LEMMA NextInv ==
    ASSUME Inv, [Next]_vars
    PROVE  Inv'
<1>1. CASE UNCHANGED vars
  BY <1>1 DEF vars, Inv, TypeOK, PacketSound, OneOwner, FoundAlive, InsertedAlive,
              EntriesCounted, LimitRestored, Live, HoldsNothing
<1>2. ASSUME NEW k \in Keys, fthash_Lookup(k) PROVE Inv'
  BY <1>2, LookupHitInv, LookupDeadInv DEF fthash_Lookup, fthash_Lookup2
<1>3. ASSUME NEW k \in Keys, fthash_Insert(k) \/ fthash_MarkRemoved(k) PROVE Inv'
  BY <1>3, InsertInv, MarkRemovedInv
<1>4. CASE fthash_Lock \/ fthash_SetTimeToLive \/ Tick
  BY <1>4, ClockInv
<1>5. CASE fthash_UnLockAll \/ fthash_Bury \/ fthash_SetMaxEntries
  BY <1>5, UnLockAllInv, BuryInv, SetMaxEntriesInv
<1> QED
  BY <1>1, <1>2, <1>3, <1>4, <1>5 DEF Next

\* Inv holds in every reachable state.
THEOREM Invariance == Spec => []Inv
<1>1. Init => Inv
  BY InitInv
<1>2. Inv /\ [Next]_vars => Inv'
  BY NextInv
<1> QED
  BY <1>1, <1>2, PTL DEF Spec

\* No value a packet got from fthash_Lookup, or inserted and did not outlast,
\* is freed while the packet runs.
THEOREM ValuesStayAlive == Spec => []ValuesAlive
<1>1. Inv => ValuesAlive
  BY DEF Inv, ValuesAlive
<1> QED
  BY <1>1, Invariance, PTL

\* No entry is in two lists and no value is freed twice; tht_NumEntries counts
\* what the lists hold, so that fthash_UnLockAll finds enough entries to evict
\* and its search of the hash lists ends.
THEOREM TableAlwaysSound == Spec => []TableSound
<1>1. Inv => TableSound
  BY DEF Inv, TableSound
<1> QED
  BY <1>1, Invariance, PTL

\* A packet leaves a table that respects its limit.
THEOREM LimitAlwaysRestored == Spec => []LimitRestored
<1>1. Inv => LimitRestored
  BY DEF Inv
<1> QED
  BY <1>1, Invariance, PTL
=============================================================================
