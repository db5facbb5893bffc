----------------------------- MODULE LocksProofs -----------------------------
(***************************************************************************)
(* Proofs about Locks for every directory, every set of packets and every  *)
(* number of locks.                                                        *)
(*                                                                         *)
(* The packets look at the first lock on an object only, and identify the  *)
(* object by cached names.  That is enough because of three facts that     *)
(* keep one another true: an exclusive lock is alone on its object, so it  *)
(* is the first; a lock's object exists, so a new object has no lock; and  *)
(* a cached name is the server's even after its attributes have left the   *)
(* cache.                                                                  *)
(***************************************************************************)
EXTENDS Locks, FiniteSetTheorems, WellFoundedInduction, SequenceTheorems, TLAPS

\* The least element of a non-empty set of naturals is the one Min selects.
LEMMA LeastIndex ==
    ASSUME NEW S \in SUBSET Nat, S # {}
    PROVE  Min(S) \in S
<1>1. PICK x \in S : \A y \in S : ~(<<y, x>> \in OpToRel(<, Nat))
  BY NatLessThanWellFounded, WFMin, Zenon
<1>2. \A y \in S : ~(y < x)
  BY <1>1, Zenon DEF OpToRel
<1>3. \A y \in S : x <= y
  BY <1>2
<1>. QED
  BY <1>3 DEF Min

\* lock_LookupFromKey finds a lock on the object, and none when there is none.
LEMMA LookupFacts ==
    ASSUME list \in Seq(Lock), NEW key
    PROVE  /\ InUse(key) => /\ lock_LookupFromKey(key) \in DOMAIN list
                            /\ list[lock_LookupFromKey(key)].key = key
           /\ ~InUse(key) => \A i \in DOMAIN list : list[i].key # key
<1>. DEFINE I == {i \in 1 .. Len(list) : list[i].key = key}
<1>1. I \in SUBSET Nat /\ DOMAIN list = 1 .. Len(list)
  OBVIOUS
<1>2. lock_LookupFromKey(key) = IF I # {} THEN Min(I) ELSE 0
  BY DEF lock_LookupFromKey, SelectInSeq
<1>3. CASE I = {}
  BY <1>1, <1>2, <1>3 DEF InUse
<1>4. CASE I # {}
  <2>1. Min(I) \in I
    BY <1>1, <1>4, LeastIndex
  <2>. HIDE DEF Min
  <2>. QED
    BY <1>1, <1>2, <1>4, <2>1 DEF InUse
<1>. QED
  BY <1>3, <1>4

\* The position of the lock at an address that is in the list.
LEMMA PositionFacts ==
    ASSUME list \in Seq(Lock), NEW id, id \in {l.id : l \in Held}
    PROVE  /\ SelectInSeq(list, LAMBDA l : l.id = id) \in DOMAIN list
           /\ list[SelectInSeq(list, LAMBDA l : l.id = id)].id = id
<1>. DEFINE I == {i \in 1 .. Len(list) : list[i].id = id}
<1>1. I \in SUBSET Nat /\ DOMAIN list = 1 .. Len(list)
  OBVIOUS
<1>2. I # {}
  BY <1>1 DEF Held
<1>3. SelectInSeq(list, LAMBDA l : l.id = id) = Min(I)
  BY <1>2 DEF SelectInSeq
<1>4. Min(I) \in I
  BY <1>1, <1>2, LeastIndex
<1>. HIDE DEF Min
<1>. QED
  BY <1>1, <1>3, <1>4

LEMMA RemoveAtFacts ==
    ASSUME NEW S, NEW s \in Seq(S), NEW i \in DOMAIN s
    PROVE  /\ RemoveAt(s, i) \in Seq(S)
           /\ Len(RemoveAt(s, i)) = Len(s) - 1
           /\ \A k \in 1 .. Len(s) - 1 :
                RemoveAt(s, i)[k] = IF k < i THEN s[k] ELSE s[k + 1]
<1>. DEFINE a == SubSeq(s, 1, i - 1)
            b == SubSeq(s, i + 1, Len(s))
<1>0. Len(s) \in Nat /\ DOMAIN s = 1 .. Len(s) /\ i \in 1 .. Len(s)
  OBVIOUS
<1>1. /\ a \in Seq(S) /\ Len(a) = i - 1
      /\ \A k \in 1 .. i - 1 : a[k] = s[k]
  BY <1>0, SubSeqProperties
<1>2. /\ b \in Seq(S) /\ Len(b) = Len(s) - i
      /\ \A k \in 1 .. Len(s) - i : b[k] = s[i + k]
  BY <1>0, SubSeqProperties
<1>. HIDE DEF a, b
<1>. DEFINE t == a \o b
<1>3. /\ t \in Seq(S) /\ Len(t) = Len(a) + Len(b)
      /\ \A k \in 1 .. Len(a) + Len(b) :
           t[k] = IF k <= Len(a) THEN a[k] ELSE b[k - Len(a)]
  BY <1>1, <1>2, ConcatProperties, Zenon
<1>4. RemoveAt(s, i) = t
  BY DEF RemoveAt, a, b
<1>. HIDE DEF t
<1>5. Len(t) = Len(s) - 1
  BY <1>0, <1>1, <1>2, <1>3
<1>6. ASSUME NEW k \in 1 .. Len(s) - 1
      PROVE  t[k] = IF k < i THEN s[k] ELSE s[k + 1]
  <2>1. CASE k < i
    BY <2>1, <1>0, <1>1, <1>2, <1>3
  <2>2. CASE ~(k < i)
    <3>1. t[k] = b[k - (i - 1)]
      BY <2>2, <1>0, <1>1, <1>2, <1>3
    <3>2. b[k - (i - 1)] = s[k + 1]
      BY <2>2, <1>0, <1>2
    <3>. QED
      BY <3>1, <3>2, <2>2
  <2>. QED
    BY <2>1, <2>2
<1>. QED
  BY <1>3, <1>4, <1>5, <1>6, Zenon

LEMMA ConsFacts ==
    ASSUME NEW S, NEW s \in Seq(S), NEW e \in S
    PROVE  /\ <<e>> \o s \in Seq(S)
           /\ DOMAIN (<<e>> \o s) = 1 .. Len(s) + 1
           /\ (<<e>> \o s)[1] = e
           /\ \A k \in DOMAIN s : (<<e>> \o s)[k + 1] = s[k]
           /\ \A k \in 1 .. Len(s) + 1 : k = 1 \/ (k - 1 \in DOMAIN s /\ (<<e>> \o s)[k] = s[k - 1])
OBVIOUS

-----------------------------------------------------------------------------
(***************************************************************************)
(* The inductive invariant.  ListInv is about the list alone and holds     *)
(* even when an object was replaced behind the caches' back.               *)
(***************************************************************************)
RootShared == \A l \in Held : l.key = Root => l.access = "SHARED" /\ l.id \notin handles

DistinctIds == \A i, j \in DOMAIN list : list[i].id = list[j].id => i = j

ListInv ==
    /\ list \in Seq(Lock) /\ handles \subseteq LockIds
    /\ handles \subseteq {l.id : l \in Held}
    /\ DistinctIds
    /\ RootShared

Alone ==
    \A i, j \in DOMAIN list :
      list[i].key = list[j].key /\ list[i].access = "EXCLUSIVE" => i = j

\* Cached or not, a name in the cache is the server's.
NamesTrue ==
    ~swapped => \A n \in Names : names[n] # None =>
      names[n].id = dir[n] /\ names[n].type = type[dir[n]]

ServerInv ==
    /\ dir \in [Names -> FileIds \cup {None}]
    /\ type \in [FileIds -> Types]
    /\ names \in [Names -> NEntry \cup {None}]
    /\ attrs \in [FileIds -> Types \cup {None}]
    /\ swapped \in BOOLEAN
    /\ NamesTrue

Inv == ListInv /\ ServerInv /\ (~swapped => Alone) /\ LockedExists

\* What a new lock needs for exclusive locks to stay alone.
Compatible(key, access) ==
    \A i \in DOMAIN list :
      list[i].key = key => access # "EXCLUSIVE" /\ list[i].access # "EXCLUSIVE"

\* Taking a lock, whatever packet does it.
LEMMA AddLockKeeps ==
    ASSUME ListInv, NEW key \in FileIds \cup {Root}, NEW access \in Access,
           NEW opens \in BOOLEAN, AddLock(key, access, opens),
           key = Root => access = "SHARED" /\ ~opens
    PROVE  /\ ListInv'
           /\ \A l \in Held' : l \in Held \/ l.key = key
           /\ Alone /\ Compatible(key, access) => Alone'
<1>1. PICK id \in LockIds \ {l.id : l \in Held} :
        /\ list' = <<[id |-> id, key |-> key, access |-> access]>> \o list
        /\ handles' = IF opens THEN handles \cup {id} ELSE handles
  BY DEF AddLock, fh_Insert
<1>. DEFINE e == [id |-> id, key |-> key, access |-> access]
<1>2. e \in Lock /\ e.id = id /\ e.key = key /\ e.access = access /\ list \in Seq(Lock)
  BY DEF Lock, ListInv
<1>3. list' = <<e>> \o list
  BY <1>1
<1>. HIDE DEF e
<1>4. /\ list' \in Seq(Lock)
      /\ DOMAIN list' = 1 .. Len(list) + 1
      /\ list'[1] = e
      /\ \A k \in DOMAIN list : list'[k + 1] = list[k]
      /\ \A k \in 1 .. Len(list) + 1 : k = 1 \/ (k - 1 \in DOMAIN list /\ list'[k] = list[k - 1])
  BY <1>2, <1>3, ConsFacts
<1>5. DOMAIN list = 1 .. Len(list) /\ Len(list) \in Nat
  BY <1>2
<1>6. Held' = Held \cup {e}
  <2>1. ASSUME NEW l \in Held' PROVE l \in Held \cup {e}
    BY <1>4 DEF Held
  <2>2. ASSUME NEW l \in Held PROVE l \in Held'
    <3>1. PICK i \in DOMAIN list : l = list[i]
      BY DEF Held
    <3>2. i + 1 \in DOMAIN list' /\ list'[i + 1] = l
      BY <3>1, <1>4, <1>5
    <3>. QED
      BY <3>2 DEF Held
  <2>3. e \in Held'
    <3>1. 1 \in DOMAIN list'
      BY <1>4, <1>5
    <3>. QED
      BY <3>1, <1>4 DEF Held
  <2>. QED
    BY <2>1, <2>2, <2>3
<1>7. DistinctIds'
  <2>1. \A i \in DOMAIN list : list[i].id # id
    BY <1>1 DEF Held
  <2>. SUFFICES ASSUME NEW i \in DOMAIN list', NEW j \in DOMAIN list', list'[i].id = list'[j].id
                PROVE  i = j
    BY DEF DistinctIds
  <2>2. i = 1 <=> j = 1
    BY <1>4, <1>2, <2>1
  <2>3. CASE i # 1
    <3>1. i - 1 \in DOMAIN list /\ j - 1 \in DOMAIN list /\ list[i - 1].id = list[j - 1].id
      BY <2>2, <2>3, <1>4
    <3>2. i - 1 = j - 1
      BY <3>1 DEF ListInv, DistinctIds
    <3>. QED
      BY <3>2, <1>4, <1>5
  <2>. QED
    BY <2>2, <2>3
<1>8. handles' \subseteq LockIds /\ handles' \subseteq {l.id : l \in Held'}
  BY <1>1, <1>2, <1>6 DEF ListInv
<1>9. RootShared'
  <2>. SUFFICES ASSUME NEW l \in Held', l.key = Root
                PROVE  l.access = "SHARED" /\ l.id \notin handles'
    BY DEF RootShared
  <2>1. CASE l = e
    <3>1. access = "SHARED" /\ ~opens /\ handles' = handles
      BY <2>1, <1>1, <1>2
    <3>2. id \notin handles
      BY DEF ListInv
    <3>. QED
      BY <2>1, <3>1, <3>2, <1>2
  <2>2. CASE l \in Held
    <3>1. l.id # id
      BY <2>2
    <3>. QED
      BY <2>2, <3>1, <1>1 DEF ListInv, RootShared
  <2>. QED
    BY <2>1, <2>2, <1>6
<1>10. ASSUME Alone, Compatible(key, access) PROVE Alone'
  <2>. SUFFICES ASSUME NEW i \in DOMAIN list', NEW j \in DOMAIN list',
                       list'[i].key = list'[j].key, list'[i].access = "EXCLUSIVE"
                PROVE  i = j
    BY DEF Alone
  <2>1. i = 1 <=> j = 1
    BY <1>2, <1>4, <1>10 DEF Compatible
  <2>2. CASE i # 1
    <3>1. /\ i - 1 \in DOMAIN list /\ j - 1 \in DOMAIN list
          /\ list[i - 1].key = list[j - 1].key /\ list[i - 1].access = "EXCLUSIVE"
      BY <2>1, <2>2, <1>4
    <3>2. i - 1 = j - 1
      BY <3>1, <1>10 DEF Alone
    <3>. QED
      BY <3>2, <1>4, <1>5
  <2>. QED
    BY <2>1, <2>2
<1>. QED
  BY <1>2, <1>4, <1>6, <1>7, <1>8, <1>9, <1>10 DEF ListInv

\* Giving a lock back, by FREE_LOCK or with the handle that owns it.
LEMMA RemoveKeeps ==
    ASSUME ListInv, NEW id, id \in {l.id : l \in Held},
           list' = lock_Remove(id), handles' = handles \ {id}
    PROVE  ListInv' /\ Held' \subseteq Held /\ (Alone => Alone')
<1>. DEFINE p == SelectInSeq(list, LAMBDA l : l.id = id)
<1>1. list \in Seq(Lock) /\ DOMAIN list = 1 .. Len(list) /\ Len(list) \in Nat
  BY DEF ListInv
<1>2. p \in DOMAIN list /\ list[p].id = id
  BY <1>1, PositionFacts
<1>3. list' = RemoveAt(list, p)
  BY DEF lock_Remove
<1>. HIDE DEF p
<1>. DEFINE old(k) == IF k < p THEN k ELSE k + 1
<1>4. /\ list' \in Seq(Lock) /\ DOMAIN list' = 1 .. Len(list) - 1
      /\ \A k \in 1 .. Len(list) - 1 : list'[k] = IF k < p THEN list[k] ELSE list[k + 1]
  BY <1>1, <1>2, <1>3, RemoveAtFacts
<1>5. \A k \in DOMAIN list' : old(k) \in DOMAIN list /\ list'[k] = list[old(k)]
  BY <1>1, <1>2, <1>4
<1>6. \A i, j \in DOMAIN list' : old(i) = old(j) => i = j
  BY <1>1, <1>2, <1>4
<1>7. Held' \subseteq Held
  BY <1>5 DEF Held
<1>8. ASSUME NEW l \in Held, l.id # id PROVE l \in Held'
  <2>1. PICK i \in DOMAIN list : l = list[i]
    BY DEF Held
  <2>2. i # p
    BY <2>1, <1>2, <1>8
  <2>3. CASE i < p
    <3>1. i \in DOMAIN list' /\ list'[i] = l
      BY <2>1, <2>3, <1>1, <1>2, <1>4
    <3>. QED
      BY <3>1 DEF Held
  <2>4. CASE i > p
    <3>1. i - 1 \in DOMAIN list' /\ list'[i - 1] = l
      BY <2>1, <2>4, <1>1, <1>2, <1>4
    <3>. QED
      BY <3>1 DEF Held
  <2>. QED
    BY <2>2, <2>3, <2>4, <1>1, <1>2
<1>9. handles' \subseteq LockIds /\ handles' \subseteq {l.id : l \in Held'}
  BY <1>8 DEF ListInv
<1>. HIDE DEF old
<1>10. DistinctIds'
  BY <1>5, <1>6 DEF ListInv, DistinctIds
<1>11. RootShared'
  BY <1>7 DEF ListInv, RootShared
<1>12. Alone => Alone'
  BY <1>5, <1>6 DEF Alone
<1>. QED
  BY <1>4, <1>7, <1>9, <1>10, <1>11, <1>12 DEF ListInv

\* Packets that leave the list and the handles alone.
LEMMA ListUnchanged ==
    ASSUME ListInv, UNCHANGED <<list, handles>>
    PROVE  ListInv' /\ Held' = Held /\ Alone' = Alone
BY DEF ListInv, Held, Alone, DistinctIds, RootShared

\* A packet that leaves the server alone and whose locks are on objects of the
\* server keeps locked objects existing.
LEMMA LockedStays ==
    ASSUME LockedExists, UNCHANGED dir, UNCHANGED swapped, NEW key,
           ~swapped => key \in OnServer \cup {Root},
           \A l \in Held' : l \in Held \/ l.key = key
    PROVE  LockedExists'
BY DEF LockedExists, OnServer

-----------------------------------------------------------------------------
(***************************************************************************)
(* The caches.                                                             *)
(***************************************************************************)

\* A name found is an object; while nothing was swapped, the server's object.
LEMMA EntryFacts ==
    ASSUME ServerInv, NEW n \in Names, Found(n)
    PROVE  /\ GetNameEntry(n) \in NEntry
           /\ ~swapped => /\ Exists(n) /\ dir[n] \in OnServer
                          /\ GetNameEntry(n) = [id |-> dir[n], type |-> type[dir[n]]]
<1>1. GetNameEntry(n) \in NEntry
  BY DEF GetNameEntry, ServerInv, Found, CacheHit, Exists, NEntry, dc_NELookup
<1>2. ASSUME ~swapped
      PROVE  Exists(n) /\ GetNameEntry(n) = [id |-> dir[n], type |-> type[dir[n]]]
  <2>1. CASE CacheHit(n)
    <3>1. names[n] # None /\ names[n] \in NEntry
      BY <2>1 DEF CacheHit, dc_NELookup, ServerInv
    <3>2. names[n].id = dir[n] /\ names[n].type = type[dir[n]]
      BY <3>1, <1>2 DEF ServerInv, NamesTrue
    <3>3. names[n] = [id |-> dir[n], type |-> type[dir[n]]] /\ dir[n] \in FileIds
      BY <3>1, <3>2 DEF NEntry
    <3>. QED
      BY <2>1, <3>3, LocksAssumption DEF GetNameEntry, Exists
  <2>2. CASE ~CacheHit(n)
    BY <2>2 DEF GetNameEntry, Found
  <2>. QED
    BY <2>1, <2>2
<1>. QED
  BY <1>1, <1>2 DEF OnServer, Exists

\* GetNameEntry caches what is on the server.
LEMMA CacheEntryKeeps ==
    ASSUME ServerInv, NEW n \in Names, Found(n), CacheEntry(n), UNCHANGED <<server, swapped>>
    PROVE  ServerInv'
<1>1. GetNameEntry(n) \in NEntry
  BY EntryFacts
<1>2. names' = [names EXCEPT ![n] = GetNameEntry(n)]
  BY DEF CacheEntry, NamesAfter
<1>3. attrs' \in [FileIds -> Types \cup {None}]
  BY DEF CacheEntry, AttrsAfter, ServerInv, Found, Exists
<1>4. NamesTrue'
  <2>1. ~swapped => GetNameEntry(n).id = dir[n] /\ GetNameEntry(n).type = type[dir[n]]
    BY EntryFacts
  <2>. QED
    BY <2>1, <1>2 DEF NamesTrue, server, ServerInv
<1>. QED
  BY <1>1, <1>2, <1>3, <1>4 DEF ServerInv, server

\* Dropping a name and its attributes.
LEMMA ForgetTypes ==
    ASSUME ServerInv, NEW n \in Names, Found(n), ForgetEntry(n)
    PROVE  /\ names' = [names EXCEPT ![n] = None]
           /\ names' \in [Names -> NEntry \cup {None}]
           /\ attrs' \in [FileIds -> Types \cup {None}]
<1>1. GetNameEntry(n) \in NEntry
  BY EntryFacts
<1>2. AttrsAfter(n) \in [FileIds -> Types \cup {None}]
  BY DEF AttrsAfter, ServerInv, Found, Exists
<1>. QED
  BY <1>1, <1>2 DEF ForgetEntry, dc_NERemove, ServerInv

\* A new object under a name that has none.
LEMMA CreateKeeps ==
    ASSUME Inv, NEW n \in Names, ~Exists(n), NEW id \in NewIds, NEW t \in Types,
           ServerCreate(n, id, t), UNCHANGED cache, UNCHANGED swapped
    PROVE  /\ ServerInv'
           /\ ~swapped => \A i \in DOMAIN list : list[i].key # id
           /\ id \in FileIds /\ id \in OnServer'
           /\ OnServer \subseteq OnServer'
<1>1. id \in FileIds /\ id \notin OnServer
  BY DEF NewIds
<1>2. dir' = [dir EXCEPT ![n] = id] /\ type' = [type EXCEPT ![id] = t]
  BY DEF ServerCreate
<1>3. NamesTrue'
  <2>. SUFFICES ASSUME ~swapped, NEW m \in Names, names[m] # None
                PROVE  names[m].id = dir'[m] /\ names[m].type = type'[dir'[m]]
    BY DEF NamesTrue, cache
  <2>1. names[m] \in NEntry /\ names[m].id = dir[m] /\ names[m].type = type[dir[m]]
    BY DEF Inv, ServerInv, NamesTrue
  <2>2. dir[m] \in FileIds /\ dir[m] # None
    BY <2>1, LocksAssumption DEF NEntry
  <2>3. m # n
    BY <2>2 DEF Exists
  <2>4. dir[m] # id
    BY <2>2, <1>1 DEF OnServer
  <2>. QED
    BY <2>1, <2>2, <2>3, <2>4, <1>2 DEF Inv, ServerInv
<1>4. ServerInv'
  BY <1>1, <1>2, <1>3 DEF Inv, ServerInv, cache
<1>5. ASSUME ~swapped, NEW i \in DOMAIN list PROVE list[i].key # id
  <2>1. list[i] \in Held
    BY DEF Held
  <2>. QED
    BY <2>1, <1>1, <1>5, LocksAssumption DEF Inv, LockedExists
<1>6. id \in OnServer'
  BY <1>1, <1>2, LocksAssumption DEF OnServer, Inv, ServerInv
<1>7. OnServer \subseteq OnServer'
  <2>. SUFFICES ASSUME NEW m \in Names, dir[m] # None PROVE dir[m] \in OnServer'
    BY DEF OnServer
  <2>. QED
    BY <1>2 DEF OnServer, Exists, Inv, ServerInv
<1>. QED
  BY <1>1, <1>4, <1>5, <1>6, <1>7

\* The first lock decides for all of them: an exclusive lock is the first.
LEMMA FirstDecides ==
    ASSUME list \in Seq(Lock), Alone, NEW key, NEW mode,
           InUse(key) => mode # "EXCLUSIVE"
                         /\ list[lock_LookupFromKey(key)].access # "EXCLUSIVE"
    PROVE  Compatible(key, mode)
<1>. SUFFICES ASSUME NEW i \in DOMAIN list, list[i].key = key
              PROVE  mode # "EXCLUSIVE" /\ list[i].access # "EXCLUSIVE"
  BY DEF Compatible
<1>1. InUse(key)
  BY LookupFacts
<1>2. lock_LookupFromKey(key) \in DOMAIN list /\ list[lock_LookupFromKey(key)].key = key
  BY <1>1, LookupFacts
<1>. QED
  BY <1>1, <1>2 DEF Alone

-----------------------------------------------------------------------------
(***************************************************************************)
(* One lemma per group of packets.                                         *)
(***************************************************************************)

\* A packet that takes a lock on an object of the server, or on the root,
\* without changing the server.
LEMMA TakesLock ==
    ASSUME Inv, ServerInv', UNCHANGED <<server, swapped>>,
           NEW key \in FileIds \cup {Root}, NEW access \in Access, NEW opens \in BOOLEAN,
           AddLock(key, access, opens),
           key = Root => access = "SHARED" /\ ~opens,
           ~swapped => Compatible(key, access) /\ key \in OnServer \cup {Root}
    PROVE  Inv'
<1>1. /\ ListInv' /\ \A l \in Held' : l \in Held \/ l.key = key
      /\ Alone /\ Compatible(key, access) => Alone'
  BY AddLockKeeps DEF Inv
<1>2. LockedExists'
  BY <1>1, LockedStays DEF Inv, server
<1>. QED
  BY <1>1, <1>2 DEF Inv

\* No lock on the root is exclusive.
LEMMA RootCompatible ==
    ASSUME ListInv PROVE Compatible(Root, "SHARED")
BY DEF ListInv, RootShared, Compatible, Held

LEMMA UnchangedServerInv ==
    ASSUME ServerInv, UNCHANGED <<server, cache, swapped>>
    PROVE  ServerInv'
BY DEF ServerInv, NamesTrue, server, cache

LEMMA LocateKeeps ==
    ASSUME Inv, act_LOCATE_OBJECT PROVE Inv'
<1>1. PICK n \in Names, mode \in {"SHARED", "EXCLUSIVE"} :
        /\ Found(n)
        /\ CacheEntry(n)
        /\ \/ /\ DupELock(GetNameEntry(n).id, mode)
              /\ AddLock(GetNameEntry(n).id, mode, FALSE)
           \/ UNCHANGED <<list, handles>>
  BY DEF act_LOCATE_OBJECT
<1>2. UNCHANGED <<server, swapped>>
  BY DEF act_LOCATE_OBJECT
<1>3. ServerInv'
  BY <1>1, <1>2, CacheEntryKeeps DEF Inv
<1>. DEFINE key == GetNameEntry(n).id
<1>4. key \in FileIds /\ (~swapped => key \in OnServer)
  BY <1>1, EntryFacts DEF Inv, NEntry
<1>5. CASE DupELock(key, mode) /\ AddLock(key, mode, FALSE)
  <2>. HIDE DEF key
  <2>1. ~swapped => Compatible(key, mode)
    BY <1>5, FirstDecides DEF Inv, ListInv, DupELock
  <2>2. key # Root /\ mode \in Access
    BY <1>4, LocksAssumption DEF Access
  <2>. QED
    BY <1>2, <1>3, <1>4, <1>5, <2>1, <2>2, TakesLock
<1>6. CASE UNCHANGED <<list, handles>>
  BY <1>2, <1>3, <1>6, ListUnchanged DEF Inv, LockedExists, OnServer, server
<1>. QED
  BY <1>1, <1>5, <1>6

LEMMA RootKeeps ==
    ASSUME Inv, AddLock(Root, "SHARED", FALSE), UNCHANGED <<server, cache, swapped>>
    PROVE  Inv'
<1>1. ServerInv'
  BY UnchangedServerInv DEF Inv
<1>. QED
  BY <1>1, RootCompatible, TakesLock DEF Inv, Access

LEMMA CopyKeeps ==
    ASSUME Inv, NEW l \in Held, do_act_COPY_DIR(l) PROVE Inv'
<1>0. l.access = "SHARED" /\ AddLock(l.key, "SHARED", FALSE)
  BY Zenon DEF do_act_COPY_DIR
<1>1. l \in Lock
  BY DEF Inv, ListInv, Held
<1>2. l.key \in FileIds \cup {Root}
  BY <1>1 DEF Lock
<1>3. UNCHANGED <<server, cache, swapped>> /\ ServerInv'
  BY UnchangedServerInv DEF do_act_COPY_DIR, Inv
<1>4. ~swapped => Compatible(l.key, "SHARED")
  BY <1>0 DEF Inv, Alone, Compatible, Held
<1>5. ~swapped => l.key \in OnServer \cup {Root}
  BY DEF Inv, LockedExists
<1>. DEFINE key == l.key
<1>. HIDE DEF key
<1>6. /\ AddLock(key, "SHARED", FALSE) /\ key \in FileIds \cup {Root}
      /\ ~swapped => Compatible(key, "SHARED") /\ key \in OnServer \cup {Root}
  BY <1>0, <1>2, <1>4, <1>5, Zenon DEF key
<1>. QED
  BY <1>3, <1>6, TakesLock DEF Access

LEMMA FreeKeeps ==
    ASSUME Inv, NEW id, lock_Lookup(id) # {}, list' = lock_Remove(id),
           handles' = handles \ {id}, UNCHANGED <<server, cache, swapped>>
    PROVE  Inv'
<1>1. ListInv' /\ Held' \subseteq Held /\ (Alone => Alone')
  BY RemoveKeeps DEF lock_Lookup, Inv
<1>2. ServerInv'
  BY UnchangedServerInv DEF Inv
<1>. QED
  BY <1>1, <1>2 DEF Inv, LockedExists, OnServer, server

LEMMA OpenOldKeeps ==
    ASSUME Inv, NEW n \in Names, NEW mode \in {"SHARED", "EXCLUSIVE"}, OpenOld(n, mode)
    PROVE  Inv'
<1>. DEFINE key == dir[n]
<1>1. key \in FileIds /\ key \in OnServer /\ key # Root
  BY LocksAssumption DEF OpenOld, Inv, ServerInv, OnServer, Exists
<1>2. ServerInv' /\ UNCHANGED <<server, swapped>>
  BY UnchangedServerInv DEF OpenOld, Inv
<1>3. MayOpen(key, mode) /\ AddLock(key, mode, TRUE)
  BY DEF OpenOld
<1>. HIDE DEF key
<1>4. ~swapped => Compatible(key, mode)
  BY <1>3, FirstDecides DEF Inv, ListInv, MayOpen
<1>. QED
  BY <1>1, <1>2, <1>3, <1>4, TakesLock DEF Access

\* A new object and a lock on it, which no lock can be in the way of.
LEMMA CreateLocks ==
    ASSUME Inv, NEW n \in Names, ~Exists(n), NEW id \in NewIds, NEW t \in Types,
           ServerCreate(n, id, t), NEW access \in Access, NEW opens \in BOOLEAN,
           AddLock(id, access, opens), UNCHANGED cache, UNCHANGED swapped
    PROVE  Inv'
<1>1. /\ ServerInv' /\ id \in FileIds /\ id \in OnServer' /\ OnServer \subseteq OnServer'
      /\ ~swapped => \A i \in DOMAIN list : list[i].key # id
  BY CreateKeeps
<1>2. id # Root /\ (~swapped => Compatible(id, access))
  BY <1>1, LocksAssumption DEF Compatible
<1>3. /\ ListInv' /\ \A l \in Held' : l \in Held \/ l.key = id
      /\ Alone /\ Compatible(id, access) => Alone'
  BY <1>1, <1>2, AddLockKeeps DEF Inv
<1>4. LockedExists'
  BY <1>1, <1>3 DEF Inv, LockedExists
<1>. QED
  BY <1>1, <1>2, <1>3, <1>4 DEF Inv

LEMMA CreateOnly ==
    ASSUME Inv, NEW n \in Names, ~Exists(n), NEW id \in NewIds, NEW t \in Types,
           ServerCreate(n, id, t), UNCHANGED <<list, handles, cache, swapped>>
    PROVE  Inv'
<1>1. ServerInv' /\ OnServer \subseteq OnServer'
  BY CreateKeeps DEF cache
<1>2. ListInv' /\ Held' = Held /\ Alone' = Alone
  BY ListUnchanged DEF Inv
<1>. QED
  BY <1>1, <1>2 DEF Inv, LockedExists

\* Once an object was replaced behind the caches' back only the list counts.
LEMMA SwappedKeeps ==
    ASSUME ListInv', swapped' = TRUE,
           dir' \in [Names -> FileIds \cup {None}],
           type' \in [FileIds -> Types],
           names' \in [Names -> NEntry \cup {None}],
           attrs' \in [FileIds -> Types \cup {None}]
    PROVE  Inv'
BY DEF Inv, ServerInv, NamesTrue, LockedExists

\* FINDOUTPUT replaces an object that has no lock, or makes a new one.
LEMMA ReplaceKeeps ==
    ASSUME Inv, NEW n \in Names, OutputReplace(n), UNCHANGED cache PROVE Inv'
<1>1. PICK id \in NewIds \cup (IF Exists(n) THEN {dir[n]} ELSE {}) :
        ServerCreate(n, id, "file") /\ AddLock(id, "NEWFILE", TRUE)
  BY DEF OutputReplace
<1>2. swapped' = (swapped \/ Exists(n)) /\ swapped \in BOOLEAN
  BY DEF OutputReplace, Inv, ServerInv
<1>3. CASE ~Exists(n)
  <2>1. UNCHANGED swapped /\ id \in NewIds
    BY <1>2, <1>3
  <2>. QED
    BY <1>1, <1>3, <2>1, CreateLocks DEF Types, Access
<1>4. CASE Exists(n)
  <2>1. id \in FileIds /\ id # Root
    BY <1>4, LocksAssumption DEF NewIds, Exists, Inv, ServerInv
  <2>2. ListInv'
    BY <2>1, <1>1, AddLockKeeps DEF Inv, Access
  <2>3. /\ dir' \in [Names -> FileIds \cup {None}] /\ type' \in [FileIds -> Types]
        /\ names' = names /\ attrs' = attrs
    BY <1>1, <2>1 DEF ServerCreate, Inv, ServerInv, Types, cache
  <2>. QED
    BY <1>2, <1>4, <2>2, <2>3, SwappedKeeps DEF Inv, ServerInv
<1>. QED
  BY <1>3, <1>4

LEMMA OutputFailsKeeps ==
    ASSUME Inv, NEW n \in Names, OutputFails(n), UNCHANGED cache PROVE Inv'
<1>1. \/ dir' = [dir EXCEPT ![n] = None] /\ UNCHANGED type
      \/ \E id \in NewIds : ServerCreate(n, id, "file")
  BY DEF OutputFails
<1>2. /\ swapped' = (swapped \/ Exists(n)) /\ swapped \in BOOLEAN
      /\ UNCHANGED <<list, handles>> /\ ListInv'
  BY ListUnchanged DEF OutputFails, Inv, ServerInv
<1>3. CASE ~Exists(n)
  <2>1. UNCHANGED swapped
    BY <1>2, <1>3
  <2>2. CASE dir' = [dir EXCEPT ![n] = None] /\ UNCHANGED type
    <3>1. dir' = dir
      BY <1>3, <2>2 DEF Exists, Inv, ServerInv
    <3>2. ServerInv' /\ Held' = Held /\ Alone' = Alone
      BY <1>2, <2>1, <2>2, <3>1, UnchangedServerInv, ListUnchanged DEF Inv, server
    <3>. QED
      BY <1>2, <2>1, <3>1, <3>2 DEF Inv, LockedExists, OnServer
  <2>3. CASE \E id \in NewIds : ServerCreate(n, id, "file")
    BY <1>2, <1>3, <2>1, <2>3, CreateOnly DEF Types
  <2>. QED
    BY <1>1, <2>2, <2>3
<1>4. CASE Exists(n)
  <2>1. dir' \in [Names -> FileIds \cup {None}] /\ type' \in [FileIds -> Types]
    BY <1>1 DEF ServerCreate, NewIds, Inv, ServerInv, Types
  <2>. QED
    BY <1>2, <1>4, <2>1, SwappedKeeps DEF Inv, ServerInv, cache
<1>. QED
  BY <1>3, <1>4

LEMMA OutputKeeps ==
    ASSUME Inv, act_FINDOUTPUT PROVE Inv'
<1>1. PICK n \in Names : OutputInUse(n) \/ OutputReplace(n) \/ OutputFails(n) \/ OutputUnchecked(n)
  BY DEF act_FINDOUTPUT
<1>2. UNCHANGED cache
  BY DEF act_FINDOUTPUT
<1>3. CASE OutputInUse(n)
  <2>1. UNCHANGED <<list, handles>> /\ UNCHANGED <<server, cache, swapped>>
    BY <1>3 DEF OutputInUse, vars, server, cache
  <2>. QED
    BY <2>1, ListUnchanged, UnchangedServerInv DEF Inv, LockedExists, OnServer, server
<1>4. CASE OutputUnchecked(n)
  <2>1. dir[n] \in FileIds /\ dir[n] # Root /\ AddLock(dir[n], "NEWFILE", TRUE)
    BY <1>4, LocksAssumption DEF OutputUnchecked, Exists, Inv, ServerInv
  <2>2. ListInv'
    BY <2>1, AddLockKeeps DEF Inv, Access
  <2>. QED
    BY <1>2, <1>4, <2>2, SwappedKeeps DEF OutputUnchecked, Inv, ServerInv, cache, server
<1>. QED
  BY <1>1, <1>2, <1>3, <1>4, ReplaceKeeps, OutputFailsKeeps

LEMMA FromLockKeeps ==
    ASSUME Inv, act_FH_FROM_LOCK PROVE Inv'
<1>1. PICK l \in Held : l.key \in OnServer /\ handles' = handles \cup {l.id}
  BY DEF act_FH_FROM_LOCK, fh_Insert
<1>2. UNCHANGED list /\ UNCHANGED <<server, cache, swapped>>
  BY DEF act_FH_FROM_LOCK
<1>3. l \in Lock /\ l.key # Root
  BY <1>1, LocksAssumption DEF Inv, ListInv, Held, OnServer, ServerInv
<1>4. Held' = Held /\ DistinctIds' /\ Alone' = Alone
  BY <1>2 DEF Inv, ListInv, Held, DistinctIds, Alone
<1>5. \A k \in Held : k.id = l.id => k = l
  BY DEF Held, Inv, ListInv, DistinctIds
<1>6. RootShared'
  BY <1>1, <1>3, <1>4, <1>5 DEF RootShared, Inv, ListInv
<1>7. ListInv'
  BY <1>1, <1>2, <1>3, <1>4, <1>6 DEF ListInv, Inv, Lock
<1>. QED
  BY <1>2, <1>4, <1>7, UnchangedServerInv DEF Inv, LockedExists, OnServer, server

\* Counting the locks on an object: the only one is this one.
LEMMA OnlyLock ==
    ASSUME list \in Seq(Lock), NEW i \in DOMAIN list, lock_NumLocksFromKey(list[i].key) <= 1,
           NEW j \in DOMAIN list, list[j].key = list[i].key
    PROVE  i = j
<1>. DEFINE S == {k \in DOMAIN list : list[k].key = list[i].key}
<1>1. SUFFICES ASSUME i # j PROVE FALSE
  OBVIOUS
<1>2. IsFiniteSet(1 .. Len(list)) /\ DOMAIN list = 1 .. Len(list)
  BY FS_Interval
<1>3. IsFiniteSet(S) /\ {i, j} \subseteq S
  BY <1>2, FS_Subset
<1>4. Cardinality(S) <= 1
  BY DEF lock_NumLocksFromKey
<1>. HIDE DEF S
<1>5. Cardinality({i, j}) <= Cardinality(S) /\ Cardinality(S) \in Nat
  BY <1>3, FS_Subset, FS_CardinalityType
<1>6. Cardinality({i}) = 1 /\ IsFiniteSet({i})
  BY FS_Singleton
<1>7. Cardinality({i} \cup {j}) = 2
  <2>1. j \notin {i}
    BY <1>1
  <2>2. Cardinality({i} \cup {j}) = IF j \in {i} THEN Cardinality({i}) ELSE Cardinality({i}) + 1
    BY <1>6, FS_AddElement, Zenon
  <2>. QED
    BY <2>1, <2>2, <1>6
<1>8. {i} \cup {j} = {i, j}
  OBVIOUS
<1>. QED
  BY <1>4, <1>5, <1>7, <1>8

\* CHANGE_MODE makes the only lock on a file exclusive or shared.
LEMMA ChangeModeKeeps ==
    ASSUME Inv, act_CHANGE_MODE PROVE Inv'
<1>1. PICK i \in DOMAIN list, mode \in {"SHARED", "EXCLUSIVE"} :
        /\ list[i].id \in handles
        /\ lock_NumLocksFromKey(list[i].key) <= 1
        /\ list' = [list EXCEPT ![i].access = mode]
  BY DEF act_CHANGE_MODE
<1>2. UNCHANGED handles /\ UNCHANGED <<server, cache, swapped>>
  BY DEF act_CHANGE_MODE
<1>3. list \in Seq(Lock) /\ DOMAIN list = 1 .. Len(list)
  BY DEF Inv, ListInv
<1>4. /\ list' \in Seq(Lock) /\ DOMAIN list' = DOMAIN list
      /\ \A k \in DOMAIN list : /\ list'[k].id = list[k].id /\ list'[k].key = list[k].key
                                /\ list'[k].access = IF k = i THEN mode ELSE list[k].access
  <2>. DEFINE e == [id |-> list[i].id, key |-> list[i].key, access |-> mode]
  <2>1. list[i] \in Lock
    BY <1>3
  <2>2. e \in Lock /\ e = [list[i] EXCEPT !.access = mode]
    BY <2>1 DEF Lock, Access
  <2>3. list' = [list EXCEPT ![i] = e]
    BY <1>1, <2>2
  <2>4. e.id = list[i].id /\ e.key = list[i].key /\ e.access = mode
    OBVIOUS
  <2>. HIDE DEF e
  <2>. QED
    BY <1>3, <2>2, <2>3, <2>4
<1>5. {l.id : l \in Held'} = {l.id : l \in Held}
  BY <1>4 DEF Held
<1>6. list[i].key # Root
  BY <1>1 DEF Inv, ListInv, RootShared, Held
<1>7. RootShared'
  BY <1>2, <1>4, <1>6 DEF Inv, ListInv, RootShared, Held
<1>8. DistinctIds'
  BY <1>4 DEF Inv, ListInv, DistinctIds
<1>9. \A j \in DOMAIN list : list[j].key = list[i].key => i = j
  BY <1>1, <1>3, OnlyLock
<1>10. ~swapped => Alone'
  BY <1>4, <1>9 DEF Inv, Alone
<1>11. LockedExists'
  BY <1>2, <1>4 DEF Inv, LockedExists, OnServer, server, Held
<1>12. ListInv'
  BY <1>2, <1>4, <1>5, <1>7, <1>8 DEF Inv, ListInv
<1>. QED
  BY <1>2, <1>10, <1>11, <1>12, UnchangedServerInv DEF Inv

LEMMA SetSizeKeeps ==
    ASSUME Inv, act_SET_FILE_SIZE PROVE Inv'
<1>1. PICK l \in Held : l.key \in OnServer /\ attrs' = [attrs EXCEPT ![l.key] = type[l.key]]
  BY DEF act_SET_FILE_SIZE
<1>2. UNCHANGED <<list, handles>> /\ UNCHANGED <<names, dir, type, swapped>>
  BY DEF act_SET_FILE_SIZE, server
<1>3. l.key \in FileIds
  BY <1>1 DEF OnServer, Inv, ServerInv
<1>4. ServerInv'
  BY <1>1, <1>2, <1>3 DEF Inv, ServerInv, NamesTrue
<1>. QED
  BY <1>2, <1>4, ListUnchanged DEF Inv, LockedExists, OnServer

\* Names dropped from the cache leave the other cached names true.
LEMMA DroppedNames ==
    ASSUME NamesTrue, NEW n \in Names, names \in [Names -> NEntry \cup {None}],
           dir \in [Names -> FileIds \cup {None}],
           names' = [names EXCEPT ![n] = None], UNCHANGED <<type, swapped>>,
           dir' = [dir EXCEPT ![n] = None] \/ dir' = dir
    PROVE  NamesTrue'
<1>. SUFFICES ASSUME ~swapped, NEW m \in Names, names'[m] # None
              PROVE  names'[m].id = dir'[m] /\ names'[m].type = type[dir'[m]]
  BY DEF NamesTrue
<1>1. m # n /\ names'[m] = names[m] /\ dir'[m] = dir[m]
  OBVIOUS
<1>. QED
  BY <1>1 DEF NamesTrue

\* DELETE_OBJECT tests the locks of the object that it removes.
LEMMA DeleteKeeps ==
    ASSUME Inv, act_DELETE_OBJECT PROVE Inv'
<1>1. PICK n \in Names :
        /\ Found(n)
        /\ \/ MayDelete(n) /\ ForgetEntry(n) /\ (dir' = [dir EXCEPT ![n] = None] \/ UNCHANGED dir)
           \/ CacheEntry(n) /\ UNCHANGED dir
  BY DEF act_DELETE_OBJECT
<1>2. UNCHANGED <<list, handles>> /\ UNCHANGED <<type, swapped>>
  BY DEF act_DELETE_OBJECT
<1>3. ListInv' /\ Held' = Held /\ Alone' = Alone
  BY <1>2, ListUnchanged DEF Inv
<1>4. CASE CacheEntry(n) /\ UNCHANGED dir
  <2>1. ServerInv'
    BY <1>1, <1>2, <1>4, CacheEntryKeeps DEF Inv, server
  <2>. QED
    BY <1>2, <1>3, <1>4, <2>1 DEF Inv, LockedExists, OnServer
<1>5. CASE MayDelete(n) /\ ForgetEntry(n) /\ (dir' = [dir EXCEPT ![n] = None] \/ UNCHANGED dir)
  <2>1. /\ names' = [names EXCEPT ![n] = None]
        /\ names' \in [Names -> NEntry \cup {None}]
        /\ attrs' \in [FileIds -> Types \cup {None}]
    BY <1>1, <1>5, ForgetTypes DEF Inv
  <2>2. NamesTrue'
    BY <1>2, <1>5, <2>1, DroppedNames DEF Inv, ServerInv
  <2>3. ServerInv'
    BY <1>2, <1>5, <2>1, <2>2 DEF Inv, ServerInv
  <2>4. LockedExists'
    <3>. SUFFICES ASSUME ~swapped, NEW l \in Held, l.key # Root PROVE l.key \in OnServer'
      BY <1>2, <1>3 DEF LockedExists
    <3>1. PICK m \in Names : l.key = dir[m] /\ dir[m] # None
      BY DEF Inv, LockedExists, OnServer
    <3>2. GetNameEntry(n).id = dir[n]
      BY <1>1, EntryFacts DEF Inv
    <3>3. \A i \in DOMAIN list : list[i].key # dir[n]
      BY <1>5, <3>2, LookupFacts DEF MayDelete, Inv, ListInv
    <3>4. m # n
      BY <3>1, <3>3 DEF Held
    <3>5. dir'[m] = dir[m]
      BY <1>5, <3>4 DEF Inv, ServerInv
    <3>. QED
      BY <3>1, <3>5 DEF OnServer
  <2>. QED
    BY <1>2, <1>3, <2>3, <2>4 DEF Inv
<1>. QED
  BY <1>1, <1>4, <1>5

\* The server's rename, when the new name had no object.
LEMMA RenameMoves ==
    ASSUME Inv, NEW n1 \in Names, NEW n2 \in Names, n1 # n2, ~Exists(n2), ~swapped,
           Found(n1), RenameOnServer(n1, n2), ForgetEntry(n1), UNCHANGED <<type, swapped>>
    PROVE  ServerInv' /\ OnServer \subseteq OnServer'
<1>1. dir[n1] # None /\ dir' = [dir EXCEPT ![n1] = None, ![n2] = dir[n1]]
  BY DEF RenameOnServer, Exists
<1>2. /\ dir' \in [Names -> FileIds \cup {None}]
      /\ dir'[n1] = None /\ dir'[n2] = dir[n1]
      /\ \A m \in Names \ {n1, n2} : dir'[m] = dir[m]
  BY <1>1 DEF Inv, ServerInv
<1>3. /\ names' = [names EXCEPT ![n1] = None]
      /\ names' \in [Names -> NEntry \cup {None}]
      /\ attrs' \in [FileIds -> Types \cup {None}]
  BY ForgetTypes DEF Inv
<1>4. names[n2] = None
  <2>. SUFFICES ASSUME names[n2] # None PROVE FALSE
    OBVIOUS
  <2>1. names[n2] \in NEntry /\ names[n2].id = dir[n2]
    BY DEF Inv, ServerInv, NamesTrue
  <2>. QED
    BY <2>1, LocksAssumption DEF NEntry, Exists
<1>5. NamesTrue'
  <2>. SUFFICES ASSUME NEW m \in Names, names'[m] # None
                PROVE  names'[m].id = dir'[m] /\ names'[m].type = type[dir'[m]]
    BY DEF NamesTrue
  <2>1. m # n1 /\ m # n2 /\ names'[m] = names[m]
    BY <1>3, <1>4 DEF Inv, ServerInv
  <2>. QED
    BY <1>2, <2>1 DEF Inv, ServerInv, NamesTrue
<1>6. ServerInv'
  BY <1>2, <1>3, <1>5 DEF Inv, ServerInv
<1>7. ASSUME NEW m \in Names, dir[m] # None PROVE dir[m] \in OnServer'
  <2>1. m # n2
    BY <1>7 DEF Exists
  <2>2. CASE m = n1
    BY <1>2, <1>7, <2>2 DEF OnServer
  <2>3. CASE m # n1
    <3>1. dir'[m] = dir[m]
      BY <1>2, <2>1, <2>3
    <3>. QED
      BY <3>1, <1>7 DEF OnServer
  <2>. QED
    BY <2>2, <2>3
<1>. QED
  BY <1>6, <1>7 DEF OnServer

LEMMA RenameKeeps ==
    ASSUME Inv, act_RENAME_OBJECT PROVE Inv'
<1>1. PICK n1 \in Names, n2 \in Names :
        /\ n1 # n2 /\ Found(n1)
        /\ \/ RenameOnServer(n1, n2) /\ ForgetEntry(n1) /\ swapped' = (swapped \/ Exists(n2))
           \/ RenameOnServer(n1, n2) /\ CacheEntry(n1) /\ swapped' = TRUE
           \/ UNCHANGED <<dir, swapped>> /\ CacheEntry(n1)
  BY DEF act_RENAME_OBJECT
<1>2. UNCHANGED <<list, handles>> /\ UNCHANGED type /\ swapped \in BOOLEAN
  BY DEF act_RENAME_OBJECT, Inv, ServerInv
<1>3. ListInv' /\ Held' = Held /\ Alone' = Alone
  BY <1>2, ListUnchanged DEF Inv
<1>4. /\ RenameOnServer(n1, n2) => dir' \in [Names -> FileIds \cup {None}]
      /\ type' \in [FileIds -> Types]
  BY <1>2 DEF RenameOnServer, Inv, ServerInv
<1>5. CASE RenameOnServer(n1, n2) /\ ForgetEntry(n1) /\ swapped' = (swapped \/ Exists(n2))
  <2>1. /\ names' \in [Names -> NEntry \cup {None}]
        /\ attrs' \in [FileIds -> Types \cup {None}]
    BY <1>1, <1>5, ForgetTypes DEF Inv
  <2>2. CASE swapped \/ Exists(n2)
    BY <1>3, <1>4, <1>5, <2>1, <2>2, SwappedKeeps
  <2>3. CASE ~swapped /\ ~Exists(n2)
    <3>1. UNCHANGED <<type, swapped>>
      BY <1>2, <1>5, <2>3
    <3>2. ServerInv' /\ OnServer \subseteq OnServer'
      BY <1>1, <1>5, <2>3, <3>1, RenameMoves
    <3>. QED
      BY <1>3, <3>1, <3>2 DEF Inv, LockedExists
  <2>. QED
    BY <2>2, <2>3
<1>6. CASE RenameOnServer(n1, n2) /\ CacheEntry(n1) /\ swapped' = TRUE
  <2>1. GetNameEntry(n1) \in NEntry
    BY <1>1, EntryFacts DEF Inv
  <2>2. names' \in [Names -> NEntry \cup {None}]
    BY <1>6, <2>1 DEF CacheEntry, NamesAfter, Inv, ServerInv
  <2>3. attrs' \in [FileIds -> Types \cup {None}]
    BY <1>1, <1>6 DEF CacheEntry, AttrsAfter, Found, Exists, Inv, ServerInv
  <2>. QED
    BY <1>3, <1>4, <1>6, <2>2, <2>3, SwappedKeeps
<1>7. CASE UNCHANGED <<dir, swapped>> /\ CacheEntry(n1)
  <2>1. ServerInv'
    BY <1>1, <1>2, <1>7, CacheEntryKeeps DEF Inv, server
  <2>. QED
    BY <1>3, <1>7, <2>1 DEF Inv, LockedExists, OnServer
<1>. QED
  BY <1>1, <1>5, <1>6, <1>7

LEMMA ExpireKeeps ==
    ASSUME Inv, Expire PROVE Inv'
<1>1. UNCHANGED <<list, handles>> /\ UNCHANGED <<dir, type, swapped>>
  BY DEF Expire, server
<1>2. ListInv' /\ Held' = Held /\ Alone' = Alone
  BY <1>1, ListUnchanged DEF Inv
<1>3. CASE \E id \in FileIds : attrs' = [attrs EXCEPT ![id] = None] /\ UNCHANGED names
  <2>1. ServerInv'
    BY <1>1, <1>3 DEF Inv, ServerInv, NamesTrue
  <2>. QED
    BY <1>1, <1>2, <2>1 DEF Inv, LockedExists, OnServer
<1>4. CASE names' = dce_Delete /\ UNCHANGED attrs
  <2>1. ServerInv'
    BY <1>1, <1>4 DEF Inv, ServerInv, NamesTrue, dce_Delete
  <2>. QED
    BY <1>1, <1>2, <2>1 DEF Inv, LockedExists, OnServer
<1>. QED
  BY <1>3, <1>4 DEF Expire

-----------------------------------------------------------------------------
LEMMA InvInit == Init => Inv
<1>. SUFFICES ASSUME Init PROVE Inv
  OBVIOUS
<1>1. ListInv /\ Alone /\ Held = {}
  BY DEF Init, ListInv, Alone, DistinctIds, RootShared, Held
<1>2. ServerInv
  BY DEF Init, ServerInv, NamesTrue, Types
<1>. QED
  BY <1>1, <1>2 DEF Inv, LockedExists

\* Every packet, whatever the server answers, keeps the invariant.
LEMMA InvStep == Inv /\ [Next]_vars => Inv'
<1>. SUFFICES ASSUME Inv, [Next]_vars PROVE Inv'
  OBVIOUS
<1>1. CASE act_LOCATE_OBJECT
  BY <1>1, LocateKeeps
<1>2. CASE LocateRoot
  BY <1>2, RootKeeps DEF LocateRoot
<1>3. CASE act_FREE_LOCK
  <2>1. PICK id \in LockIds \ handles : lock_Lookup(id) # {} /\ list' = lock_Remove(id)
    BY <1>3 DEF act_FREE_LOCK
  <2>2. handles' = handles \ {id} /\ UNCHANGED <<server, cache, swapped>>
    BY <1>3 DEF act_FREE_LOCK
  <2>. QED
    BY <2>1, <2>2, FreeKeeps
<1>4. CASE act_COPY_DIR
  BY <1>4, CopyKeeps DEF act_COPY_DIR, lock_Lookup
<1>5. CASE act_COPY_DIR_FH
  BY <1>5, CopyKeeps DEF act_COPY_DIR_FH, fh_Lookup, lock_Lookup
<1>6. CASE act_PARENT_FH
  BY <1>6, RootKeeps DEF act_PARENT_FH
<1>7. CASE act_FINDINPUT
  BY <1>7, OpenOldKeeps DEF act_FINDINPUT
<1>8. CASE act_FINDUPDATE
  <2>1. PICK n \in Names :
          \/ OpenOld(n, "EXCLUSIVE")
          \/ /\ ~Exists(n)
             /\ \E id \in NewIds : ServerCreate(n, id, "file") /\ AddLock(id, "EXCLUSIVE", TRUE)
             /\ UNCHANGED <<cache, swapped>>
    BY <1>8 DEF act_FINDUPDATE
  <2>2. CASE OpenOld(n, "EXCLUSIVE")
    BY <2>2, OpenOldKeeps
  <2>3. CASE /\ ~Exists(n)
             /\ \E id \in NewIds : ServerCreate(n, id, "file") /\ AddLock(id, "EXCLUSIVE", TRUE)
             /\ UNCHANGED <<cache, swapped>>
    BY <2>3, CreateLocks DEF Types, Access
  <2>. QED
    BY <2>1, <2>2, <2>3
<1>9. CASE act_FINDOUTPUT
  BY <1>9, OutputKeeps
<1>10. CASE act_FH_FROM_LOCK
  BY <1>10, FromLockKeeps
<1>11. CASE act_END
  <2>1. PICK id \in handles : list' = lock_Remove(id) /\ handles' = handles \ {id}
    BY <1>11 DEF act_END, fh_Remove
  <2>2. lock_Lookup(id) # {}
    BY <2>1 DEF lock_Lookup, Inv, ListInv
  <2>3. UNCHANGED <<server, cache, swapped>>
    BY <1>11 DEF act_END
  <2>. QED
    BY <2>1, <2>2, <2>3, FreeKeeps
<1>12. CASE act_CHANGE_MODE
  BY <1>12, ChangeModeKeeps
<1>13. CASE act_SET_FILE_SIZE
  BY <1>13, SetSizeKeeps
<1>14. CASE act_DELETE_OBJECT
  BY <1>14, DeleteKeeps
<1>15. CASE act_CREATE_DIR
  <2>1. PICK n \in Names, id \in NewIds :
          /\ ~Exists(n) /\ ServerCreate(n, id, "dir")
          /\ AddLock(id, "EXCLUSIVE", FALSE) \/ UNCHANGED <<list, handles>>
    BY <1>15 DEF act_CREATE_DIR
  <2>2. UNCHANGED cache /\ UNCHANGED swapped
    BY <1>15 DEF act_CREATE_DIR
  <2>3. CASE AddLock(id, "EXCLUSIVE", FALSE)
    BY <2>1, <2>2, <2>3, CreateLocks DEF Types, Access
  <2>4. CASE UNCHANGED <<list, handles>>
    BY <2>1, <2>2, <2>4, CreateOnly DEF Types
  <2>. QED
    BY <2>1, <2>3, <2>4
<1>16. CASE act_CREATE_OBJECT
  BY <1>16, CreateOnly DEF act_CREATE_OBJECT, Types
<1>17. CASE act_RENAME_OBJECT
  BY <1>17, RenameKeeps
<1>18. CASE Expire
  BY <1>18, ExpireKeeps
<1>19. CASE UNCHANGED vars
  <2>1. UNCHANGED <<list, handles>> /\ UNCHANGED <<server, cache, swapped>>
    BY <1>19 DEF vars, server, cache
  <2>. QED
    BY <2>1, ListUnchanged, UnchangedServerInv DEF Inv, LockedExists, OnServer, server
<1>. QED
  BY <1>1, <1>2, <1>3, <1>4, <1>5, <1>6, <1>7, <1>8, <1>9, <1>10, <1>11, <1>12, <1>13,
     <1>14, <1>15, <1>16, <1>17, <1>18, <1>19 DEF Next

LEMMA InvInvariant == Spec => []Inv
BY InvInit, InvStep, PTL DEF Spec

\* efh_ELock of an open handle never dangles, and no two locks of the list
\* are at the same address: for every sequence of packets, server failures
\* included.
THEOREM HandlesLockedInvariant == Spec => []HandlesLocked
<1>1. Inv => HandlesLocked
  BY DEF Inv, ListInv, ServerInv, HandlesLocked, TypeOK, DistinctIds
<1>. QED
  BY <1>1, InvInvariant, PTL

\* An exclusive lock is alone on its object although DupELock and the find
\* packets look at the first lock only.
THEOREM ExclusiveAloneInvariant == Spec => []ExclusiveAlone
<1>1. Inv => ExclusiveAlone
  BY DEF Inv, Alone, ExclusiveAlone
<1>. QED
  BY <1>1, InvInvariant, PTL

\* Locked objects stay on the server and cached names are the server's, so
\* that DELETE_OBJECT and RENAME_OBJECT test the locks of the right object.
THEOREM LocksProtectInvariant == Spec => []LocksProtect
<1>1. Inv => LocksProtect
  BY DEF Inv, ServerInv, NamesTrue, LocksProtect, NamesExact, CacheHit, dc_NELookup
<1>. QED
  BY <1>1, InvInvariant, PTL
=============================================================================
