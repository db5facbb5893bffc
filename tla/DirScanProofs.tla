---------------------------- MODULE DirScanProofs ----------------------------
(***************************************************************************)
(* Theorems about DirScan: the handles of the scans are neither shared nor *)
(* lost, and a scan is complete and without repetition.                    *)
(***************************************************************************)
EXTENDS DirScan, FiniteSetTheorems, SequenceTheorems, FunctionTheorems, NaturalsInduction,
        WellFoundedInduction, TLAPS

----------------------------------------------------------------------------
(* The inductive invariant.                                                *)

Handles == [addr : Addrs, name : 0 .. NoName, cookie : 0 .. NumSlots,
            entries : Seq(Slots), eof : BOOLEAN]

Packets == [prog : Progs, edh : Nat \ {0}, step : {"read", "take"}, room : 0 .. Room]

Types ==
    /\ present \in SUBSET Slots
    /\ DH \in Seq(Handles)
    /\ scan \in [Progs -> {"none", "on", "ended", "failed"}]
    /\ fib \in [NextProgs -> 0 .. NumSlots]
    /\ lastkey \in [AllProgs -> Addrs \cup {NoAddr}]
    /\ pkt = NoPacket \/ pkt \in Packets
    /\ got \in [Progs -> Seq(Slots)]
    /\ stable \in [Progs -> SUBSET Slots]
    /\ cut \in [Progs -> BOOLEAN]
    /\ abandoned \in Nat /\ started \in 0 .. MaxScans

\* A handle the program finds with what it brings back.
Mine(p, h) ==
    \/ p \in NextProgs /\ h.name = fib[p]
    \/ p \in AllProgs /\ h.name = NoName /\ h.addr = lastkey[p]

\* The packet that runs works on a handle of its program, and reads only
\* when the list of the handle is used up and was not the last one.
PacketInv ==
    pkt # NoPacket =>
        /\ pkt.edh \in 1 .. Len(DH)
        /\ scan[pkt.prog] = "on"
        /\ Mine(pkt.prog, Edh)
        /\ pkt.step = "take" => Edh.entries # <<>>
        /\ pkt.step = "read" => Edh.entries = <<>> /\ ~Edh.eof

\* Addresses tell handles apart.
AddrInv == \A i, j \in 1 .. Len(DH) : DH[i].addr = DH[j].addr => i = j

\* The handles with a name in S, the programs on an entry, the scans that
\* are on, and those of them that stand on an entry or know an address.
Named(D, S) == {i \in 1 .. Len(D) : D[i].name \in S}
On == {p \in Progs : scan[p] = "on"}
OnEntry(s) == {p \in NextProgs : scan[p] = "on" /\ fib[p] = s}
Owners == {p \in Progs : /\ scan[p] = "on"
                         /\ \/ p \in NextProgs /\ fib[p] # Root
                            \/ p \in AllProgs /\ lastkey[p] # NoAddr}
Placed == 1 .. NoName       \* the names of handles that have an owner

\* A handle that still stands on the directory itself is the only one, and
\* there is a program that would find it; the others have owners or were
\* given up.
CountInv ==
    /\ Cardinality(Named(DH, Placed)) <= abandoned + Cardinality(Owners)
    /\ \A i, j \in Named(DH, {Root}) : i = j
    /\ Named(DH, {Root}) # {} => OnEntry(Root) # {}
    /\ abandoned + Cardinality(On) <= started

\* The two parts of EachScanHasHandle.
OnHandles == \A s \in Slots : Cardinality(OnEntry(s)) <= Cardinality(Named(DH, {s}))
KnownAddr ==
    \A p \in AllProgs :
        scan[p] = "on" /\ lastkey[p] # NoAddr =>
            /\ \E i \in 1 .. Len(DH) : DH[i].addr = lastkey[p] /\ DH[i].name = NoName
            /\ \A q \in AllProgs \ {p} : scan[q] = "on" => lastkey[q] # lastkey[p]

HandleInv == AddrInv /\ OnHandles /\ KnownAddr /\ CountInv

\* Where the program is that goes on with the handle.
Pos(h) == IF h.name = NoName THEN h.cookie ELSE h.name

\* The list of a handle goes on after its cookie, in the order of the
\* directory.
Ordered(h) ==
    /\ h.name # NoName => h.name <= h.cookie
    /\ \A k \in 1 .. Len(h.entries) : h.entries[k] > h.cookie
    /\ \A j, k \in 1 .. Len(h.entries) : j < k => h.entries[j] < h.entries[k]

\* A program that may be handed the handle, and the entries that the handle
\* has to bring up for these programs.
Serves(h, p) ==
    /\ scan[p] = "on"
    /\ \/ p \in NextProgs /\ h.name # NoName
       \/ p \in AllProgs /\ h.name = NoName /\ h.addr = lastkey[p]
Due(h) == {s \in Slots : \E p \in Progs : Serves(h, p) /\ s \in stable[p]}

\* Of the ordinary files that are due, those ahead are in the list or will
\* be read.
Complete(h, due) ==
    \A s \in due \ Skipped :
        s > Pos(h) =>
            \/ \E k \in 1 .. Len(h.entries) : h.entries[k] = s
            \/ ~h.eof /\ s > h.cookie /\ \A k \in 1 .. Len(h.entries) : h.entries[k] < s

ListsInv == \A i \in 1 .. Len(DH) : Ordered(DH[i]) /\ Complete(DH[i], Due(DH[i]))

\* What a program was given: entries in ascending order, and of those it
\* wants none missing up to a place.
Ascends(g) == \A j, k \in 1 .. Len(g) : j < k => g[j] < g[k]
Given(g, s) == \E k \in 1 .. Len(g) : g[k] = s
UpTo(g, want, place) ==
    /\ \A k \in 1 .. Len(g) : g[k] <= place
    /\ \A s \in want : s <= place => Given(g, s)
Want(p) == (stable[p] \ Skipped) \cap Wanted(p)

GotOK(p) ==
    /\ stable[p] \subseteq present
    /\ Ascends(got[p])
    /\ scan[p] = "on" /\ p \in NextProgs => UpTo(got[p], Want(p), fib[p])
    /\ scan[p] = "on" /\ p \in AllProgs =>
          /\ lastkey[p] = NoAddr => got[p] = <<>>
          /\ \A i \in 1 .. Len(DH) :
                DH[i].addr = lastkey[p] => UpTo(got[p], Want(p), DH[i].cookie)
    /\ scan[p] = "ended" /\ ~cut[p] => \A s \in Want(p) : Given(got[p], s)

GotInv == \A p \in Progs : GotOK(p)

Inv == Types /\ PacketInv /\ HandleInv /\ ListsInv /\ GotInv

----------------------------------------------------------------------------
(* Lists of handles.                                                       *)

Without(D, i) == SubSeq(D, 1, i - 1) \o SubSeq(D, i + 1, Len(D))

LEMMA WithoutEntries ==
    ASSUME NEW H, NEW D \in Seq(H), NEW i \in 1 .. Len(D)
    PROVE  /\ Without(D, i) \in Seq(H)
           /\ Len(Without(D, i)) = Len(D) - 1
           /\ \A k \in 1 .. Len(D) - 1 :
                 Without(D, i)[k] = IF k < i THEN D[k] ELSE D[k + 1]
<1>. DEFINE a == SubSeq(D, 1, i - 1)
            b == SubSeq(D, i + 1, Len(D))
<1>1. Len(D) \in Nat /\ i \in Int /\ 1 <= i /\ i <= Len(D) /\ \A k \in 1 .. Len(D) : D[k] \in H
  OBVIOUS
<1>2. /\ a \in Seq(H) /\ Len(a) = i - 1
      /\ \A k \in 1 .. i - 1 : a[k] = D[k]
  BY <1>1, SubSeqProperties
<1>3. /\ b \in Seq(H) /\ Len(b) = Len(D) - i
      /\ \A k \in 1 .. Len(D) - i : b[k] = D[i + k]
  BY <1>1, SubSeqProperties
<1>. HIDE DEF a, b
<1>. DEFINE t == a \o b
<1>4. /\ t \in Seq(H) /\ Len(t) = Len(a) + Len(b)
      /\ \A k \in 1 .. Len(a) + Len(b) :
            t[k] = IF k <= Len(a) THEN a[k] ELSE b[k - Len(a)]
  BY <1>2, <1>3, ConcatProperties, Zenon
<1>5. Without(D, i) = t
  BY DEF Without, a, b
<1>. HIDE DEF t
<1>6. Len(t) = Len(D) - 1
  BY <1>1, <1>2, <1>3, <1>4
<1>7. ASSUME NEW k \in 1 .. Len(D) - 1
      PROVE  t[k] = IF k < i THEN D[k] ELSE D[k + 1]
  <2>1. CASE k < i
    <3>0. k \in 1 .. Len(a) + Len(b) /\ k <= Len(a)
      BY <2>1, <1>1, <1>2, <1>3
    <3>1. t[k] = a[k]
      BY <3>0, <1>4, Zenon
    <3>2. a[k] = D[k]
      BY <2>1, <1>1, <1>2
    <3>. QED  BY <3>1, <3>2, <2>1
  <2>2. CASE ~(k < i)
    <3>1. t[k] = b[k - (i - 1)]
      BY <2>2, <1>1, <1>2, <1>3, <1>4
    <3>2. b[k - (i - 1)] = D[k + 1]
      BY <2>2, <1>1, <1>3
    <3>. QED  BY <3>1, <3>2, <2>2
  <2>. QED  BY <2>1, <2>2
<1>. QED  BY <1>4, <1>5, <1>6, <1>7, Zenon

LEMMA InsertEntries ==
    ASSUME NEW H, NEW D \in Seq(H), NEW h \in H
    PROVE  /\ <<h>> \o D \in Seq(H)
           /\ Len(<<h>> \o D) = Len(D) + 1
           /\ (<<h>> \o D)[1] = h
           /\ \A k \in 1 .. Len(D) : (<<h>> \o D)[k + 1] = D[k]
           /\ \A k \in 2 .. Len(D) + 1 : (<<h>> \o D)[k] = D[k - 1]
<1>1. <<h>> \in Seq(H) /\ Len(<<h>>) = 1 /\ <<h>>[1] = h /\ Len(D) \in Nat
  OBVIOUS
<1>. QED  BY <1>1

LEMMA NamedFinite ==
    ASSUME NEW D \in Seq(Handles), NEW S
    PROVE  /\ Named(D, S) \subseteq 1 .. Len(D) /\ IsFiniteSet(Named(D, S))
           /\ Cardinality(Named(D, S)) \in Nat
<1>1. Named(D, S) \subseteq 1 .. Len(D) /\ Len(D) \in Nat
  BY DEF Named
<1>2. IsFiniteSet(1 .. Len(D))
  BY <1>1, FS_Interval
<1>. QED  BY <1>1, <1>2, FS_Subset, FS_CardinalityType

\* A handle that is removed leaves the counts of the other names alone.
LEMMA CountRemoved ==
    ASSUME NEW D \in Seq(Handles), NEW i \in 1 .. Len(D), NEW S
    PROVE  Cardinality(Named(Without(D, i), S)) =
               Cardinality(Named(D, S)) - (IF D[i].name \in S THEN 1 ELSE 0)
<1>. DEFINE R == Without(D, i)
            X == Named(D, S) \ {i}
            Y == Named(R, S)
            f == [x \in X |-> IF x < i THEN x ELSE x - 1]
<1>1. /\ R \in Seq(Handles) /\ Len(R) = Len(D) - 1
      /\ \A k \in 1 .. Len(D) - 1 : R[k] = IF k < i THEN D[k] ELSE D[k + 1]
  BY WithoutEntries
<1>2. Len(D) \in Nat
  OBVIOUS
<1>. HIDE DEF R
<1>3. \A x \in X : x \in 1 .. Len(D) /\ x # i /\ D[x].name \in S
  BY DEF Named
<1>4. \A x \in X : (IF x < i THEN x ELSE x - 1) \in Y
  <2>. SUFFICES ASSUME NEW x \in X PROVE (IF x < i THEN x ELSE x - 1) \in Y
    OBVIOUS
  <2>1. CASE x < i
    BY <1>1, <1>2, <1>3, <2>1 DEF Named
  <2>2. CASE x > i
    <3>1. x - 1 \in 1 .. Len(R) /\ ~(x - 1 < i) /\ (x - 1) + 1 = x
      BY <1>1, <1>2, <1>3, <2>2
    <3>2. R[x - 1] = D[x]
      BY <1>1, <3>1
    <3>. QED  BY <1>2, <1>3, <2>2, <3>1, <3>2 DEF Named
  <2>. QED  BY <1>2, <1>3, <2>1, <2>2
<1>5. f \in [X -> Y]
  BY <1>4
<1>6. \A x, y \in X : f[x] = f[y] => x = y
  BY <1>2, <1>3
<1>7. \A y \in Y : \E x \in X : f[x] = y
  <2>. SUFFICES ASSUME NEW y \in Y PROVE \E x \in X : f[x] = y
    OBVIOUS
  <2>1. y \in 1 .. Len(R) /\ R[y].name \in S
    BY DEF Named
  <2>2. CASE y < i
    <3>1. y \in X
      BY <1>1, <1>2, <2>1, <2>2 DEF Named
    <3>. QED  BY <2>2, <3>1
  <2>3. CASE y >= i
    <3>1. y + 1 \in X
      BY <1>1, <1>2, <2>1, <2>3 DEF Named
    <3>2. f[y + 1] = y
      BY <1>1, <1>2, <2>1, <2>3, <3>1
    <3>. QED  BY <3>1, <3>2
  <2>. QED  BY <1>1, <1>2, <2>1, <2>2, <2>3
<1>8. IsFiniteSet(Named(D, S)) /\ IsFiniteSet(X) /\ Cardinality(Named(D, S)) \in Nat
  BY NamedFinite, FS_Subset
<1>9. Cardinality(Y) = Cardinality(X)
  <2>1. f \in Bijection(X, Y)
    <3>. HIDE DEF f, X, Y
    <3>1. f \in Injection(X, Y)
      BY <1>5, <1>6, Fun_IsInj
    <3>2. f \in Surjection(X, Y)
      BY <1>5, <1>7, Fun_IsSurj
    <3>. QED  BY <3>1, <3>2, Fun_IsBij
  <2>. HIDE DEF f, X, Y
  <2>. QED  BY <2>1, <1>8, FS_Bijection, Fun_ExistsBij
<1>10. CASE D[i].name \in S
  <2>1. i \in Named(D, S)
    BY <1>10 DEF Named
  <2>2. Cardinality(X) = Cardinality(Named(D, S)) - 1
    BY <1>8, <2>1, FS_RemoveElement
  <2>. QED  BY <1>9, <1>10, <2>2 DEF R
<1>11. CASE D[i].name \notin S
  <2>1. X = Named(D, S)
    BY <1>11 DEF Named
  <2>2. Cardinality(Named(R, S)) = Cardinality(Named(D, S))
    BY <1>9, <2>1
  <2>. QED  BY <1>8, <1>11, <2>2 DEF R
<1>. QED  BY <1>10, <1>11

LEMMA CountInserted ==
    ASSUME NEW D \in Seq(Handles), NEW h \in Handles, NEW S
    PROVE  Cardinality(Named(<<h>> \o D, S)) =
               Cardinality(Named(D, S)) + (IF h.name \in S THEN 1 ELSE 0)
<1>. DEFINE R == <<h>> \o D
<1>1. /\ R \in Seq(Handles) /\ Len(R) = Len(D) + 1 /\ Len(D) \in Nat
      /\ R[1] = h
      /\ \A k \in 1 .. Len(D) : R[k + 1] = D[k]
  BY InsertEntries
<1>. HIDE DEF R
<1>2. Without(R, 1) = D
  <2>1. /\ Without(R, 1) \in Seq(Handles) /\ Len(Without(R, 1)) = Len(D)
        /\ \A k \in 1 .. Len(D) : Without(R, 1)[k] = R[k + 1]
    <3>1. 1 \in 1 .. Len(R)
      BY <1>1
    <3>2. /\ Without(R, 1) \in Seq(Handles) /\ Len(Without(R, 1)) = Len(R) - 1
          /\ \A k \in 1 .. Len(R) - 1 :
                Without(R, 1)[k] = IF k < 1 THEN R[k] ELSE R[k + 1]
      BY <1>1, <3>1, WithoutEntries, Zenon
    <3>. QED  BY <1>1, <3>2
  <2>2. \A k \in 1 .. Len(D) : Without(R, 1)[k] = D[k]
    BY <1>1, <2>1
  <2>3. Len(Without(R, 1)) = Len(D)
    BY <2>1
  <2>. HIDE DEF Without
  <2>. QED  BY <2>1, <2>2, <2>3, SeqEqual, Zenon
<1>3. Cardinality(Named(D, S)) =
          Cardinality(Named(R, S)) - (IF R[1].name \in S THEN 1 ELSE 0)
  BY <1>1, <1>2, CountRemoved
<1>4. Cardinality(Named(R, S)) \in Nat
  BY <1>1, NamedFinite
<1>. QED  BY <1>1, <1>3, <1>4 DEF R

LEMMA CountChanged ==
    ASSUME NEW D \in Seq(Handles), NEW i \in 1 .. Len(D), NEW h \in Handles, NEW S
    PROVE  Cardinality(Named([D EXCEPT ![i] = h], S)) =
               Cardinality(Named(D, S)) - (IF D[i].name \in S THEN 1 ELSE 0)
                                        + (IF h.name \in S THEN 1 ELSE 0)
<1>. DEFINE R == [D EXCEPT ![i] = h]
            X == Named(D, S) \ {i}
<1>1. /\ R \in Seq(Handles) /\ Len(R) = Len(D) /\ R[i] = h
      /\ \A k \in 1 .. Len(D) : k # i => R[k] = D[k]
  OBVIOUS
<1>. HIDE DEF R
<1>2. Named(R, S) \ {i} = X
  BY <1>1 DEF Named
<1>3. /\ IsFiniteSet(Named(D, S)) /\ Cardinality(Named(D, S)) \in Nat
      /\ IsFiniteSet(X)
      /\ IsFiniteSet(Named(R, S)) /\ Cardinality(Named(R, S)) \in Nat
  BY <1>1, NamedFinite, FS_Subset
<1>4. /\ i \in Named(D, S) <=> D[i].name \in S
      /\ i \in Named(R, S) <=> h.name \in S
  BY <1>1 DEF Named
<1>5. Cardinality(X) = Cardinality(Named(D, S)) - (IF D[i].name \in S THEN 1 ELSE 0)
  <2>1. Cardinality(X) = IF i \in Named(D, S) THEN Cardinality(Named(D, S)) - 1
                         ELSE Cardinality(Named(D, S))
    BY <1>3, FS_RemoveElement, Zenon
  <2>. QED  BY <1>3, <1>4, <2>1
<1>6. Cardinality(X) = Cardinality(Named(R, S)) - (IF h.name \in S THEN 1 ELSE 0)
  <2>1. Cardinality(X) = IF i \in Named(R, S) THEN Cardinality(Named(R, S)) - 1
                         ELSE Cardinality(Named(R, S))
    BY <1>2, <1>3, FS_RemoveElement, Zenon
  <2>. QED  BY <1>3, <1>4, <2>1
<1>7. Cardinality(X) \in Nat
  BY <1>3, FS_CardinalityType
<1>. QED  BY <1>3, <1>5, <1>6, <1>7 DEF R

----------------------------------------------------------------------------
(* Lookups, addresses, and sets of programs.                               *)

LEMMA LeastOf ==
    ASSUME NEW S \in SUBSET Nat, S # {}
    PROVE  \E x \in S : \A y \in S : x <= y
<1>1. PICK x \in S : \A y \in S : <<y, x>> \notin OpToRel(<, Nat)
  BY NatLessThanWellFounded, WFMin, Zenon
<1>2. \A y \in S : ~(y < x)
  BY <1>1, Zenon DEF OpToRel
<1>3. \A y \in S : x <= y
  BY <1>2
<1>. QED  BY <1>3

LEMMA FirstOfFacts ==
    ASSUME NEW hits \in SUBSET (Nat \ {0})
    PROVE  /\ hits = {} => FirstOf(hits) = 0
           /\ hits # {} => FirstOf(hits) \in hits
<1>1. ASSUME hits # {} PROVE FirstOf(hits) \in hits
  <2>1. \E x \in hits : \A y \in hits : x <= y
    BY <1>1, LeastOf
  <2>2. (CHOOSE i \in hits : \A j \in hits : i <= j) \in hits
    BY <2>1
  <2>. QED  BY <1>1, <2>2 DEF FirstOf
<1>. QED  BY <1>1 DEF FirstOf

LEMMA LookupName ==
    ASSUME Types, NEW name
    PROVE  LET i == dir_LookupFromKeyAndCookieAndCBSTR(name)
           IN  /\ i # 0 => i \in 1 .. Len(DH) /\ DH[i].name = name
               /\ i = 0 => Named(DH, {name}) = {}
<1>. DEFINE hits == {i \in 1 .. Len(DH) : DH[i].name = name}
<1>1. hits \in SUBSET (Nat \ {0}) /\ 0 \notin hits /\ hits = Named(DH, {name})
  BY DEF Types, Named
<1>2. (hits = {} => FirstOf(hits) = 0) /\ (hits # {} => FirstOf(hits) \in hits)
  BY <1>1, FirstOfFacts, Zenon
<1>3. FirstOf(hits) \in hits => FirstOf(hits) \in 1 .. Len(DH) /\ DH[FirstOf(hits)].name = name
  BY Zenon
<1>. HIDE DEF hits
<1>4. dir_LookupFromKeyAndCookieAndCBSTR(name) = FirstOf(hits)
  BY Zenon DEF dir_LookupFromKeyAndCookieAndCBSTR, hits
<1>. QED  BY <1>1, <1>2, <1>3, <1>4, Zenon

LEMMA LookupAddress ==
    ASSUME Types, NEW addr
    PROVE  LET i == dir_LookupFromAddress(addr)
           IN  /\ i # 0 => i \in 1 .. Len(DH) /\ DH[i].addr = addr
               /\ i = 0 => \A j \in 1 .. Len(DH) : DH[j].addr # addr
<1>. DEFINE hits == {i \in 1 .. Len(DH) : DH[i].addr = addr}
<1>1. hits \in SUBSET (Nat \ {0}) /\ 0 \notin hits
  BY DEF Types
<1>2. (hits = {} => FirstOf(hits) = 0) /\ (hits # {} => FirstOf(hits) \in hits)
  BY <1>1, FirstOfFacts, Zenon
<1>3. FirstOf(hits) \in hits => FirstOf(hits) \in 1 .. Len(DH) /\ DH[FirstOf(hits)].addr = addr
  BY Zenon
<1>4. hits = {} => \A j \in 1 .. Len(DH) : DH[j].addr # addr
  BY Zenon
<1>. HIDE DEF hits
<1>5. dir_LookupFromAddress(addr) = FirstOf(hits)
  BY Zenon DEF dir_LookupFromAddress, hits
<1>. QED  BY <1>1, <1>2, <1>3, <1>4, <1>5, Zenon

LEMMA IntervalSize ==
    ASSUME NEW n \in Nat
    PROVE  IsFiniteSet(1 .. n) /\ Cardinality(1 .. n) = n
BY FS_Interval

\* There is an address for a new handle while there are fewer handles than
\* scans.
LEMMA FreshAddress ==
    ASSUME Types, Len(DH) < MaxScans
    PROVE  AllocVec \in Addrs /\ \A i \in 1 .. Len(DH) : DH[i].addr # AllocVec
<1>. DEFINE I == 1 .. Len(DH)
            used == {DH[i].addr : i \in I}
            f == [i \in I |-> DH[i].addr]
            free == Addrs \ used
<1>1. Len(DH) \in Nat /\ MaxScans \in Nat
  BY DirScanAssumption DEF Types
<1>2. IsFiniteSet(I) /\ Cardinality(I) = Len(DH)
  BY <1>1, IntervalSize, Zenon
<1>3. IsFiniteSet(Addrs) /\ Cardinality(Addrs) = MaxScans
  BY <1>1, IntervalSize, Zenon DEF Addrs
<1>4. f \in Surjection(I, used)
  <2>1. f \in [I -> used] /\ \A t \in used : \E s \in I : f[s] = t
    OBVIOUS
  <2>. HIDE DEF f, I, used
  <2>. QED  BY <2>1, Fun_IsSurj
<1>5. IsFiniteSet(used) /\ Cardinality(used) <= Len(DH)
  <2>. HIDE DEF f, I, used
  <2>. QED  BY <1>2, <1>4, FS_Surjection
<1>6. free # {}
  <2>. SUFFICES ASSUME Addrs \subseteq used PROVE FALSE
    BY Zenon
  <2>. HIDE DEF used
  <2>1. Cardinality(Addrs) <= Cardinality(used)
    BY <1>5, FS_Subset
  <2>2. Cardinality(used) \in Nat
    BY <1>5, FS_CardinalityType
  <2>. QED  BY <1>1, <1>3, <1>5, <2>1, <2>2
<1>7. free \in SUBSET Nat
  BY DEF Addrs
<1>8. \E a \in free : \A b \in free : a <= b
  <2>. HIDE DEF free
  <2>. QED  BY <1>6, <1>7, LeastOf
<1>9. AllocVec \in free
  <2>1. AllocVec = CHOOSE a \in free : \A b \in free : a <= b
    BY Zenon DEF AllocVec
  <2>. HIDE DEF free
  <2>. QED  BY <1>8, <2>1
<1>. HIDE DEF AllocVec
<1>. QED  BY <1>9

LEMMA ProgsFinite == IsFiniteSet(Progs)
BY DirScanAssumption, FS_Union DEF Progs

LEMMA FiniteProgs ==
    ASSUME NEW S \in SUBSET Progs
    PROVE  IsFiniteSet(S) /\ Cardinality(S) \in Nat
BY ProgsFinite, FS_Subset, FS_CardinalityType

LEMMA ProgSets ==
    /\ On \in SUBSET Progs /\ IsFiniteSet(On) /\ Cardinality(On) \in Nat
    /\ Owners \in SUBSET Progs /\ IsFiniteSet(Owners) /\ Cardinality(Owners) \in Nat
    /\ \A s : /\ OnEntry(s) \in SUBSET Progs /\ IsFiniteSet(OnEntry(s))
              /\ Cardinality(OnEntry(s)) \in Nat
<1>1. On \in SUBSET Progs /\ Owners \in SUBSET Progs
  BY DEF On, Owners
<1>2. \A s : OnEntry(s) \in SUBSET Progs
  BY DEF OnEntry, Progs
<1>. QED  BY <1>1, <1>2, FiniteProgs, Zenon

\* The handles are the one on the directory and the others.
LEMMA LenByNames ==
    ASSUME Types
    PROVE  Len(DH) = Cardinality(Named(DH, Placed)) + Cardinality(Named(DH, {Root}))
<1>. DEFINE A == Named(DH, Placed)
            B == Named(DH, {Root})
<1>1. /\ IsFiniteSet(A) /\ Cardinality(A) \in Nat
      /\ IsFiniteSet(B) /\ Cardinality(B) \in Nat
  BY NamedFinite DEF Types
<1>2. A \cup B = 1 .. Len(DH) /\ A \cap B = {}
  <2>1. \A i \in 1 .. Len(DH) : DH[i] \in Handles
    BY DEF Types
  <2>2. \A i \in 1 .. Len(DH) : DH[i].name \in 0 .. NoName
    BY <2>1 DEF Handles
  <2>3. \A x \in 0 .. NoName : (x \in Placed) # (x \in {Root})
    BY DirScanAssumption DEF Placed, Root, NoName
  <2>. QED  BY <2>2, <2>3 DEF Named
<1>3. Len(DH) = Cardinality(A) + Cardinality(B)
  <2>1. Len(DH) \in Nat
    BY DEF Types
  <2>2. Cardinality(1 .. Len(DH)) = Len(DH)
    BY <2>1, IntervalSize, Zenon
  <2>3. Cardinality(A \cup B) = Cardinality(A) + Cardinality(B) - Cardinality(A \cap B)
    BY <1>1, FS_Union
  <2>4. Cardinality({}) = 0
    BY FS_EmptySet
  <2>5. Cardinality(A \cup B) = Len(DH) /\ Cardinality(A \cap B) = 0
    BY <1>2, <2>2, <2>4
  <2>. HIDE DEF A, B
  <2>. QED  BY <1>1, <2>3, <2>5
<1>. QED  BY <1>3

\* A scan that begins or goes on has no handle of its own yet: there is room
\* for one.
LEMMA RoomForHandle ==
    ASSUME Types, HandleInv, NEW p \in On \ Owners,
           Named(DH, {Root}) = {} \/ OnEntry(Root) \ {p} # {}
    PROVE  Len(DH) < MaxScans
<1>. DEFINE A == Named(DH, Placed)
            B == Named(DH, {Root})
<1>1. /\ IsFiniteSet(A) /\ Cardinality(A) \in Nat
      /\ IsFiniteSet(B) /\ Cardinality(B) \in Nat
  BY NamedFinite DEF Types
<1>3. Len(DH) = Cardinality(A) + Cardinality(B)
  BY LenByNames
<1>4. /\ Cardinality(A) <= abandoned + Cardinality(Owners)
      /\ abandoned + Cardinality(On) <= started
      /\ abandoned \in Nat /\ started \in Nat /\ started <= MaxScans /\ MaxScans \in Nat
  BY DirScanAssumption DEF HandleInv, CountInv, Types
<1>5. /\ Cardinality(On) \in Nat /\ Cardinality(Owners) \in Nat
      /\ IsFiniteSet(On) /\ IsFiniteSet(Owners) /\ Owners \in SUBSET On
  BY ProgSets DEF On, Owners
<1>6. CASE B = {}
  <2>1. Cardinality(B) = 0
    BY <1>6, FS_EmptySet
  <2>2. Cardinality(Owners \cup {p}) = Cardinality(Owners) + 1
    BY <1>5, FS_AddElement
  <2>3. Owners \cup {p} \in SUBSET On
    BY <1>5
  <2>4. Cardinality(Owners \cup {p}) <= Cardinality(On)
    BY <1>5, <2>3, FS_Subset
  <2>. HIDE DEF A, B
  <2>. QED  BY <1>1, <1>3, <1>4, <1>5, <2>1, <2>2, <2>4
<1>7. CASE B # {}
  <2>1. PICK b \in B : TRUE
    BY <1>7
  <2>2. B = {b}
    BY <2>1 DEF HandleInv, CountInv
  <2>3. Cardinality(B) = 1
    BY <2>2, FS_Singleton
  <2>4. PICK q \in OnEntry(Root) : q # p
    BY <1>7
  <2>5. q \in On \ Owners
    BY <2>4, DirScanAssumption DEF OnEntry, On, Owners, Progs
  <2>6. /\ IsFiniteSet(Owners \cup {p})
        /\ Cardinality(Owners \cup {p}) = Cardinality(Owners) + 1
    BY <1>5, FS_AddElement
  <2>7. q \notin Owners \cup {p}
    BY <2>4, <2>5
  <2>8. Cardinality((Owners \cup {p}) \cup {q}) = Cardinality(Owners \cup {p}) + 1
    BY <2>6, <2>7, FS_AddElement
  <2>9. (Owners \cup {p}) \cup {q} \in SUBSET On
    BY <1>5, <2>5
  <2>10. Cardinality((Owners \cup {p}) \cup {q}) <= Cardinality(On)
    BY <1>5, <2>9, FS_Subset
  <2>. HIDE DEF A, B
  <2>. QED  BY <1>1, <1>3, <1>4, <1>5, <2>3, <2>6, <2>8, <2>10
<1>. QED  BY <1>6, <1>7

----------------------------------------------------------------------------
(* What the packets do to the handles.                                     *)

LEMMA MineFacts ==
    ASSUME Types, NEW p \in Progs, NEW i \in 1 .. Len(DH), Mine(p, DH[i])
    PROVE  \/ p \in NextProgs /\ p \notin AllProgs /\ DH[i].name = fib[p]
              /\ fib[p] \in 0 .. NumSlots /\ fib[p] # NoName
           \/ p \in AllProgs /\ p \notin NextProgs /\ DH[i].name = NoName
              /\ DH[i].addr = lastkey[p] /\ lastkey[p] # NoAddr
<1>1. NumSlots \in Nat /\ NextProgs \cap AllProgs = {}
  BY DirScanAssumption
<1>2. DH[i] \in Handles
  BY DEF Types
<1>3. DH[i].addr \in Addrs
  BY <1>2 DEF Handles
<1>4. DH[i].addr # NoAddr
  BY <1>3 DEF Addrs, NoAddr
<1>5. p \in NextProgs => fib[p] \in 0 .. NumSlots
  BY DEF Types
<1>. QED  BY <1>1, <1>4, <1>5 DEF Mine, NoName

\* The sets of programs when one of them is told the end or an error.
LEMMA LeaveSets ==
    ASSUME Types, NEW p \in Progs, scan[p] = "on", NEW how \in {"ended", "failed"},
           scan' = [scan EXCEPT ![p] = how], fib' = fib, lastkey' = lastkey
    PROVE  /\ Cardinality(On') = Cardinality(On) - 1
           /\ Cardinality(Owners') = Cardinality(Owners) - (IF p \in Owners THEN 1 ELSE 0)
           /\ \A s : /\ OnEntry(s)' = OnEntry(s) \ {p}
                     /\ Cardinality(OnEntry(s)') =
                           Cardinality(OnEntry(s)) - (IF p \in OnEntry(s) THEN 1 ELSE 0)
<1>1. \A q \in Progs : scan'[q] = IF q = p THEN how ELSE scan[q]
  BY DEF Types
<1>2. how # "on"
  OBVIOUS
<1>3. On' = On \ {p} /\ p \in On
  BY <1>1, <1>2 DEF On
<1>4. Owners' = Owners \ {p}
  BY <1>1, <1>2 DEF Owners
<1>5. \A s : OnEntry(s)' = OnEntry(s) \ {p}
  BY <1>1, <1>2 DEF OnEntry, Progs
<1>6. Cardinality(On') = Cardinality(On) - 1
  BY <1>3, ProgSets, FS_RemoveElement
<1>7. Cardinality(Owners') = Cardinality(Owners) - (IF p \in Owners THEN 1 ELSE 0)
  <2>1. Cardinality(Owners \ {p}) =
            IF p \in Owners THEN Cardinality(Owners) - 1 ELSE Cardinality(Owners)
    BY ProgSets, FS_RemoveElement, Zenon
  <2>2. Cardinality(Owners) \in Nat
    BY ProgSets
  <2>. QED  BY <1>4, <2>1, <2>2
<1>8. ASSUME NEW s
      PROVE  Cardinality(OnEntry(s)') =
                 Cardinality(OnEntry(s)) - (IF p \in OnEntry(s) THEN 1 ELSE 0)
  <2>1. Cardinality(OnEntry(s) \ {p}) =
            IF p \in OnEntry(s) THEN Cardinality(OnEntry(s)) - 1 ELSE Cardinality(OnEntry(s))
    BY ProgSets, FS_RemoveElement, Zenon
  <2>2. Cardinality(OnEntry(s)) \in Nat
    BY ProgSets
  <2>3. OnEntry(s)' = OnEntry(s) \ {p}
    BY <1>5
  <2>. QED  BY <2>1, <2>2, <2>3
<1>. QED  BY <1>5, <1>6, <1>7, <1>8

\* The handle of a program goes with its scan.
LEMMA RemoveKeeps ==
    ASSUME Types, HandleInv, NEW p \in Progs, scan[p] = "on",
           NEW i \in 1 .. Len(DH), Mine(p, DH[i]), DH' = Without(DH, i),
           NEW how \in {"ended", "failed"}, scan' = [scan EXCEPT ![p] = how],
           fib' = fib, lastkey' = lastkey, abandoned' = abandoned, started' = started
    PROVE  HandleInv'
<1>1. /\ Len(DH) \in Nat /\ DH' \in Seq(Handles) /\ Len(DH') = Len(DH) - 1
      /\ \A k \in 1 .. Len(DH) - 1 : DH'[k] = IF k < i THEN DH[k] ELSE DH[k + 1]
  <2>1. DH \in Seq(Handles) /\ Len(DH) \in Nat
    BY DEF Types
  <2>. QED  BY <2>1, WithoutEntries
<1>2. \A k \in 1 .. Len(DH') : \E j \in 1 .. Len(DH) :
          j # i /\ DH'[k] = DH[j] /\ j = IF k < i THEN k ELSE k + 1
  BY <1>1
<1>3. \A j \in 1 .. Len(DH) : j # i => \E k \in 1 .. Len(DH') : DH'[k] = DH[j]
  <2>. SUFFICES ASSUME NEW j \in 1 .. Len(DH), j # i
                PROVE  \E k \in 1 .. Len(DH') : DH'[k] = DH[j]
    OBVIOUS
  <2>1. CASE j < i
    BY <1>1, <2>1
  <2>2. CASE j > i
    <3>1. j - 1 \in 1 .. Len(DH) - 1 /\ ~(j - 1 < i) /\ (j - 1) + 1 = j
      BY <1>1, <2>2
    <3>2. DH'[j - 1] = DH[j]
      BY <1>1, <3>1
    <3>. QED  BY <1>1, <3>1, <3>2
  <2>. QED  BY <1>1, <2>1, <2>2
<1>4. /\ Cardinality(On') = Cardinality(On) - 1
      /\ Cardinality(Owners') = Cardinality(Owners) - (IF p \in Owners THEN 1 ELSE 0)
      /\ \A s : /\ OnEntry(s)' = OnEntry(s) \ {p}
                /\ Cardinality(OnEntry(s)') =
                      Cardinality(OnEntry(s)) - (IF p \in OnEntry(s) THEN 1 ELSE 0)
  BY LeaveSets
<1>5. \A S : Cardinality(Named(DH', S)) =
                 Cardinality(Named(DH, S)) - (IF DH[i].name \in S THEN 1 ELSE 0)
  <2>1. DH \in Seq(Handles)
    BY DEF Types
  <2>. QED  BY <2>1, CountRemoved, Zenon
<1>6. \A S : Cardinality(Named(DH, S)) \in Nat
  <2>1. DH \in Seq(Handles)
    BY DEF Types
  <2>. QED  BY <2>1, NamedFinite, Zenon
<1>7. AddrInv'
  <2>. SUFFICES ASSUME NEW k \in 1 .. Len(DH'), NEW l \in 1 .. Len(DH'),
                       DH'[k].addr = DH'[l].addr
                PROVE  k = l
    BY DEF AddrInv
  <2>1. PICK j \in 1 .. Len(DH) : DH'[k] = DH[j] /\ j = IF k < i THEN k ELSE k + 1
    BY <1>2
  <2>2. PICK m \in 1 .. Len(DH) : DH'[l] = DH[m] /\ m = IF l < i THEN l ELSE l + 1
    BY <1>2
  <2>3. j = m
    BY <2>1, <2>2 DEF HandleInv, AddrInv
  <2>. QED  BY <1>1, <2>1, <2>2, <2>3
<1>8. OnHandles'
  <2>. SUFFICES ASSUME NEW s \in Slots
                PROVE  Cardinality(OnEntry(s)') <= Cardinality(Named(DH', {s}))
    BY DEF OnHandles
  <2>1. Cardinality(OnEntry(s)) <= Cardinality(Named(DH, {s}))
    BY DEF HandleInv, OnHandles
  <2>2. p \in OnEntry(s) <=> DH[i].name = s
    BY MineFacts, DirScanAssumption DEF OnEntry, NoName, Slots
  <2>3. Cardinality(OnEntry(s)) \in Nat /\ Cardinality(Named(DH, {s})) \in Nat
    BY <1>6, ProgSets
  <2>4. /\ Cardinality(OnEntry(s)') =
               Cardinality(OnEntry(s)) - (IF p \in OnEntry(s) THEN 1 ELSE 0)
        /\ Cardinality(Named(DH', {s})) =
               Cardinality(Named(DH, {s})) - (IF DH[i].name \in {s} THEN 1 ELSE 0)
    BY <1>4, <1>5
  <2>. QED  BY <2>1, <2>2, <2>3, <2>4
<1>9. KnownAddr'
  <2>. SUFFICES ASSUME NEW q \in AllProgs, scan'[q] = "on", lastkey[q] # NoAddr
                PROVE  /\ \E k \in 1 .. Len(DH') :
                             DH'[k].addr = lastkey[q] /\ DH'[k].name = NoName
                       /\ \A r \in AllProgs \ {q} :
                             scan'[r] = "on" => lastkey[r] # lastkey[q]
    BY DEF KnownAddr
  <2>1. \A r \in AllProgs : scan'[r] = "on" => scan[r] = "on" /\ r # p
    BY DEF Types, Progs
  <2>2. PICK j \in 1 .. Len(DH) : DH[j].addr = lastkey[q] /\ DH[j].name = NoName
    BY <2>1 DEF HandleInv, KnownAddr
  <2>3. j # i
    BY <2>1, <2>2, MineFacts DEF HandleInv, KnownAddr
  <2>. QED  BY <1>3, <2>1, <2>2, <2>3 DEF HandleInv, KnownAddr
<1>10. CountInv'
  <2>1. p \in Owners <=> DH[i].name \in Placed
    BY MineFacts, DirScanAssumption DEF Owners, Placed, NoName, Root
  <2>2. Cardinality(Named(DH', Placed)) <= abandoned + Cardinality(Owners')
    <3>1. /\ Cardinality(Named(DH, Placed)) <= abandoned + Cardinality(Owners)
          /\ abandoned \in Nat
      BY DEF HandleInv, CountInv, Types
    <3>2. Cardinality(Named(DH, Placed)) \in Nat /\ Cardinality(Owners) \in Nat
      BY <1>6, ProgSets
    <3>3. Cardinality(Named(DH', Placed)) =
              Cardinality(Named(DH, Placed)) - (IF DH[i].name \in Placed THEN 1 ELSE 0)
      BY <1>5
    <3>. QED  BY <1>4, <2>1, <3>1, <3>2, <3>3
  <2>3. \A k, l \in Named(DH', {Root}) : k = l
    <3>. SUFFICES ASSUME NEW k \in Named(DH', {Root}), NEW l \in Named(DH', {Root})
                  PROVE  k = l
      OBVIOUS
    <3>0. k \in 1 .. Len(DH') /\ l \in 1 .. Len(DH') /\ DH'[k].name = Root /\ DH'[l].name = Root
      BY DEF Named
    <3>1. PICK j \in 1 .. Len(DH) : DH'[k] = DH[j] /\ j = IF k < i THEN k ELSE k + 1
      BY <1>2, <3>0
    <3>2. PICK m \in 1 .. Len(DH) : DH'[l] = DH[m] /\ m = IF l < i THEN l ELSE l + 1
      BY <1>2, <3>0
    <3>3. j = m
      BY <3>0, <3>1, <3>2 DEF HandleInv, CountInv, Named
    <3>. QED  BY <1>1, <3>0, <3>1, <3>2, <3>3
  <2>4. Named(DH', {Root}) # {} => OnEntry(Root)' # {}
    <3>. SUFFICES ASSUME NEW k \in Named(DH', {Root}) PROVE OnEntry(Root)' # {}
      BY Zenon
    <3>1. PICK j \in 1 .. Len(DH) : j # i /\ DH[j].name = Root
      BY <1>2 DEF Named
    <3>2. OnEntry(Root) # {}
      BY <3>1 DEF HandleInv, CountInv, Named
    <3>3. DH[i].name # Root
      BY <3>1 DEF HandleInv, CountInv, Named
    <3>4. p \notin OnEntry(Root)
      BY <3>3, MineFacts DEF OnEntry
    <3>. QED  BY <1>4, <3>2, <3>4
  <2>5. abandoned + Cardinality(On') <= started
    <3>1. abandoned + Cardinality(On) <= started /\ abandoned \in Nat /\ started \in Nat
      BY DEF HandleInv, CountInv, Types
    <3>2. Cardinality(On) \in Nat
      BY ProgSets
    <3>. QED  BY <1>4, <3>1, <3>2
  <2>. QED  BY <2>2, <2>3, <2>4, <2>5 DEF CountInv
<1>. QED  BY <1>7, <1>8, <1>9, <1>10 DEF HandleInv

\* A handle that keeps its name and address.
LEMMA KeepKeeps ==
    ASSUME Types, HandleInv, DH' \in Seq(Handles), Len(DH') = Len(DH),
           \A k \in 1 .. Len(DH) : DH'[k].name = DH[k].name /\ DH'[k].addr = DH[k].addr,
           scan' = scan, fib' = fib, lastkey' = lastkey,
           abandoned' = abandoned, started' = started
    PROVE  HandleInv'
<1>1. \A S : Named(DH', S) = Named(DH, S)
  BY DEF Named
<1>2. On' = On /\ Owners' = Owners /\ \A s : OnEntry(s)' = OnEntry(s)
  BY DEF On, Owners, OnEntry
<1>3. AddrInv'
  BY DEF HandleInv, AddrInv
<1>4. OnHandles'
  BY <1>1, <1>2 DEF HandleInv, OnHandles
<1>5. KnownAddr'
  BY DEF HandleInv, KnownAddr
<1>6. CountInv'
  BY <1>1, <1>2 DEF HandleInv, CountInv
<1>. QED  BY <1>3, <1>4, <1>5, <1>6 DEF HandleInv

\* A program and its handle step on to the same entry.
LEMMA AdvanceKeeps ==
    ASSUME Types, HandleInv, NEW p \in NextProgs, scan[p] = "on",
           NEW i \in 1 .. Len(DH), DH[i].name = fib[p], NEW new \in Slots,
           NEW h \in Handles, h.name = new, h.addr = DH[i].addr,
           DH' = [DH EXCEPT ![i] = h], fib' = [fib EXCEPT ![p] = new],
           scan' = scan, lastkey' = lastkey, abandoned' = abandoned, started' = started
    PROVE  HandleInv'
<1>0. /\ DH \in Seq(Handles) /\ NumSlots \in Nat /\ p \in Progs /\ p \notin AllProgs
      /\ fib[p] \in 0 .. NumSlots
  BY DirScanAssumption DEF Types, Progs
<1>1. /\ Len(DH') = Len(DH) /\ DH'[i] = h
      /\ \A k \in 1 .. Len(DH) : k # i => DH'[k] = DH[k]
  BY <1>0
<1>2. \A q \in NextProgs : fib'[q] = IF q = p THEN new ELSE fib[q]
  BY DEF Types
<1>3. new # Root /\ new # NoName /\ new \in Placed
  BY <1>0 DEF Slots, Root, NoName, Placed
<1>4. On' = On /\ Cardinality(On) \in Nat
  BY ProgSets DEF On
<1>5. Owners' = Owners \cup {p} /\ (p \in Owners <=> fib[p] # Root)
  BY <1>0, <1>2, <1>3 DEF Owners
<1>6. \A S : /\ Cardinality(Named(DH', S)) =
                   Cardinality(Named(DH, S)) - (IF DH[i].name \in S THEN 1 ELSE 0)
                                             + (IF h.name \in S THEN 1 ELSE 0)
             /\ Cardinality(Named(DH, S)) \in Nat
  <2>1. \A S : Cardinality(Named([DH EXCEPT ![i] = h], S)) =
                   Cardinality(Named(DH, S)) - (IF DH[i].name \in S THEN 1 ELSE 0)
                                             + (IF h.name \in S THEN 1 ELSE 0)
    BY <1>0, CountChanged
  <2>2. \A S : Cardinality(Named(DH, S)) \in Nat
    BY <1>0, NamedFinite, Zenon
  <2>. QED  BY <2>1, <2>2
<1>7. AddrInv'
  BY <1>1 DEF HandleInv, AddrInv
<1>8. OnHandles'
  <2>. SUFFICES ASSUME NEW s \in Slots
                PROVE  Cardinality(OnEntry(s)') <= Cardinality(Named(DH', {s}))
    BY DEF OnHandles
  <2>1. /\ Cardinality(OnEntry(s)) <= Cardinality(Named(DH, {s}))
        /\ Cardinality(OnEntry(s)) \in Nat /\ Cardinality(Named(DH, {s})) \in Nat
        /\ IsFiniteSet(OnEntry(s))
    BY <1>6, ProgSets DEF HandleInv, OnHandles
  <2>2. Cardinality(Named(DH', {s})) =
            Cardinality(Named(DH, {s})) - (IF fib[p] = s THEN 1 ELSE 0)
                                        + (IF new = s THEN 1 ELSE 0)
    BY <1>6
  <2>3. CASE new = s
    <3>1. OnEntry(s)' = OnEntry(s) \cup {p} /\ (p \in OnEntry(s) <=> fib[p] = s)
      BY <1>2, <2>3 DEF OnEntry
    <3>2. Cardinality(OnEntry(s) \cup {p}) =
              IF p \in OnEntry(s) THEN Cardinality(OnEntry(s)) ELSE Cardinality(OnEntry(s)) + 1
      BY <2>1, FS_AddElement, Zenon
    <3>3. Cardinality(OnEntry(s)') =
              IF fib[p] = s THEN Cardinality(OnEntry(s)) ELSE Cardinality(OnEntry(s)) + 1
      BY <3>1, <3>2
    <3>. QED  BY <2>1, <2>2, <2>3, <3>3
  <2>4. CASE new # s
    <3>1. OnEntry(s)' = OnEntry(s) \ {p} /\ (p \in OnEntry(s) <=> fib[p] = s)
      BY <1>2, <2>4 DEF OnEntry
    <3>2. Cardinality(OnEntry(s) \ {p}) =
              IF p \in OnEntry(s) THEN Cardinality(OnEntry(s)) - 1 ELSE Cardinality(OnEntry(s))
      BY <2>1, FS_RemoveElement, Zenon
    <3>3. Cardinality(OnEntry(s)') =
              IF fib[p] = s THEN Cardinality(OnEntry(s)) - 1 ELSE Cardinality(OnEntry(s))
      BY <3>1, <3>2
    <3>. QED  BY <2>1, <2>2, <2>4, <3>3
  <2>. QED  BY <2>3, <2>4
<1>9. KnownAddr'
  <2>. SUFFICES ASSUME NEW q \in AllProgs, scan[q] = "on", lastkey[q] # NoAddr
                PROVE  /\ \E k \in 1 .. Len(DH') :
                             DH'[k].addr = lastkey[q] /\ DH'[k].name = NoName
                       /\ \A r \in AllProgs \ {q} :
                             scan[r] = "on" => lastkey[r] # lastkey[q]
    BY DEF KnownAddr
  <2>1. PICK j \in 1 .. Len(DH) : DH[j].addr = lastkey[q] /\ DH[j].name = NoName
    BY DEF HandleInv, KnownAddr
  <2>2. j # i
    BY <1>0, <2>1 DEF NoName
  <2>. QED  BY <1>1, <2>1, <2>2 DEF HandleInv, KnownAddr
<1>10. CountInv'
  <2>1. Cardinality(Named(DH', Placed)) <= abandoned + Cardinality(Owners')
    <3>1. /\ Cardinality(Named(DH, Placed)) <= abandoned + Cardinality(Owners)
          /\ abandoned \in Nat
          /\ Cardinality(Named(DH, Placed)) \in Nat
          /\ Cardinality(Owners) \in Nat /\ IsFiniteSet(Owners)
      BY <1>6, ProgSets DEF HandleInv, CountInv, Types
    <3>2. fib[p] \in Placed <=> fib[p] # Root
      BY <1>0 DEF Placed, Root, NoName
    <3>3. Cardinality(Named(DH', Placed)) =
              Cardinality(Named(DH, Placed)) - (IF fib[p] # Root THEN 1 ELSE 0) + 1
      BY <1>3, <1>6, <3>2
    <3>4. Cardinality(Owners \cup {p}) =
              IF p \in Owners THEN Cardinality(Owners) ELSE Cardinality(Owners) + 1
      BY <3>1, FS_AddElement, Zenon
    <3>5. Cardinality(Owners') = Cardinality(Owners) + (IF fib[p] # Root THEN 0 ELSE 1)
      BY <1>5, <3>1, <3>4
    <3>. QED  BY <3>1, <3>3, <3>5
  <2>2. \A k \in Named(DH', {Root}) : k \in Named(DH, {Root}) /\ k # i
    BY <1>1, <1>3 DEF Named
  <2>3. Named(DH', {Root}) # {} => OnEntry(Root)' # {}
    <3>. SUFFICES ASSUME NEW k \in Named(DH', {Root}) PROVE OnEntry(Root)' # {}
      BY Zenon
    <3>1. fib[p] # Root
      BY <2>2 DEF HandleInv, CountInv, Named
    <3>2. PICK q \in OnEntry(Root) : TRUE
      BY <2>2 DEF HandleInv, CountInv
    <3>3. q \in OnEntry(Root)'
      BY <1>2, <3>1, <3>2 DEF OnEntry
    <3>. QED  BY <3>3
  <2>. QED  BY <1>4, <2>1, <2>2, <2>3 DEF HandleInv, CountInv
<1>. QED  BY <1>7, <1>8, <1>9, <1>10 DEF HandleInv

\* A new handle, for a scan on the directory itself.
LEMMA NewNextKeeps ==
    ASSUME Types, HandleInv, NEW p \in NextProgs, scan[p] = "on", fib[p] = Root,
           Named(DH, {Root}) = {}, NEW h \in Handles, h.name = Root,
           \A k \in 1 .. Len(DH) : DH[k].addr # h.addr, DH' = <<h>> \o DH,
           scan' = scan, fib' = fib, lastkey' = lastkey,
           abandoned' = abandoned, started' = started
    PROVE  HandleInv'
<1>0. DH \in Seq(Handles) /\ NumSlots \in Nat /\ Len(DH) \in Nat
  BY DirScanAssumption DEF Types
<1>1. /\ Len(DH') = Len(DH) + 1 /\ DH'[1] = h
      /\ \A k \in 1 .. Len(DH) : DH'[k + 1] = DH[k]
      /\ \A k \in 2 .. Len(DH) + 1 : DH'[k] = DH[k - 1]
  BY <1>0, InsertEntries
<1>2. On' = On /\ Owners' = Owners /\ \A s : OnEntry(s)' = OnEntry(s)
  BY DEF On, Owners, OnEntry
<1>3. \A S : /\ Cardinality(Named(DH', S)) =
                   Cardinality(Named(DH, S)) + (IF h.name \in S THEN 1 ELSE 0)
             /\ Cardinality(Named(DH, S)) \in Nat
  BY <1>0, CountInserted, NamedFinite, Zenon
<1>4. AddrInv'
  <2>. SUFFICES ASSUME NEW k \in 1 .. Len(DH) + 1, NEW l \in 1 .. Len(DH) + 1,
                       DH'[k].addr = DH'[l].addr
                PROVE  k = l
    BY <1>1 DEF AddrInv
  <2>1. CASE k = 1
    <3>1. l # 1 => l - 1 \in 1 .. Len(DH) /\ DH'[l] = DH[l - 1]
      BY <1>0, <1>1
    <3>. QED  BY <1>1, <2>1, <3>1
  <2>2. CASE l = 1
    <3>1. k # 1 => k - 1 \in 1 .. Len(DH) /\ DH'[k] = DH[k - 1]
      BY <1>0, <1>1
    <3>. QED  BY <1>1, <2>2, <3>1
  <2>3. CASE k # 1 /\ l # 1
    <3>1. /\ k - 1 \in 1 .. Len(DH) /\ DH'[k] = DH[k - 1]
          /\ l - 1 \in 1 .. Len(DH) /\ DH'[l] = DH[l - 1]
      BY <1>0, <1>1, <2>3
    <3>2. k - 1 = l - 1
      BY <3>1 DEF HandleInv, AddrInv
    <3>. QED  BY <3>2
  <2>. QED  BY <2>1, <2>2, <2>3
<1>5. OnHandles'
  <2>. SUFFICES ASSUME NEW s \in Slots
                PROVE  Cardinality(OnEntry(s)') <= Cardinality(Named(DH', {s}))
    BY DEF OnHandles
  <2>1. h.name # s
    BY DEF Slots, Root
  <2>2. /\ Cardinality(Named(DH', {s}))
              = Cardinality(Named(DH, {s})) + (IF h.name \in {s} THEN 1 ELSE 0)
        /\ Cardinality(Named(DH, {s})) \in Nat
    BY <1>3
  <2>. QED  BY <1>2, <2>1, <2>2 DEF HandleInv, OnHandles
<1>6. KnownAddr'
  <2>1. \A j \in 1 .. Len(DH) : \E k \in 1 .. Len(DH') : DH'[k] = DH[j]
    <3>. SUFFICES ASSUME NEW j \in 1 .. Len(DH)
                  PROVE  \E k \in 1 .. Len(DH') : DH'[k] = DH[j]
      OBVIOUS
    <3>1. j + 1 \in 1 .. Len(DH') /\ DH'[j + 1] = DH[j]
      BY <1>0, <1>1
    <3>. QED  BY <3>1
  <2>. QED  BY <2>1 DEF HandleInv, KnownAddr
<1>7. CountInv'
  <2>1. Cardinality(Named(DH', Placed)) <= abandoned + Cardinality(Owners')
    <3>1. h.name \notin Placed
      BY DEF Placed, Root
    <3>2. /\ Cardinality(Named(DH', Placed)) =
                 Cardinality(Named(DH, Placed)) + (IF h.name \in Placed THEN 1 ELSE 0)
          /\ Cardinality(Named(DH, Placed)) \in Nat
      BY <1>3
    <3>. QED  BY <1>2, <3>1, <3>2 DEF HandleInv, CountInv
  <2>2. \A k \in Named(DH', {Root}) : k = 1
    <3>. SUFFICES ASSUME NEW k \in Named(DH', {Root}), k # 1 PROVE FALSE
      OBVIOUS
    <3>1. k \in 2 .. Len(DH) + 1 /\ DH'[k].name = Root
      BY <1>0, <1>1 DEF Named
    <3>2. k - 1 \in 1 .. Len(DH) /\ DH[k - 1].name = Root
      BY <1>0, <1>1, <3>1
    <3>. QED  BY <3>2 DEF Named
  <2>3. OnEntry(Root)' # {}
    BY DEF OnEntry
  <2>. QED  BY <1>2, <2>1, <2>2, <2>3 DEF HandleInv, CountInv
<1>. QED  BY <1>4, <1>5, <1>6, <1>7 DEF HandleInv

\* A new handle of EXAMINE_ALL, whose address the program is given.
LEMMA NewAllKeeps ==
    ASSUME Types, HandleInv, NEW p \in AllProgs, scan[p] = "on", lastkey[p] = NoAddr,
           NEW h \in Handles, h.name = NoName,
           \A k \in 1 .. Len(DH) : DH[k].addr # h.addr, DH' = <<h>> \o DH,
           lastkey' = [lastkey EXCEPT ![p] = h.addr],
           scan' = scan, fib' = fib, abandoned' = abandoned, started' = started
    PROVE  HandleInv'
<1>0. /\ DH \in Seq(Handles) /\ NumSlots \in Nat /\ Len(DH) \in Nat
      /\ p \in Progs /\ p \notin NextProgs /\ h.addr # NoAddr
  <2>1. h.addr \in Addrs
    BY DEF Handles
  <2>. QED  BY <2>1, DirScanAssumption DEF Types, Progs, Addrs, NoAddr
<1>1. /\ Len(DH') = Len(DH) + 1 /\ DH'[1] = h
      /\ \A k \in 1 .. Len(DH) : DH'[k + 1] = DH[k]
      /\ \A k \in 2 .. Len(DH) + 1 : DH'[k] = DH[k - 1]
  BY <1>0, InsertEntries
<1>2. \A q \in AllProgs : lastkey'[q] = IF q = p THEN h.addr ELSE lastkey[q]
  BY DEF Types
<1>3. /\ On' = On /\ \A s : OnEntry(s)' = OnEntry(s)
      /\ Owners' = Owners \cup {p} /\ p \notin Owners
  BY <1>0, <1>2 DEF On, Owners, OnEntry
<1>4. \A S : /\ Cardinality(Named(DH', S)) =
                   Cardinality(Named(DH, S)) + (IF h.name \in S THEN 1 ELSE 0)
             /\ Cardinality(Named(DH, S)) \in Nat
  BY <1>0, CountInserted, NamedFinite, Zenon
<1>5. AddrInv'
  <2>. SUFFICES ASSUME NEW k \in 1 .. Len(DH) + 1, NEW l \in 1 .. Len(DH) + 1,
                       DH'[k].addr = DH'[l].addr
                PROVE  k = l
    BY <1>1 DEF AddrInv
  <2>1. CASE k = 1
    <3>1. l # 1 => l - 1 \in 1 .. Len(DH) /\ DH'[l] = DH[l - 1]
      BY <1>0, <1>1
    <3>. QED  BY <1>1, <2>1, <3>1
  <2>2. CASE l = 1
    <3>1. k # 1 => k - 1 \in 1 .. Len(DH) /\ DH'[k] = DH[k - 1]
      BY <1>0, <1>1
    <3>. QED  BY <1>1, <2>2, <3>1
  <2>3. CASE k # 1 /\ l # 1
    <3>1. /\ k - 1 \in 1 .. Len(DH) /\ DH'[k] = DH[k - 1]
          /\ l - 1 \in 1 .. Len(DH) /\ DH'[l] = DH[l - 1]
      BY <1>0, <1>1, <2>3
    <3>2. k - 1 = l - 1
      BY <3>1 DEF HandleInv, AddrInv
    <3>. QED  BY <3>2
  <2>. QED  BY <2>1, <2>2, <2>3
<1>6. OnHandles'
  <2>. SUFFICES ASSUME NEW s \in Slots
                PROVE  Cardinality(OnEntry(s)') <= Cardinality(Named(DH', {s}))
    BY DEF OnHandles
  <2>1. h.name # s
    BY <1>0 DEF Slots, NoName
  <2>2. /\ Cardinality(Named(DH', {s}))
              = Cardinality(Named(DH, {s})) + (IF h.name \in {s} THEN 1 ELSE 0)
        /\ Cardinality(Named(DH, {s})) \in Nat
    BY <1>4
  <2>. QED  BY <1>3, <2>1, <2>2 DEF HandleInv, OnHandles
<1>7. KnownAddr'
  <2>1. \A j \in 1 .. Len(DH) : \E k \in 1 .. Len(DH') : DH'[k] = DH[j]
    <3>. SUFFICES ASSUME NEW j \in 1 .. Len(DH)
                  PROVE  \E k \in 1 .. Len(DH') : DH'[k] = DH[j]
      OBVIOUS
    <3>1. j + 1 \in 1 .. Len(DH') /\ DH'[j + 1] = DH[j]
      BY <1>0, <1>1
    <3>. QED  BY <3>1
  <2>2. 1 \in 1 .. Len(DH')
    BY <1>0, <1>1
  <2>3. \A q \in AllProgs : scan[q] = "on" => lastkey[q] # h.addr
    BY <1>0 DEF HandleInv, KnownAddr
  <2>. SUFFICES ASSUME NEW q \in AllProgs, scan[q] = "on", lastkey'[q] # NoAddr
                PROVE  /\ \E k \in 1 .. Len(DH') :
                             DH'[k].addr = lastkey'[q] /\ DH'[k].name = NoName
                       /\ \A r \in AllProgs \ {q} :
                             scan[r] = "on" => lastkey'[r] # lastkey'[q]
    BY DEF KnownAddr
  <2>4. CASE q = p
    BY <1>1, <1>2, <2>2, <2>3, <2>4
  <2>5. CASE q # p
    BY <1>2, <2>1, <2>3, <2>5 DEF HandleInv, KnownAddr
  <2>. QED  BY <2>4, <2>5
<1>8. CountInv'
  <2>1. Cardinality(Named(DH', Placed)) <= abandoned + Cardinality(Owners')
    <3>1. h.name \in Placed
      BY <1>0 DEF Placed, NoName
    <3>2. /\ Cardinality(Named(DH', Placed)) =
                 Cardinality(Named(DH, Placed)) + (IF h.name \in Placed THEN 1 ELSE 0)
          /\ Cardinality(Named(DH, Placed)) \in Nat
      BY <1>4
    <3>3. Cardinality(Owners \cup {p}) = Cardinality(Owners) + 1
      BY <1>3, ProgSets, FS_AddElement
    <3>4. Cardinality(Named(DH, Placed)) <= abandoned + Cardinality(Owners) /\ abandoned \in Nat
      BY DEF HandleInv, CountInv, Types
    <3>5. Cardinality(Owners) \in Nat
      BY ProgSets
    <3>6. Cardinality(Owners') = Cardinality(Owners) + 1
      BY <1>3, <3>3
    <3>. QED  BY <3>1, <3>2, <3>4, <3>5, <3>6
  <2>2. \A k \in Named(DH', {Root}) : k - 1 \in Named(DH, {Root}) /\ k \in Nat
    <3>. SUFFICES ASSUME NEW k \in Named(DH', {Root})
                  PROVE  k - 1 \in Named(DH, {Root}) /\ k \in Nat
      OBVIOUS
    <3>1. k \in 1 .. Len(DH) + 1 /\ DH'[k].name = Root
      BY <1>1 DEF Named
    <3>2. k # 1
      BY <1>0, <1>1, <3>1 DEF NoName, Root
    <3>3. k - 1 \in 1 .. Len(DH) /\ DH[k - 1].name = Root
      BY <1>0, <1>1, <3>1, <3>2
    <3>. QED  BY <3>1, <3>3 DEF Named
  <2>3. \A k, l \in Named(DH', {Root}) : k = l
    <3>. SUFFICES ASSUME NEW k \in Named(DH', {Root}), NEW l \in Named(DH', {Root})
                  PROVE  k = l
      OBVIOUS
    <3>1. k - 1 = l - 1
      BY <2>2 DEF HandleInv, CountInv
    <3>2. k \in Nat /\ l \in Nat
      BY <2>2
    <3>. QED  BY <3>1, <3>2
  <2>4. Named(DH', {Root}) # {} => OnEntry(Root)' # {}
    BY <1>3, <2>2 DEF HandleInv, CountInv
  <2>. QED  BY <1>3, <2>1, <2>3, <2>4 DEF HandleInv, CountInv
<1>. QED  BY <1>5, <1>6, <1>7, <1>8 DEF HandleInv

\* A scan that ends without a handle, for want of memory.
LEMMA FailKeeps ==
    ASSUME Types, HandleInv, NEW p \in Progs, scan[p] = "on", p \notin Owners,
           p \in NextProgs => Named(DH, {Root}) = {},
           NEW how \in {"ended", "failed"}, scan' = [scan EXCEPT ![p] = how],
           DH' = DH, fib' = fib, lastkey' = lastkey, abandoned' = abandoned, started' = started
    PROVE  HandleInv'
<1>1. /\ Cardinality(On') = Cardinality(On) - 1
      /\ Cardinality(Owners') = Cardinality(Owners) - (IF p \in Owners THEN 1 ELSE 0)
      /\ \A s : /\ OnEntry(s)' = OnEntry(s) \ {p}
                /\ Cardinality(OnEntry(s)') =
                      Cardinality(OnEntry(s)) - (IF p \in OnEntry(s) THEN 1 ELSE 0)
  BY LeaveSets
<1>2. /\ Cardinality(On) \in Nat /\ Cardinality(Owners) \in Nat
      /\ \A s : Cardinality(OnEntry(s)) \in Nat
  BY ProgSets
<1>3. \A S : Cardinality(Named(DH, S)) \in Nat
  BY NamedFinite DEF Types
<1>4. AddrInv'
  BY DEF HandleInv, AddrInv
<1>5. OnHandles'
  <2>. SUFFICES ASSUME NEW s \in Slots
                PROVE  Cardinality(OnEntry(s)') <= Cardinality(Named(DH, {s}))
    BY DEF OnHandles
  <2>1. /\ Cardinality(OnEntry(s)) <= Cardinality(Named(DH, {s}))
        /\ Cardinality(OnEntry(s)) \in Nat /\ Cardinality(Named(DH, {s})) \in Nat
    BY <1>2, <1>3 DEF HandleInv, OnHandles
  <2>2. Cardinality(OnEntry(s)') =
            Cardinality(OnEntry(s)) - (IF p \in OnEntry(s) THEN 1 ELSE 0)
    BY <1>1
  <2>. QED  BY <2>1, <2>2
<1>6. KnownAddr'
  <2>1. \A r \in AllProgs : scan'[r] = "on" => scan[r] = "on"
    BY DEF Types, Progs
  <2>. QED  BY <2>1 DEF HandleInv, KnownAddr
<1>7. CountInv'
  <2>1. /\ Cardinality(Named(DH, Placed)) <= abandoned + Cardinality(Owners)
        /\ abandoned + Cardinality(On) <= started
        /\ abandoned \in Nat /\ started \in Nat
    BY DEF HandleInv, CountInv, Types
  <2>2. Named(DH, {Root}) # {} => OnEntry(Root)' # {}
    <3>1. p \in OnEntry(Root) => p \in NextProgs
      BY DEF OnEntry
    <3>2. OnEntry(Root)' = OnEntry(Root) \ {p}
      BY <1>1
    <3>. QED  BY <3>1, <3>2 DEF HandleInv, CountInv
  <2>3. Cardinality(Owners') = Cardinality(Owners)
    BY <1>1, <1>2
  <2>4. abandoned + Cardinality(On') <= started
    BY <1>1, <1>2, <2>1
  <2>. QED  BY <2>1, <2>2, <2>3, <2>4 DEF HandleInv, CountInv
<1>. QED  BY <1>4, <1>5, <1>6, <1>7 DEF HandleInv

\* A scan begins; the handle of one that was on is left behind.
LEMMA StartKeeps ==
    ASSUME Types, HandleInv, NEW p \in Progs, Start(p)
    PROVE  HandleInv'
<1>0. /\ scan' = [scan EXCEPT ![p] = "on"] /\ started' = started + 1 /\ DH' = DH
      /\ abandoned' = abandoned + (IF scan[p] = "on" THEN 1 ELSE 0)
      /\ fib' = IF p \in NextProgs THEN [fib EXCEPT ![p] = Root] ELSE fib
      /\ lastkey' = IF p \in AllProgs THEN [lastkey EXCEPT ![p] = NoAddr] ELSE lastkey
  BY DEF Start
<1>1. /\ \A q \in Progs : scan'[q] = IF q = p THEN "on" ELSE scan[q]
      /\ \A q \in NextProgs : fib'[q] = IF q = p THEN Root ELSE fib[q]
      /\ \A q \in AllProgs : lastkey'[q] = IF q = p THEN NoAddr ELSE lastkey[q]
      /\ NextProgs \subseteq Progs /\ AllProgs \subseteq Progs
      /\ Progs = NextProgs \cup AllProgs /\ NextProgs \cap AllProgs = {}
  BY <1>0, DirScanAssumption DEF Types, Progs
<1>2. On' = On \cup {p} /\ (p \in On <=> scan[p] = "on")
  BY <1>1 DEF On
<1>3. Owners' = Owners \ {p} /\ (p \in Owners => scan[p] = "on")
  BY <1>1 DEF Owners
<1>4. \A s \in Slots : OnEntry(s)' = OnEntry(s) \ {p}
  BY <1>1 DEF OnEntry, Slots, Root
<1>5. OnEntry(Root) \subseteq OnEntry(Root)'
  BY <1>1 DEF OnEntry
<1>6. /\ Cardinality(On) \in Nat /\ Cardinality(Owners) \in Nat
      /\ IsFiniteSet(On) /\ IsFiniteSet(Owners)
      /\ \A s : Cardinality(OnEntry(s)) \in Nat /\ IsFiniteSet(OnEntry(s))
  BY ProgSets
<1>7. \A S : Cardinality(Named(DH, S)) \in Nat
  BY NamedFinite DEF Types
<1>8. AddrInv'
  BY <1>0 DEF HandleInv, AddrInv
<1>9. OnHandles'
  <2>. SUFFICES ASSUME NEW s \in Slots
                PROVE  Cardinality(OnEntry(s)') <= Cardinality(Named(DH, {s}))
    BY <1>0 DEF OnHandles
  <2>1. /\ Cardinality(OnEntry(s)) <= Cardinality(Named(DH, {s}))
        /\ Cardinality(OnEntry(s)) \in Nat /\ Cardinality(Named(DH, {s})) \in Nat
    BY <1>6, <1>7 DEF HandleInv, OnHandles
  <2>2. Cardinality(OnEntry(s) \ {p}) =
            IF p \in OnEntry(s) THEN Cardinality(OnEntry(s)) - 1 ELSE Cardinality(OnEntry(s))
    BY <1>6, FS_RemoveElement, Zenon
  <2>3. Cardinality(OnEntry(s)') = Cardinality(OnEntry(s) \ {p})
    BY <1>4
  <2>. QED  BY <2>1, <2>2, <2>3
<1>10. KnownAddr'
  BY <1>0, <1>1 DEF HandleInv, KnownAddr
<1>11. CountInv'
  <2>1. /\ Cardinality(Named(DH, Placed)) <= abandoned + Cardinality(Owners)
        /\ abandoned + Cardinality(On) <= started
        /\ abandoned \in Nat /\ started \in Nat /\ Cardinality(Named(DH, Placed)) \in Nat
    BY <1>7 DEF HandleInv, CountInv, Types
  <2>2. Cardinality(Owners \ {p}) =
            IF p \in Owners THEN Cardinality(Owners) - 1 ELSE Cardinality(Owners)
    BY <1>6, FS_RemoveElement, Zenon
  <2>3. Cardinality(On \cup {p}) = IF p \in On THEN Cardinality(On) ELSE Cardinality(On) + 1
    BY <1>6, FS_AddElement, Zenon
  <2>4. Cardinality(Owners') = IF p \in Owners THEN Cardinality(Owners) - 1 ELSE Cardinality(Owners)
    BY <1>3, <2>2
  <2>5. Cardinality(On') = IF scan[p] = "on" THEN Cardinality(On) ELSE Cardinality(On) + 1
    BY <1>2, <2>3
  <2>6. Cardinality(Named(DH, Placed)) <= abandoned' + Cardinality(Owners')
    BY <1>0, <1>3, <1>6, <2>1, <2>4
  <2>7. abandoned' + Cardinality(On') <= started'
    BY <1>0, <1>6, <2>1, <2>5
  <2>8. Named(DH, {Root}) # {} => OnEntry(Root)' # {}
    BY <1>5 DEF HandleInv, CountInv
  <2>. QED  BY <1>0, <2>6, <2>7, <2>8 DEF HandleInv, CountInv
<1>. QED  BY <1>8, <1>9, <1>10, <1>11 DEF HandleInv

----------------------------------------------------------------------------
(* What programs are given.                                                *)

LEMMA UpToStays ==
    ASSUME NEW g, NEW want, NEW place, UpTo(g, want, place),
           NEW want2 \in SUBSET want
    PROVE  UpTo(g, want2, place)
BY DEF UpTo

LEMMA UpToPass ==
    ASSUME NEW g \in Seq(Slots), NEW want \in SUBSET Slots,
           NEW place \in 0 .. NumSlots, UpTo(g, want, place),
           NEW place2 \in 0 .. NumSlots, place <= place2,
           \A s \in want : ~(s > place /\ s <= place2)
    PROVE  UpTo(g, want, place2)
<1>0. NumSlots \in Nat
  BY DirScanAssumption
<1>1. \A k \in 1 .. Len(g) : g[k] \in Int
  <2>1. \A k \in 1 .. Len(g) : g[k] \in Slots
    OBVIOUS
  <2>. QED  BY <2>1 DEF Slots
<1>2. \A k \in 1 .. Len(g) : g[k] <= place2
  BY <1>0, <1>1 DEF UpTo
<1>3. \A s \in want : s <= place2 => Given(g, s)
  BY <1>0 DEF UpTo, Slots
<1>. QED  BY <1>2, <1>3 DEF UpTo

LEMMA UpToAppend ==
    ASSUME NEW g \in Seq(Slots), NEW want \in SUBSET Slots,
           NEW place \in 0 .. NumSlots, UpTo(g, want, place), Ascends(g),
           NEW e \in Slots, e > place,
           \A s \in want : ~(s > place /\ s < e)
    PROVE  Ascends(Append(g, e)) /\ UpTo(Append(g, e), want, e)
<1>0. NumSlots \in Nat
  BY DirScanAssumption
<1>1. PICK a : a = Append(g, e)
  OBVIOUS
<1>2. /\ Len(g) \in Nat /\ Len(a) = Len(g) + 1 /\ a[Len(g) + 1] = e
      /\ \A k \in 1 .. Len(g) : a[k] = g[k]
  BY <1>1
<1>3. \A k \in 1 .. Len(g) : g[k] \in Int /\ g[k] < e
  BY <1>0 DEF Slots, UpTo
<1>4. Ascends(a)
  <2>. SUFFICES ASSUME NEW j \in 1 .. Len(g) + 1, NEW k \in 1 .. Len(g) + 1, j < k
                PROVE  a[j] < a[k]
    BY <1>2 DEF Ascends
  <2>1. j \in 1 .. Len(g) /\ a[j] = g[j]
    BY <1>2
  <2>2. CASE k = Len(g) + 1
    BY <1>2, <1>3, <2>1, <2>2
  <2>3. CASE k # Len(g) + 1
    <3>1. k \in 1 .. Len(g) /\ a[k] = g[k]
      BY <1>2, <2>3
    <3>. QED  BY <2>1, <3>1 DEF Ascends
  <2>. QED  BY <2>2, <2>3
<1>5. \A k \in 1 .. Len(a) : a[k] <= e
  <2>. SUFFICES ASSUME NEW k \in 1 .. Len(g) + 1 PROVE a[k] <= e
    BY <1>2
  <2>1. CASE k = Len(g) + 1
    BY <1>2, <2>1 DEF Slots
  <2>2. CASE k # Len(g) + 1
    <3>1. k \in 1 .. Len(g) /\ a[k] = g[k]
      BY <1>2, <2>2
    <3>. QED  BY <1>3, <3>1 DEF Slots
  <2>. QED  BY <2>1, <2>2
<1>6. \A s : Given(g, s) => Given(a, s)
  BY <1>2 DEF Given
<1>7. Given(a, e)
  BY <1>2 DEF Given
<1>8. \A s \in want : s <= e => Given(a, s)
  <2>. SUFFICES ASSUME NEW s \in want, s <= e PROVE Given(a, s)
    OBVIOUS
  <2>1. CASE s <= place
    BY <1>6, <2>1 DEF UpTo
  <2>2. CASE s > place /\ s < e
    BY <2>2
  <2>3. CASE s = e
    BY <1>7, <2>3
  <2>. QED  BY <1>0, <2>1, <2>2, <2>3 DEF Slots
<1>9. UpTo(a, want, e)
  BY <1>5, <1>8 DEF UpTo
<1>. QED  BY <1>1, <1>4, <1>9

LEMMA UpToEnd ==
    ASSUME NEW g, NEW want \in SUBSET Slots, NEW place \in 0 .. NumSlots,
           UpTo(g, want, place), \A s \in want : ~(s > place)
    PROVE  \A s \in want : Given(g, s)
BY DirScanAssumption DEF UpTo, Slots

----------------------------------------------------------------------------
(* The list of a handle.                                                   *)

LEMMA CompleteStays ==
    ASSUME NEW h, NEW due, Complete(h, due), NEW due2, due2 \subseteq due
    PROVE  Complete(h, due2)
BY DEF Complete

LEMMA HandleTypes ==
    ASSUME NEW h \in Handles
    PROVE  /\ h.addr \in Addrs /\ h.name \in 0 .. NoName /\ h.cookie \in 0 .. NumSlots
           /\ h.entries \in Seq(Slots) /\ h.eof \in BOOLEAN
           /\ Len(h.entries) \in Nat
           /\ \A k \in 1 .. Len(h.entries) : h.entries[k] \in Slots /\ h.entries[k] \in Int
<1>1. /\ h.addr \in Addrs /\ h.name \in 0 .. NoName /\ h.cookie \in 0 .. NumSlots
      /\ h.entries \in Seq(Slots) /\ h.eof \in BOOLEAN
  BY DEF Handles
<1>2. Len(h.entries) \in Nat /\ \A k \in 1 .. Len(h.entries) : h.entries[k] \in Slots
  BY <1>1
<1>3. \A x \in Slots : x \in Int
  BY DEF Slots
<1>. QED  BY <1>1, <1>2, <1>3

LEMMA PosFacts ==
    ASSUME NEW h \in Handles, Ordered(h)
    PROVE  Pos(h) \in 0 .. NumSlots /\ Pos(h) <= h.cookie
<1>1. NumSlots \in Nat /\ h.name \in 0 .. NoName /\ h.cookie \in 0 .. NumSlots
  BY HandleTypes, DirScanAssumption
<1>. QED  BY <1>1 DEF Pos, Ordered, NoName

\* The first entry of the list is the next ordinary file that is due.
LEMMA HeadNext ==
    ASSUME NEW h \in Handles, Ordered(h), h.entries # <<>>,
           NEW due \in SUBSET Slots, Complete(h, due)
    PROVE  /\ Head(h.entries) \in Slots /\ Head(h.entries) = h.entries[1]
           /\ Head(h.entries) > h.cookie /\ Head(h.entries) > Pos(h)
           /\ \A s \in due \ Skipped : ~(s > Pos(h) /\ s < Head(h.entries))
<1>1. /\ NumSlots \in Nat /\ h.cookie \in 0 .. NumSlots
      /\ h.entries \in Seq(Slots) /\ Len(h.entries) \in Nat
      /\ \A k \in 1 .. Len(h.entries) : h.entries[k] \in Slots /\ h.entries[k] \in Int
  BY HandleTypes, DirScanAssumption
<1>2. Pos(h) \in 0 .. NumSlots /\ Pos(h) <= h.cookie
  BY PosFacts
<1>3. PICK e : e = h.entries[1]
  OBVIOUS
<1>4. Head(h.entries) = e /\ 1 \in 1 .. Len(h.entries)
  BY <1>1, <1>3
<1>5. e \in Slots /\ e \in Int /\ e > h.cookie
  BY <1>1, <1>3, <1>4 DEF Ordered
<1>6. \A k \in 1 .. Len(h.entries) : e <= h.entries[k]
  BY <1>1, <1>3, <1>4 DEF Ordered
<1>7. ASSUME NEW s \in due \ Skipped, s > Pos(h), s < e
      PROVE  FALSE
  <2>1. s \in Int
    BY DEF Slots
  <2>. QED  BY <1>1, <1>3, <1>4, <1>5, <1>6, <1>7, <2>1 DEF Complete
<1>. QED  BY <1>1, <1>2, <1>3, <1>4, <1>5, <1>7

LEMMA TailFacts ==
    ASSUME NEW q \in Seq(Slots), q # <<>>
    PROVE  /\ Tail(q) \in Seq(Slots) /\ Len(Tail(q)) = Len(q) - 1 /\ Len(q) \in Nat \ {0}
           /\ \A k \in 1 .. Len(q) - 1 : Tail(q)[k] = q[k + 1]
OBVIOUS

\* The handle after its first entry was taken or passed.
LEMMA AdvancedSound ==
    ASSUME NEW h \in Handles, Ordered(h), h.entries # <<>>,
           NEW due \in SUBSET Slots, Complete(h, due),
           NEW h2 \in Handles, h2.entries = Tail(h.entries), h2.cookie = Head(h.entries),
           h2.eof = h.eof,
           h2.name = Head(h.entries) \/ (h2.name = h.name /\ h.name = NoName)
    PROVE  Ordered(h2) /\ Complete(h2, due)
<1>1. /\ NumSlots \in Nat /\ h.cookie \in 0 .. NumSlots
      /\ h.entries \in Seq(Slots) /\ Len(h.entries) \in Nat
      /\ \A k \in 1 .. Len(h.entries) : h.entries[k] \in Slots /\ h.entries[k] \in Int
  BY HandleTypes, DirScanAssumption
<1>2. PICK e : e = Head(h.entries)
  OBVIOUS
<1>3. e \in Slots /\ e \in Int /\ e = h.entries[1] /\ e > h.cookie /\ e > Pos(h) /\ e # NoName
  BY <1>1, <1>2, HeadNext DEF Slots, NoName
<1>4. PICK t : t = Tail(h.entries)
  OBVIOUS
<1>5. /\ Len(t) = Len(h.entries) - 1 /\ Len(h.entries) \in Nat \ {0}
      /\ \A k \in 1 .. Len(t) : t[k] = h.entries[k + 1] /\ k + 1 \in 1 .. Len(h.entries)
  BY <1>1, <1>4, TailFacts
<1>6. h2.entries = t /\ h2.cookie = e /\ Pos(h2) = e
  BY <1>2, <1>3, <1>4 DEF Pos
<1>7. Pos(h) \in Int
  BY PosFacts
<1>8. Ordered(h2)
  <2>1. \A k \in 1 .. Len(t) : t[k] > e
    BY <1>1, <1>3, <1>5 DEF Ordered
  <2>2. ASSUME NEW j \in 1 .. Len(t), NEW k \in 1 .. Len(t), j < k
        PROVE  t[j] < t[k]
    <3>1. j + 1 < k + 1
      BY <2>2
    <3>. QED  BY <1>5, <3>1 DEF Ordered
  <2>3. h2.name # NoName => h2.name <= h2.cookie
    BY <1>2, <1>3, <1>6
  <2>. QED  BY <1>6, <2>1, <2>2, <2>3 DEF Ordered
<1>9. Complete(h2, due)
  <2>. SUFFICES ASSUME NEW s \in due \ Skipped, s > e
                PROVE  \/ \E k \in 1 .. Len(t) : t[k] = s
                       \/ ~h2.eof /\ s > e /\ \A k \in 1 .. Len(t) : t[k] < s
    BY <1>6 DEF Complete
  <2>0. s \in Int
    BY DEF Slots
  <2>3. s > Pos(h)
    BY <1>3, <1>7, <2>0
  <2>1. CASE \E k \in 1 .. Len(h.entries) : h.entries[k] = s
    <3>1. PICK k \in 1 .. Len(h.entries) : h.entries[k] = s
      BY <2>1
    <3>2. k # 1
      BY <1>3, <3>1
    <3>3. k - 1 \in 1 .. Len(t) /\ (k - 1) + 1 = k
      BY <1>5, <3>2
    <3>. QED  BY <1>5, <3>1, <3>3
  <2>2. CASE ~h.eof /\ s > h.cookie /\ \A k \in 1 .. Len(h.entries) : h.entries[k] < s
    BY <1>5, <2>2
  <2>. QED  BY <2>3, <2>1, <2>2 DEF Complete
<1>. QED  BY <1>8, <1>9

\* The handle after the lookup of its first entry failed.
LEMMA RemovedSound ==
    ASSUME NEW h \in Handles, Ordered(h), h.entries # <<>>,
           NEW due \in SUBSET Slots, Complete(h, due),
           NEW h2 \in Handles, h2.entries = Tail(h.entries), h2.cookie = h.cookie,
           h2.eof = h.eof, h2.name = h.name
    PROVE  Ordered(h2) /\ Complete(h2, due \ {Head(h.entries)})
<1>1. /\ h.entries \in Seq(Slots) /\ Len(h.entries) \in Nat
      /\ \A k \in 1 .. Len(h.entries) : h.entries[k] \in Slots /\ h.entries[k] \in Int
  BY HandleTypes
<1>2. PICK e : e = Head(h.entries)
  OBVIOUS
<1>3. e = h.entries[1]
  BY <1>1, <1>2, HeadNext
<1>4. PICK t : t = Tail(h.entries)
  OBVIOUS
<1>5. /\ Len(t) = Len(h.entries) - 1 /\ Len(h.entries) \in Nat \ {0}
      /\ \A k \in 1 .. Len(t) : t[k] = h.entries[k + 1] /\ k + 1 \in 1 .. Len(h.entries)
  BY <1>1, <1>4, TailFacts
<1>6. h2.entries = t /\ Pos(h2) = Pos(h)
  BY <1>4 DEF Pos
<1>8. Ordered(h2)
  <2>1. \A k \in 1 .. Len(t) : t[k] > h.cookie
    BY <1>5 DEF Ordered
  <2>2. ASSUME NEW j \in 1 .. Len(t), NEW k \in 1 .. Len(t), j < k
        PROVE  t[j] < t[k]
    <3>1. j + 1 < k + 1
      BY <2>2
    <3>. QED  BY <1>5, <3>1 DEF Ordered
  <2>. QED  BY <1>6, <2>1, <2>2 DEF Ordered
<1>9. Complete(h2, due \ {e})
  <2>. SUFFICES ASSUME NEW s \in (due \ {e}) \ Skipped, s > Pos(h)
                PROVE  \/ \E k \in 1 .. Len(t) : t[k] = s
                       \/ ~h2.eof /\ s > h.cookie /\ \A k \in 1 .. Len(t) : t[k] < s
    BY <1>6 DEF Complete
  <2>1. CASE \E k \in 1 .. Len(h.entries) : h.entries[k] = s
    <3>1. PICK k \in 1 .. Len(h.entries) : h.entries[k] = s
      BY <2>1
    <3>2. k # 1
      BY <1>3, <3>1
    <3>3. k - 1 \in 1 .. Len(t) /\ (k - 1) + 1 = k
      BY <1>5, <3>2
    <3>. QED  BY <1>5, <3>1, <3>3
  <2>2. CASE ~h.eof /\ s > h.cookie /\ \A k \in 1 .. Len(h.entries) : h.entries[k] < s
    BY <1>5, <2>2
  <2>. QED  BY <2>1, <2>2 DEF Complete
<1>. QED  BY <1>2, <1>8, <1>9

LEMMA LeadingFacts ==
    ASSUME NEW reply \in Seq(Slots)
    PROVE  /\ Leading(reply) \in 0 .. Len(reply)
           /\ \A i \in 1 .. Leading(reply) : reply[i] \in Skipped
           /\ Leading(reply) < Len(reply) => reply[Leading(reply) + 1] \notin Skipped
<1>0. Len(reply) \in Nat
  OBVIOUS
<1>. DEFINE N == {m \in 0 .. Len(reply) : m < Len(reply) => reply[m + 1] \notin Skipped}
<1>1. N \in SUBSET Nat /\ Len(reply) \in N
  BY <1>0
<1>2. PICK m \in N : \A y \in N : m <= y
  <2>. HIDE DEF N
  <2>. QED  BY <1>1, LeastOf
<1>3. ASSUME NEW i \in 1 .. m PROVE reply[i] \in Skipped
  <2>1. i - 1 \in 0 .. Len(reply) /\ i - 1 < m /\ i - 1 < Len(reply) /\ (i - 1) + 1 = i
    BY <1>0, <1>2
  <2>2. i - 1 \notin N
    <3>. HIDE DEF N
    <3>. QED  BY <1>1, <1>2, <2>1
  <2>. QED  BY <2>1, <2>2
<1>4. \E n \in 0 .. Len(reply) :
          /\ \A i \in 1 .. n : reply[i] \in Skipped
          /\ n < Len(reply) => reply[n + 1] \notin Skipped
  BY <1>2, <1>3
<1>. QED  BY <1>4 DEF Leading

\* An answer holds the entries after the cookie; one that is left out is
\* behind all of it, and then the mark of the end is not set.
LEMMA ReplyFacts ==
    ASSUME Types, NEW cookie \in 0 .. NumSlots,
           NEW reply \in Replies(cookie), NEW eof \in MayEof(cookie, reply)
    PROVE  /\ reply \in Seq(Slots) /\ eof \in BOOLEAN
           /\ \A k \in 1 .. Len(reply) : reply[k] > cookie
           /\ \A j, k \in 1 .. Len(reply) : j < k => reply[j] < reply[k]
           /\ \A s \in present : s > cookie =>
                 \/ \E k \in 1 .. Len(reply) : reply[k] = s
                 \/ ~eof /\ Len(reply) > 0 /\ \A k \in 1 .. Len(reply) : reply[k] < s
<1>. DEFINE rest == After(cookie)
            n == IF Cardinality(rest) < Chunk THEN Cardinality(rest) ELSE Chunk
<1>1. rest \subseteq Slots /\ rest = {s \in present : s > cookie}
  BY DEF After, Types
<1>2. IsFiniteSet(rest) /\ Cardinality(rest) \in Nat
  <2>1. IsFiniteSet(Slots)
    BY IntervalSize, DirScanAssumption DEF Slots
  <2>. HIDE DEF rest
  <2>. QED  BY <1>1, <2>1, FS_Subset, FS_CardinalityType
<1>3. n \in Nat /\ n <= Cardinality(rest)
  BY <1>2, DirScanAssumption
<1>4. /\ reply \in [1 .. n -> rest]
      /\ \A i, j \in 1 .. n : i < j => reply[i] < reply[j]
      /\ \A s \in rest : (\E i \in 1 .. n : reply[i] = s) \/ (\A i \in 1 .. n : reply[i] < s)
  BY DEF Replies
<1>5. Len(reply) = n /\ reply \in Seq(Slots) /\ \A k \in 1 .. n : reply[k] \in rest
  <2>. HIDE DEF n, rest
  <2>1. reply \in [1 .. n -> Slots] /\ \A k \in 1 .. n : reply[k] \in rest
    BY <1>1, <1>4
  <2>. QED  BY <1>3, <2>1
<1>6. \A k \in 1 .. n : reply[k] > cookie
  BY <1>1, <1>5
<1>7. ASSUME NEW s \in rest, ~\E k \in 1 .. n : reply[k] = s
      PROVE  ~eof /\ n > 0 /\ \A k \in 1 .. n : reply[k] < s
  <2>1. \A k \in 1 .. n : reply[k] < s
    BY <1>4, <1>7
  <2>2. Cardinality(rest) # 0
    <3>. HIDE DEF rest
    <3>. QED  BY <1>2, <1>7, FS_EmptySet
  <2>3. n > 0
    BY <1>2, <2>2, DirScanAssumption
  <2>4. n < Cardinality(rest)
    <3>. SUFFICES ASSUME n = Cardinality(rest) PROVE FALSE
      BY <1>2, <1>3
    <3>1. \A x \in 1 .. n : reply[x] \in Int
      BY <1>1, <1>5 DEF Slots
    <3>2. \A x, y \in 1 .. n : reply[x] = reply[y] => x = y
      BY <1>3, <1>4, <3>1
    <3>. HIDE DEF n, rest
    <3>3. reply \in Injection(1 .. n, rest)
      BY <1>4, <3>2, Fun_IsInj, Zenon
    <3>4. Cardinality(1 .. n) = n
      BY <1>3, IntervalSize
    <3>5. reply \in Surjection(1 .. n, rest)
      BY <1>2, <3>3, <3>4, FS_Injection
    <3>6. \A t \in rest : \E x \in 1 .. n : reply[x] = t
      BY <3>5, Zenon DEF Surjection
    <3>. QED  BY <1>7, <3>6
  <2>5. Len(reply) < Cardinality(After(cookie))
    BY <1>5, <2>4
  <2>6. eof = FALSE
    BY <2>5 DEF MayEof
  <2>. QED  BY <2>1, <2>3, <2>6
<1>8. eof \in BOOLEAN
  BY DEF MayEof
<1>. HIDE DEF n
<1>9. ASSUME NEW s \in present, s > cookie
      PROVE  \/ \E k \in 1 .. Len(reply) : reply[k] = s
             \/ ~eof /\ Len(reply) > 0 /\ \A k \in 1 .. Len(reply) : reply[k] < s
  <2>1. s \in rest
    BY <1>1, <1>9
  <2>. QED  BY <1>5, <1>7, <2>1, Zenon
<1>. QED  BY <1>4, <1>5, <1>6, <1>8, <1>9

\* What an answer makes of a handle: rest is its new list, c its new cookie.
\* With nothing left to read, no file that is due is ahead of it.
ReadOK(h, due, rest, c, eof) ==
    /\ rest \in Seq(Slots) /\ c \in 0 .. NumSlots /\ eof \in BOOLEAN
    /\ h.cookie <= c
    /\ \A s \in present \ Skipped : s > h.cookie => s > c
    /\ rest = <<>> /\ eof => \A s \in due \ Skipped : ~(s > Pos(h))
    /\ \A h2 \in Handles :
          /\ h2.name = h.name /\ h2.entries = rest /\ h2.cookie = c /\ h2.eof = eof
          => Ordered(h2) /\ Complete(h2, due)

\* The handle after an answer, and the end of the directory.
LEMMA ReadSound ==
    ASSUME Types, NEW h \in Handles, Ordered(h),
           NEW due \in SUBSET present, Complete(h, due),
           h.entries = <<>>, ~h.eof,
           NEW reply \in Replies(h.cookie), NEW eof \in MayEof(h.cookie, reply),
           NEW rest, rest = SubSeq(reply, Leading(reply) + 1, Len(reply)),
           NEW c, c = SkipTo(reply, Leading(reply), h.cookie)
    PROVE  ReadOK(h, due, rest, c, eof)
<1>0. /\ NumSlots \in Nat /\ present \subseteq Slots
      /\ h.cookie \in 0 .. NumSlots /\ h.name \in 0 .. NoName
      /\ Len(h.entries) = 0
  BY HandleTypes, DirScanAssumption DEF Types
<1>1. /\ reply \in Seq(Slots) /\ eof \in BOOLEAN
      /\ \A k \in 1 .. Len(reply) : reply[k] > h.cookie
      /\ \A j, k \in 1 .. Len(reply) : j < k => reply[j] < reply[k]
      /\ \A s \in present : s > h.cookie =>
            \/ \E k \in 1 .. Len(reply) : reply[k] = s
            \/ ~eof /\ Len(reply) > 0 /\ \A k \in 1 .. Len(reply) : reply[k] < s
  BY <1>0, ReplyFacts
<1>2. PICK n : n = Leading(reply)
  OBVIOUS
<1>3. PICK L : L = Len(reply)
  OBVIOUS
<1>4. /\ L \in Nat /\ n \in 0 .. L /\ \A i \in 1 .. n : reply[i] \in Skipped
  BY <1>1, <1>2, <1>3, LeadingFacts
<1>5. \A k \in 1 .. L : reply[k] \in Slots /\ reply[k] \in Int
  <2>1. \A k \in 1 .. L : reply[k] \in Slots
    BY <1>1, <1>3
  <2>. QED  BY <2>1 DEF Slots
<1>6. /\ rest \in Seq(Slots) /\ Len(rest) = L - n
      /\ \A k \in 1 .. L - n : rest[k] = reply[n + k] /\ n + k \in 1 .. L
  <2>1. rest = SubSeq(reply, n + 1, L)
    BY <1>2, <1>3
  <2>2. /\ n + 1 \in Int /\ L \in Int /\ \A k \in n + 1 .. L : reply[k] \in Slots
    BY <1>4, <1>5
  <2>3. PICK m \in Int : m = n + 1
    BY <2>2
  <2>4. /\ SubSeq(reply, m, L) \in Seq(Slots)
        /\ Len(SubSeq(reply, m, L)) = IF m <= L THEN L - m + 1 ELSE 0
        /\ \A k \in 1 .. L - m + 1 : SubSeq(reply, m, L)[k] = reply[m + k - 1]
    <3>1. \A k \in m .. L : reply[k] \in Slots
      BY <2>2, <2>3
    <3>. QED  BY <2>2, <2>3, <3>1, SubSeqProperties
  <2>5. rest = SubSeq(reply, m, L)
    BY <2>1, <2>3
  <2>6. rest \in Seq(Slots) /\ Len(rest) = IF m <= L THEN L - m + 1 ELSE 0
    BY <2>4, <2>5, Zenon
  <2>7. \A k \in 1 .. L - m + 1 : rest[k] = reply[m + k - 1]
    BY <2>4, <2>5, Zenon
  <2>8. Len(rest) = L - n
    BY <1>4, <2>3, <2>6
  <2>9. ASSUME NEW k \in 1 .. L - n
        PROVE  rest[k] = reply[n + k] /\ n + k \in 1 .. L
    <3>1. k \in 1 .. L - m + 1 /\ m + k - 1 = n + k /\ n + k \in 1 .. L
      BY <1>4, <2>3
    <3>. QED  BY <2>7, <3>1
  <2>. QED  BY <2>6, <2>8, <2>9
<1>7. c = IF n = 0 THEN h.cookie ELSE reply[n]
  BY <1>2 DEF SkipTo
<1>8. c \in 0 .. NumSlots /\ h.cookie <= c
  <2>1. n # 0 => n \in 1 .. L
    BY <1>4
  <2>. QED  BY <1>0, <1>1, <1>3, <1>5, <1>7, <2>1 DEF Slots
<1>9. ASSUME NEW s \in present \ Skipped, s > h.cookie
      PROVE  /\ s > c
             /\ \/ \E k \in 1 .. Len(rest) : rest[k] = s
                \/ ~eof /\ \A k \in 1 .. Len(rest) : rest[k] < s
  <2>0. s \in Int
    BY <1>0 DEF Slots
  <2>1. CASE \E k \in 1 .. L : reply[k] = s
    <3>1. PICK k \in 1 .. L : reply[k] = s
      BY <2>1
    <3>2. ~(k <= n)
      BY <1>4, <3>1
    <3>3. s > c
      <4>1. CASE n = 0
        BY <1>7, <1>9, <4>1
      <4>2. CASE n # 0
        <5>1. n \in 1 .. L /\ n < k
          BY <1>4, <3>2, <4>2
        <5>2. reply[n] < reply[k]
          BY <1>1, <1>3, <5>1
        <5>. QED  BY <1>5, <1>7, <3>1, <4>2, <5>1, <5>2
      <4>. QED  BY <4>1, <4>2
    <3>4. k - n \in 1 .. L - n /\ n + (k - n) = k
      BY <1>4, <3>2
    <3>5. rest[k - n] = s
      BY <1>6, <3>1, <3>4
    <3>. QED  BY <1>6, <3>3, <3>4, <3>5
  <2>2. CASE ~eof /\ L > 0 /\ \A k \in 1 .. L : reply[k] < s
    <3>1. s > c
      <4>1. n # 0 => n \in 1 .. L
        BY <1>4
      <4>. QED  BY <1>5, <1>7, <1>9, <2>0, <2>2, <4>1
    <3>. QED  BY <1>6, <2>2, <3>1
  <2>. QED  BY <1>1, <1>3, <1>9, <2>1, <2>2
<1>10. Pos(h) \in Int /\ Pos(h) <= h.cookie
  BY PosFacts
<1>11. \A s \in due \ Skipped : s > Pos(h) => s > h.cookie
  BY <1>0 DEF Complete
<1>12. ASSUME rest = <<>>, eof, NEW s \in due \ Skipped, s > Pos(h)
       PROVE  FALSE
  <2>1. rest = <<>>
    BY <1>12, Zenon
  <2>2. 1 .. Len(rest) = {}
    <3>1. Len(rest) = 0
      BY <1>6, <2>1, EmptySeq, Zenon
    <3>2. 1 .. 0 = {}
      OBVIOUS
    <3>. QED  BY <3>1, <3>2, Zenon
  <2>3. s \in present \ Skipped /\ s > h.cookie
    BY <1>11, <1>12, Zenon
  <2>4. eof
    BY <1>12, Zenon
  <2>. QED  BY <1>9, <2>2, <2>3, <2>4, Zenon
<1>13. ASSUME NEW h2 \in Handles,
              h2.name = h.name, h2.entries = rest, h2.cookie = c, h2.eof = eof
       PROVE  Ordered(h2) /\ Complete(h2, due)
  <2>1. \A k \in 1 .. Len(rest) : rest[k] > c
    <3>. SUFFICES ASSUME NEW k \in 1 .. Len(rest) PROVE rest[k] > c
      OBVIOUS
    <3>1. k \in 1 .. L - n /\ rest[k] = reply[n + k] /\ n + k \in 1 .. L
      BY <1>6
    <3>2. CASE n = 0
      BY <1>1, <1>3, <1>7, <3>1, <3>2
    <3>3. CASE n # 0
      <4>1. n \in 1 .. L /\ n < n + k
        BY <1>4, <3>1, <3>3
      <4>2. reply[n] < reply[n + k]
        BY <1>1, <1>3, <3>1, <4>1
      <4>. QED  BY <1>5, <1>7, <3>1, <3>3, <4>1, <4>2
    <3>. QED  BY <3>2, <3>3
  <2>2. ASSUME NEW j \in 1 .. Len(rest), NEW k \in 1 .. Len(rest), j < k
        PROVE  rest[j] < rest[k]
    <3>1. /\ j \in 1 .. L - n /\ k \in 1 .. L - n /\ n + j < n + k
      BY <1>4, <1>6, <2>2
    <3>. QED  BY <1>1, <1>3, <1>6, <3>1
  <2>3. h2.name # NoName => h2.name <= c
    BY <1>0, <1>8, <1>13 DEF Ordered, NoName
  <2>4. Ordered(h2)
    BY <1>13, <2>1, <2>2, <2>3 DEF Ordered
  <2>5. ASSUME NEW s \in due \ Skipped, s > Pos(h2)
        PROVE  \/ \E k \in 1 .. Len(rest) : rest[k] = s
               \/ ~eof /\ s > c /\ \A k \in 1 .. Len(rest) : rest[k] < s
    <3>0. s \in present
      BY <2>5
    <3>1. s \in Int
      BY <1>0, <3>0 DEF Slots
    <3>2. s > h.cookie
      <4>1. CASE h.name = NoName
        BY <1>0, <1>8, <1>13, <2>5, <3>1, <4>1 DEF Pos
      <4>2. CASE h.name # NoName
        <5>1. Pos(h2) = Pos(h)
          BY <1>13, <4>2 DEF Pos
        <5>. QED  BY <1>11, <2>5, <5>1
      <4>. QED  BY <4>1, <4>2
    <3>. QED  BY <1>9, <3>2
  <2>6. Complete(h2, due)
    BY <1>13, <2>5 DEF Complete
  <2>. QED  BY <2>4, <2>6
<1>. QED  BY <1>1, <1>6, <1>8, <1>9, <1>12, <1>13 DEF ReadOK

----------------------------------------------------------------------------
(* The steps of a scan.                                                    *)

\* No other program of EXAMINE_ALL has the address of the handle.
LEMMA NotTheirs ==
    ASSUME Types, HandleInv, NEW p \in Progs, scan[p] = "on",
           NEW i \in 1 .. Len(DH), Mine(p, DH[i]),
           NEW q \in AllProgs, q # p, scan[q] = "on"
    PROVE  DH[i].addr # lastkey[q]
<1>1. DH[i] \in Handles
  BY DEF Types
<1>2. DH[i].addr # NoAddr
  BY <1>1, HandleTypes DEF Addrs, NoAddr
<1>3. CASE lastkey[q] = NoAddr
  BY <1>2, <1>3
<1>4. CASE lastkey[q] # NoAddr
  <2>1. PICK j \in 1 .. Len(DH) : DH[j].addr = lastkey[q] /\ DH[j].name = NoName
    BY <1>4 DEF HandleInv, KnownAddr
  <2>2. CASE p \in NextProgs
    <3>1. DH[i].name # NoName
      BY <2>2, MineFacts
    <3>. QED  BY <2>1, <3>1 DEF HandleInv, AddrInv
  <2>3. CASE p \in AllProgs
    <3>1. DH[i].addr = lastkey[p]
      BY <2>3, MineFacts
    <3>. QED  BY <1>4, <2>3, <3>1 DEF HandleInv, KnownAddr
  <2>. QED  BY <2>2, <2>3 DEF Progs
<1>. QED  BY <1>3, <1>4

LEMMA WantFacts ==
    ASSUME Types, NEW p \in Progs
    PROVE  /\ Want(p) \in SUBSET Slots
           /\ \A i \in 1 .. Len(DH) :
                 scan[p] = "on" /\ Mine(p, DH[i]) => Want(p) \subseteq Due(DH[i]) \ Skipped
<1>1. Want(p) \in SUBSET Slots /\ Want(p) \subseteq stable[p] \ Skipped
  BY DEF Types, Want
<1>2. ASSUME NEW i \in 1 .. Len(DH), scan[p] = "on", Mine(p, DH[i]) PROVE Serves(DH[i], p)
  BY <1>2, MineFacts DEF Serves
<1>. QED  BY <1>1, <1>2 DEF Due

LEMMA DueFacts ==
    ASSUME Types, GotInv, NEW h
    PROVE  Due(h) \in SUBSET Slots /\ Due(h) \subseteq present
BY DEF Due, GotInv, GotOK

\* A scan ends and its handle goes.
LEMMA FinishStep ==
    ASSUME Inv, NEW p \in Progs, scan[p] = "on",
           NEW i \in 1 .. Len(DH), Mine(p, DH[i]), DH' = Without(DH, i),
           NEW how \in {"ended", "failed"}, scan' = [scan EXCEPT ![p] = how],
           pkt' = NoPacket, present' = present, fib' = fib, lastkey' = lastkey,
           stable' = stable, abandoned' = abandoned, started' = started,
           got' \in [Progs -> Seq(Slots)], cut' \in [Progs -> BOOLEAN],
           \A q \in Progs : q # p => got'[q] = got[q] /\ cut'[q] = cut[q],
           Ascends(got'[p]),
           how = "ended" /\ ~cut'[p] => \A s \in Want(p) : Given(got'[p], s)
    PROVE  Inv'
<1>0. Types /\ HandleInv /\ ListsInv /\ GotInv
  BY DEF Inv
<1>1. /\ DH' \in Seq(Handles) /\ Len(DH) \in Nat
      /\ \A k \in 1 .. Len(DH') : \E j \in 1 .. Len(DH) : DH'[k] = DH[j]
  <2>1. DH \in Seq(Handles) /\ Len(DH) \in Nat
    BY <1>0 DEF Types
  <2>2. /\ DH' \in Seq(Handles) /\ Len(DH') = Len(DH) - 1
        /\ \A k \in 1 .. Len(DH) - 1 : DH'[k] = IF k < i THEN DH[k] ELSE DH[k + 1]
    BY <2>1, WithoutEntries
  <2>3. ASSUME NEW k \in 1 .. Len(DH') PROVE \E j \in 1 .. Len(DH) : DH'[k] = DH[j]
    <3>1. k \in 1 .. Len(DH) /\ k + 1 \in 1 .. Len(DH) /\ k \in 1 .. Len(DH) - 1
      BY <2>1, <2>2
    <3>. QED  BY <2>2, <3>1
  <2>. QED  BY <2>1, <2>2, <2>3
<1>2. \A q \in Progs : scan'[q] = IF q = p THEN how ELSE scan[q]
  BY <1>0 DEF Types
<1>3. Types'
  BY <1>0, <1>1 DEF Types
<1>4. PacketInv'
  BY DEF PacketInv
<1>5. HandleInv'
  BY <1>0, RemoveKeeps
<1>6. ListsInv'
  <2>. SUFFICES ASSUME NEW k \in 1 .. Len(DH')
                PROVE  Ordered(DH'[k]) /\ Complete(DH'[k], Due(DH[k])')
    BY DEF ListsInv
  <2>1. PICK j \in 1 .. Len(DH) : DH'[k] = DH[j]
    BY <1>1
  <2>2. PICK h : h = DH[j]
    OBVIOUS
  <2>3. Ordered(h) /\ Complete(h, Due(h))
    BY <1>0, <2>2 DEF ListsInv
  <2>4. Due(h)' \subseteq Due(h)
    BY <1>2 DEF Due, Serves
  <2>5. Complete(h, Due(h)')
    BY <2>3, <2>4, CompleteStays
  <2>6. Due(DH[k])' = Due(h)'
    BY <2>1, <2>2 DEF Due, Serves
  <2>. QED  BY <2>1, <2>2, <2>3, <2>5, <2>6
<1>7. ASSUME NEW q \in Progs PROVE GotOK(q)'
  <2>1. GotOK(q)
    BY <1>0 DEF GotInv
  <2>2. Want(q)' = Want(q)
    BY DEF Want
  <2>3. CASE q = p
    <3>1. scan'[q] = how /\ how # "on"
      BY <1>2, <2>3
    <3>. QED  BY <2>1, <2>2, <2>3, <3>1 DEF GotOK
  <2>4. CASE q # p
    <3>1. scan'[q] = scan[q] /\ got'[q] = got[q] /\ cut'[q] = cut[q]
      BY <1>2, <2>4
    <3>. QED  BY <1>1, <2>1, <2>2, <3>1 DEF GotOK
  <2>. QED  BY <2>3, <2>4
<1>. QED  BY <1>3, <1>4, <1>5, <1>6, <1>7 DEF Inv, GotInv

\* A scan goes on with its handle changed.
LEMMA GoOnStep ==
    ASSUME Inv, NEW p \in Progs, scan[p] = "on",
           NEW i \in 1 .. Len(DH), Mine(p, DH[i]),
           NEW h \in Handles, h.addr = DH[i].addr, DH' = [DH EXCEPT ![i] = h],
           scan' = scan, lastkey' = lastkey, present' = present, cut' = cut,
           stable' \in [Progs -> SUBSET Slots], \A q \in Progs : stable'[q] \subseteq stable[q],
           \A q \in NextProgs : q # p => fib'[q] = fib[q],
           \A q \in Progs : q # p => got'[q] = got[q],
           Ordered(h), NEW due, Complete(h, due), Due(h)' \subseteq due, Ascends(got'[p]),
           p \in NextProgs => UpTo(got'[p], Want(p), fib'[p]),
           p \in AllProgs => UpTo(got'[p], Want(p), h.cookie)
    PROVE  /\ DH' \in Seq(Handles) /\ Len(DH') = Len(DH) /\ DH'[i] = h
           /\ \A k \in 1 .. Len(DH) : k # i => DH'[k] = DH[k]
           /\ ListsInv' /\ GotInv'
<1>0. Types /\ HandleInv /\ ListsInv /\ GotInv
  BY DEF Inv
<1>1. /\ DH' \in Seq(Handles) /\ Len(DH') = Len(DH) /\ DH'[i] = h
      /\ \A k \in 1 .. Len(DH) : k # i => DH'[k] = DH[k]
  BY <1>0 DEF Types
<1>2. ListsInv'
  <2>. SUFFICES ASSUME NEW k \in 1 .. Len(DH)
                PROVE  Ordered(DH'[k]) /\ Complete(DH'[k], Due(DH[k])')
    BY <1>1 DEF ListsInv
  <2>0. PICK g : g = DH'[k]
    OBVIOUS
  <2>. SUFFICES Ordered(g) /\ Complete(g, Due(g)')
    BY <2>0 DEF Due, Serves
  <2>1. CASE k = i
    <3>1. g = h
      BY <1>1, <2>0, <2>1
    <3>2. Complete(h, Due(h)')
      BY CompleteStays
    <3>. QED  BY <3>1, <3>2
  <2>2. CASE k # i
    <3>1. g = DH[k]
      BY <1>1, <2>0, <2>2
    <3>2. Ordered(g) /\ Complete(g, Due(g))
      BY <1>0, <3>1 DEF ListsInv
    <3>3. Due(g)' \subseteq Due(g)
      BY DEF Due, Serves
    <3>. QED  BY <3>2, <3>3, CompleteStays
  <2>. QED  BY <2>1, <2>2
<1>3. ASSUME NEW q \in Progs PROVE GotOK(q)'
  <2>1. GotOK(q)
    BY <1>0 DEF GotInv
  <2>2. Want(q)' \in SUBSET Want(q)
    BY DEF Want
  <2>3. CASE q = p
    <3>1. stable'[q] \subseteq present' /\ Ascends(got'[q])
      BY <2>1, <2>3 DEF GotOK
    <3>2. scan'[q] = "on"
      BY <2>3
    <3>3. q \in NextProgs => UpTo(got'[q], Want(q)', fib'[q])
      BY <2>2, <2>3, UpToStays
    <3>4. ASSUME q \in AllProgs
          PROVE  /\ lastkey'[q] # NoAddr
                 /\ \A k \in 1 .. Len(DH') :
                       DH'[k].addr = lastkey'[q] => UpTo(got'[q], Want(q)', DH'[k].cookie)
      <4>1. DH[i].addr = lastkey[q] /\ lastkey[q] # NoAddr
        BY <1>0, <2>3, <3>4, MineFacts, DirScanAssumption
      <4>2. \A k \in 1 .. Len(DH) : DH'[k].addr = lastkey[q] => k = i
        BY <1>0, <1>1, <4>1 DEF HandleInv, AddrInv
      <4>3. UpTo(got'[q], Want(q)', h.cookie)
        BY <2>2, <2>3, <3>4, UpToStays
      <4>. QED  BY <1>1, <4>1, <4>2, <4>3
    <3>. QED  BY <3>1, <3>2, <3>3, <3>4 DEF GotOK
  <2>4. CASE q # p
    <3>1. got'[q] = got[q] /\ cut'[q] = cut[q] /\ scan'[q] = scan[q]
      BY <2>4
    <3>2. stable'[q] \subseteq present' /\ Ascends(got'[q])
      BY <2>1, <3>1 DEF GotOK
    <3>3. scan[q] = "on" /\ q \in NextProgs => UpTo(got'[q], Want(q)', fib'[q])
      BY <2>1, <2>2, <2>4, <3>1, UpToStays DEF GotOK
    <3>4. ASSUME scan[q] = "on", q \in AllProgs
          PROVE  /\ lastkey'[q] = NoAddr => got'[q] = <<>>
                 /\ \A k \in 1 .. Len(DH') :
                       DH'[k].addr = lastkey'[q] => UpTo(got'[q], Want(q)', DH'[k].cookie)
      <4>1. DH[i].addr # lastkey[q]
        BY <1>0, <2>4, <3>4, NotTheirs
      <4>2. \A k \in 1 .. Len(DH) : DH'[k].addr = lastkey[q] => k # i /\ DH'[k] = DH[k]
        BY <1>1, <4>1
      <4>3. \A k \in 1 .. Len(DH) :
                DH[k].addr = lastkey[q] => UpTo(got[q], Want(q), DH[k].cookie)
        BY <2>1, <3>4 DEF GotOK
      <4>4. \A k \in 1 .. Len(DH) :
                DH[k].addr = lastkey[q] => UpTo(got[q], Want(q)', DH[k].cookie)
        BY <2>2, <4>3, UpToStays
      <4>. QED  BY <1>1, <2>1, <2>2, <3>1, <3>4, <4>2, <4>4 DEF GotOK
    <3>5. scan[q] = "ended" /\ ~cut[q] =>
              \A s \in Want(q)' : Given(got'[q], s)
      BY <2>1, <2>2, <3>1 DEF GotOK
    <3>. QED  BY <3>1, <3>2, <3>3, <3>4, <3>5 DEF GotOK
  <2>. QED  BY <2>3, <2>4
<1>. QED  BY <1>1, <1>2, <1>3 DEF GotInv

\* Everything read and everything given: the scan has its end.
LEMMA EndComplete ==
    ASSUME Inv, NEW p \in Progs, scan[p] = "on", NEW i \in 1 .. Len(DH), Mine(p, DH[i]),
           \A s \in Due(DH[i]) \ Skipped : ~(s > Pos(DH[i]))
    PROVE  \A s \in Want(p) : Given(got[p], s)
<1>0. Types /\ HandleInv /\ ListsInv /\ GotInv /\ NumSlots \in Nat
  BY DirScanAssumption DEF Inv
<1>1. Want(p) \in SUBSET Slots /\ Want(p) \subseteq Due(DH[i]) \ Skipped
  BY <1>0, WantFacts
<1>2. DH[i] \in Handles /\ Ordered(DH[i]) /\ GotOK(p)
  BY <1>0 DEF Types, ListsInv, GotInv
<1>3. Pos(DH[i]) \in 0 .. NumSlots
  BY <1>2, PosFacts
<1>4. UpTo(got[p], Want(p), Pos(DH[i]))
  BY <1>0, <1>2, MineFacts DEF GotOK, Pos
<1>. QED  BY <1>1, <1>3, <1>4, UpToEnd

\* A packet that found its handle.
LEMMA WithHandleStep ==
    ASSUME Inv, NEW p \in Progs, scan[p] = "on", NEW i \in 1 .. Len(DH), Mine(p, DH[i]),
           WithHandle(p, i, DH), present' = present, fib' = fib, lastkey' = lastkey,
           got' = got, stable' = stable, cut' = cut,
           abandoned' = abandoned, started' = started
    PROVE  Inv'
<1>0. Types /\ PacketInv /\ HandleInv /\ ListsInv /\ GotInv
  BY DEF Inv
<1>1. CASE DH[i].entries = <<>> /\ DH[i].eof
  <2>1. DH' = Without(DH, i) /\ pkt' = NoPacket /\ scan' = [scan EXCEPT ![p] = "ended"]
    BY <1>1 DEF WithHandle, Finish, dir_Remove, Without
  <2>2. Complete(DH[i], Due(DH[i])) /\ Len(DH[i].entries) = 0
    BY <1>0, <1>1 DEF ListsInv
  <2>3. \A s \in Due(DH[i]) \ Skipped : ~(s > Pos(DH[i]))
    BY <1>1, <2>2 DEF Complete
  <2>4. \A s \in Want(p) : Given(got[p], s)
    BY <2>3, EndComplete
  <2>5. Ascends(got[p]) /\ got \in [Progs -> Seq(Slots)] /\ cut \in [Progs -> BOOLEAN]
    BY <1>0 DEF GotInv, GotOK, Types
  <2>. QED  BY <2>1, <2>4, <2>5, FinishStep
<1>2. CASE ~(DH[i].entries = <<>> /\ DH[i].eof)
  <2>1. /\ DH' = DH /\ scan' = scan
        /\ pkt' = [prog |-> p, edh |-> i, room |-> Room,
                   step |-> IF DH[i].entries = <<>> THEN "read" ELSE "take"]
    BY <1>2 DEF WithHandle
  <2>2. pkt' \in Packets /\ pkt'.prog = p /\ pkt'.edh = i
        /\ pkt'.step = IF DH[i].entries = <<>> THEN "read" ELSE "take"
    <3>1. Room \in 0 .. Room /\ i \in Nat \ {0}
      BY <1>0, DirScanAssumption DEF Types
    <3>. QED  BY <2>1, <3>1 DEF Packets
  <2>3. Types'
    BY <1>0, <2>1, <2>2 DEF Types
  <2>4. PacketInv'
    BY <1>2, <2>1, <2>2 DEF PacketInv, Edh, Mine
  <2>5. HandleInv'
    <3>1. DH' \in Seq(Handles)
      BY <1>0, <2>1 DEF Types
    <3>. QED  BY <1>0, <2>1, <3>1, KeepKeeps
  <2>6. ListsInv'
    BY <1>0, <2>1 DEF ListsInv, Due, Serves
  <2>7. GotInv'
    BY <1>0, <2>1 DEF GotInv, GotOK, Want
  <2>. QED  BY <2>3, <2>4, <2>5, <2>6, <2>7 DEF Inv
<1>. QED  BY <1>1, <1>2

\* A packet that makes a handle.
LEMMA NewHandleStep ==
    ASSUME Inv, NEW p \in Progs, scan[p] = "on", NEW name \in {Root, NoName},
           WithHandle(p, 1, dir_Insert(dir_Create(AllocVec, name))),
           \/ p \in NextProgs /\ name = Root /\ fib[p] = Root /\ lastkey' = lastkey
              /\ Named(DH, {Root}) = {}
           \/ p \in AllProgs /\ name = NoName /\ lastkey[p] = NoAddr
              /\ lastkey' = [lastkey EXCEPT ![p] = AllocVec],
           present' = present, fib' = fib, got' = got, stable' = stable, cut' = cut,
           abandoned' = abandoned, started' = started
    PROVE  Inv'
<1>0. /\ Types /\ PacketInv /\ HandleInv /\ ListsInv /\ GotInv
      /\ NumSlots \in Nat /\ NextProgs \cap AllProgs = {}
      /\ DH \in Seq(Handles) /\ Len(DH) \in Nat
  BY DirScanAssumption DEF Inv, Types
<1>1. Len(DH) < MaxScans
  <2>1. p \in On \ Owners
    BY <1>0 DEF On, Owners
  <2>2. Named(DH, {Root}) = {} \/ OnEntry(Root) \ {p} # {}
    <3>1. p \in AllProgs => p \notin OnEntry(Root)
      BY <1>0 DEF OnEntry
    <3>. QED  BY <1>0, <3>1 DEF HandleInv, CountInv
  <2>. QED  BY <1>0, <2>1, <2>2, RoomForHandle
<1>2. PICK a : a = AllocVec
  OBVIOUS
<1>3. a \in Addrs /\ \A k \in 1 .. Len(DH) : DH[k].addr # a
  BY <1>0, <1>1, <1>2, FreshAddress
<1>4. PICK h : h = [addr |-> a, name |-> name, cookie |-> 0, entries |-> <<>>, eof |-> FALSE]
  OBVIOUS
<1>5. /\ h \in Handles /\ h.addr = a /\ h.name = name /\ h.cookie = 0
      /\ h.entries = <<>> /\ h.eof = FALSE /\ Len(h.entries) = 0
  <2>1. name \in 0 .. NoName /\ 0 \in 0 .. NumSlots /\ <<>> \in Seq(Slots) /\ FALSE \in BOOLEAN
    BY <1>0 DEF Root, NoName
  <2>. QED  BY <1>3, <1>4, <2>1 DEF Handles
<1>6. dir_Insert(dir_Create(AllocVec, name)) = <<h>> \o DH
  BY <1>2, <1>4 DEF dir_Insert, dir_Create
<1>7. PICK D : D = <<h>> \o DH
  OBVIOUS
<1>8. /\ D \in Seq(Handles) /\ Len(D) = Len(DH) + 1 /\ D[1] = h
      /\ \A k \in 2 .. Len(DH) + 1 : D[k] = DH[k - 1] /\ k - 1 \in 1 .. Len(DH)
  BY <1>0, <1>5, <1>7, InsertEntries
<1>9. /\ DH' = D /\ scan' = scan
      /\ pkt' = [prog |-> p, edh |-> 1, room |-> Room, step |-> "read"]
  <2>1. WithHandle(p, 1, D)
    BY <1>6, <1>7
  <2>2. D[1].entries = <<>> /\ ~D[1].eof
    BY <1>5, <1>8
  <2>. QED  BY <2>1, <2>2 DEF WithHandle
<1>10. /\ pkt' \in Packets /\ pkt'.prog = p /\ pkt'.edh = 1 /\ pkt'.step = "read"
  BY <1>9, DirScanAssumption DEF Packets
<1>11. /\ lastkey' \in [AllProgs -> Addrs \cup {NoAddr}]
       /\ \A q \in AllProgs : q # p => lastkey'[q] = lastkey[q]
       /\ p \in AllProgs => lastkey'[p] = a /\ a # NoAddr
  <2>1. lastkey \in [AllProgs -> Addrs \cup {NoAddr}]
    BY <1>0 DEF Types
  <2>2. a # NoAddr
    BY <1>3 DEF Addrs, NoAddr
  <2>3. CASE p \in NextProgs
    BY <1>0, <2>1, <2>3
  <2>4. CASE p \in AllProgs
    <3>1. lastkey' = [lastkey EXCEPT ![p] = a]
      BY <1>0, <1>2, <2>4
    <3>. QED  BY <1>3, <2>1, <2>2, <2>4, <3>1
  <2>. QED  BY <2>3, <2>4 DEF Progs
<1>12. Types'
  BY <1>0, <1>8, <1>9, <1>10, <1>11 DEF Types
<1>13. PacketInv'
  <2>1. 1 \in 1 .. Len(DH') /\ Edh' = h
    BY <1>0, <1>8, <1>9, <1>10 DEF Edh
  <2>2. Mine(p, h)'
    BY <1>0, <1>5, <1>11 DEF Mine
  <2>. QED  BY <1>5, <1>9, <1>10, <2>1, <2>2 DEF PacketInv
<1>14. HandleInv'
  <2>1. CASE p \in NextProgs
    BY <1>0, <1>3, <1>5, <1>7, <1>9, <2>1, NewNextKeeps
  <2>2. CASE p \in AllProgs
    <3>1. lastkey' = [lastkey EXCEPT ![p] = h.addr]
      BY <1>0, <1>2, <1>5, <2>2
    <3>2. h.name = NoName /\ lastkey[p] = NoAddr
      BY <1>0, <1>5, <2>2
    <3>. QED  BY <1>0, <1>3, <1>5, <1>7, <1>9, <2>2, <3>1, <3>2, NewAllKeeps
  <2>. QED  BY <2>1, <2>2 DEF Progs
<1>15. ListsInv'
  <2>. SUFFICES ASSUME NEW k \in 1 .. Len(D)
                PROVE  Ordered(D[k]) /\ Complete(D[k], Due(DH[k])')
    BY <1>9 DEF ListsInv
  <2>1. CASE k = 1
    <3>1. Ordered(h)
      BY <1>0, <1>5 DEF Ordered, Root
    <3>2. Complete(h, Due(DH[k])')
      <4>1. \A s \in Due(DH[k])' : s > 0
        BY DEF Due, Slots
      <4>. QED  BY <1>5, <4>1 DEF Complete
    <3>. QED  BY <1>8, <2>1, <3>1, <3>2
  <2>2. CASE k # 1
    <3>1. k \in 2 .. Len(DH) + 1
      BY <1>0, <1>8, <2>2
    <3>2. PICK j \in 1 .. Len(DH) : j = k - 1
      BY <1>8, <3>1
    <3>3. PICK g : g = D[k]
      OBVIOUS
    <3>4. g = DH[j] /\ Ordered(g) /\ Complete(g, Due(g))
      BY <1>0, <1>8, <3>1, <3>2, <3>3 DEF ListsInv
    <3>5. Due(g)' \subseteq Due(g)
      <4>1. ASSUME NEW q \in Progs, Serves(g, q)' PROVE Serves(g, q)
        <5>1. q \in AllProgs /\ q = p => g.addr # lastkey'[q]
          BY <1>3, <1>11, <3>4
        <5>. QED  BY <1>9, <1>11, <4>1, <5>1 DEF Serves
      <4>. QED  BY <4>1 DEF Due
    <3>6. Due(DH[k])' = Due(g)'
      BY <1>9, <3>3 DEF Due, Serves
    <3>. QED  BY <3>3, <3>4, <3>5, <3>6, CompleteStays
  <2>. QED  BY <2>1, <2>2
<1>16. ASSUME NEW q \in Progs PROVE GotOK(q)'
  <2>1. GotOK(q)
    BY <1>0 DEF GotInv
  <2>2. Want(q)' = Want(q)
    BY DEF Want
  <2>3. ASSUME scan[q] = "on", q \in AllProgs
        PROVE  /\ lastkey'[q] = NoAddr => got[q] = <<>>
               /\ \A k \in 1 .. Len(D) :
                     D[k].addr = lastkey'[q] => UpTo(got[q], Want(q), D[k].cookie)
    <3>1. CASE q = p
      <4>1. lastkey'[q] = a /\ a # NoAddr /\ got[q] = <<>>
        BY <1>0, <1>11, <2>1, <2>3, <3>1 DEF GotOK
      <4>2. UpTo(got[q], Want(q), 0)
        <5>1. \A s \in Want(q) : s \in Slots
          BY <1>0, WantFacts
        <5>2. \A s \in Want(q) : ~(s <= 0)
          BY <5>1 DEF Slots
        <5>3. Len(got[q]) = 0
          BY <4>1
        <5>. QED  BY <5>2, <5>3 DEF UpTo
      <4>3. \A k \in 1 .. Len(D) : D[k].addr = a => k = 1
        <5>. SUFFICES ASSUME NEW k \in 1 .. Len(D), k # 1 PROVE D[k].addr # a
          OBVIOUS
        <5>1. k \in 2 .. Len(DH) + 1
          BY <1>0, <1>8
        <5>. QED  BY <1>3, <1>8, <5>1
      <4>. QED  BY <1>5, <1>8, <4>1, <4>2, <4>3
    <3>2. CASE q # p
      <4>1. lastkey'[q] = lastkey[q]
        BY <1>11, <2>3, <3>2
      <4>2. lastkey[q] # a
        BY <1>3, <2>3 DEF HandleInv, KnownAddr, Inv, Addrs, NoAddr
      <4>3. ASSUME NEW k \in 1 .. Len(D), D[k].addr = lastkey[q]
            PROVE  UpTo(got[q], Want(q), D[k].cookie)
        <5>1. k # 1
          BY <1>5, <1>8, <4>2, <4>3
        <5>2. k \in 2 .. Len(DH) + 1
          BY <1>0, <1>8, <5>1
        <5>. QED  BY <1>8, <2>1, <2>3, <4>3, <5>2 DEF GotOK
      <4>. QED  BY <2>1, <2>3, <4>1, <4>3 DEF GotOK
    <3>. QED  BY <3>1, <3>2
  <2>. QED  BY <1>9, <2>1, <2>2, <2>3 DEF GotOK
<1>. QED  BY <1>12, <1>13, <1>14, <1>15, <1>16 DEF Inv, GotInv

\* There was no memory for a handle.
LEMMA NoHandleStep ==
    ASSUME Inv, NEW p \in Progs, scan[p] = "on", p \notin Owners,
           p \in NextProgs => Named(DH, {Root}) = {}, Finish(p, "failed"),
           DH' = DH, present' = present, fib' = fib, lastkey' = lastkey, got' = got,
           stable' = stable, cut' = cut,
           abandoned' = abandoned, started' = started
    PROVE  Inv'
<1>0. Types /\ PacketInv /\ HandleInv /\ ListsInv /\ GotInv
  BY DEF Inv
<1>1. pkt' = NoPacket /\ scan' = [scan EXCEPT ![p] = "failed"]
  BY DEF Finish
<1>2. \A q \in Progs : scan'[q] = IF q = p THEN "failed" ELSE scan[q]
  BY <1>0, <1>1 DEF Types
<1>3. Types'
  BY <1>0, <1>1 DEF Types
<1>4. PacketInv'
  BY <1>1 DEF PacketInv
<1>5. HandleInv'
  BY <1>0, <1>1, FailKeeps
<1>6. ListsInv'
  <2>. SUFFICES ASSUME NEW k \in 1 .. Len(DH)
                PROVE  Ordered(DH[k]) /\ Complete(DH[k], Due(DH[k])')
    BY DEF ListsInv
  <2>1. Ordered(DH[k]) /\ Complete(DH[k], Due(DH[k]))
    BY <1>0 DEF ListsInv
  <2>2. Due(DH[k])' \subseteq Due(DH[k])
    BY <1>2 DEF Due, Serves
  <2>. QED  BY <2>1, <2>2, CompleteStays
<1>7. GotInv'
  BY <1>0, <1>2 DEF GotInv, GotOK, Want
<1>. QED  BY <1>3, <1>4, <1>5, <1>6, <1>7 DEF Inv

----------------------------------------------------------------------------
(* Every action preserves the invariant.                                   *)

LEMMA ExamineNextStep ==
    ASSUME Inv, NEW p \in Progs, act_EXAMINE_NEXT(p)
    PROVE  Inv'
<1>0. /\ Types /\ PacketInv /\ HandleInv /\ ListsInv /\ GotInv
      /\ NextProgs \cap AllProgs = {} /\ NumSlots \in Nat
  BY DirScanAssumption DEF Inv
<1>1. PICK i : i = dir_LookupFromKeyAndCookieAndCBSTR(fib[p])
  OBVIOUS
<1>2. /\ i # 0 => i \in 1 .. Len(DH) /\ DH[i].name = fib[p]
      /\ i = 0 => Named(DH, {fib[p]}) = {}
  BY <1>0, <1>1, LookupName
<1>3. /\ p \in NextProgs /\ scan[p] = "on" /\ p \notin AllProgs
      /\ present' = present /\ fib' = fib /\ lastkey' = lastkey /\ got' = got
      /\ stable' = stable /\ cut' = cut
      /\ abandoned' = abandoned /\ started' = started
  BY <1>0 DEF act_EXAMINE_NEXT, srv, ghosts
<1>4. CASE i # 0 /\ WithHandle(p, i, DH)
  <2>1. Mine(p, DH[i])
    BY <1>2, <1>3, <1>4 DEF Mine
  <2>. QED  BY <1>2, <1>3, <1>4, <2>1, WithHandleStep
<1>5. CASE i = 0 /\ fib[p] # Root
  <2>1. fib[p] \in Slots
    BY <1>0, <1>3, <1>5 DEF Types, Slots, Root
  <2>2. Cardinality(OnEntry(fib[p])) <= Cardinality(Named(DH, {fib[p]}))
    BY <1>0, <2>1 DEF HandleInv, OnHandles
  <2>3. Cardinality(Named(DH, {fib[p]})) = 0
    BY <1>2, <1>5, FS_EmptySet
  <2>4. p \in OnEntry(fib[p])
    BY <1>3 DEF OnEntry
  <2>5. /\ IsFiniteSet(OnEntry(fib[p])) /\ Cardinality(OnEntry(fib[p])) \in Nat
    BY ProgSets
  <2>6. Cardinality(OnEntry(fib[p])) # 0
    BY <2>4, <2>5, FS_EmptySet
  <2>. QED  BY <2>2, <2>3, <2>5, <2>6
<1>6. CASE i = 0 /\ fib[p] = Root
           /\ WithHandle(p, 1, dir_Insert(dir_Create(AllocVec, Root)))
  BY <1>2, <1>3, <1>6, NewHandleStep
<1>7. CASE i = 0 /\ fib[p] = Root /\ Finish(p, "failed") /\ DH' = DH
  <2>1. p \notin Owners
    BY <1>3, <1>7 DEF Owners
  <2>. QED  BY <1>2, <1>3, <1>7, <2>1, NoHandleStep
<1>. QED  BY <1>1, <1>4, <1>5, <1>6, <1>7 DEF act_EXAMINE_NEXT

LEMMA ExamineAllStep ==
    ASSUME Inv, NEW p \in Progs, act_EXAMINE_ALL(p)
    PROVE  Inv'
<1>0. /\ Types /\ PacketInv /\ HandleInv /\ ListsInv /\ GotInv
      /\ NextProgs \cap AllProgs = {} /\ NumSlots \in Nat
  BY DirScanAssumption DEF Inv
<1>1. PICK i : i = dir_LookupFromAddress(lastkey[p])
  OBVIOUS
<1>2. /\ i # 0 => i \in 1 .. Len(DH) /\ DH[i].addr = lastkey[p]
      /\ i = 0 => \A j \in 1 .. Len(DH) : DH[j].addr # lastkey[p]
  BY <1>0, <1>1, LookupAddress
<1>3. /\ p \in AllProgs /\ scan[p] = "on" /\ p \notin NextProgs
      /\ present' = present /\ fib' = fib /\ got' = got
      /\ stable' = stable /\ cut' = cut
      /\ abandoned' = abandoned /\ started' = started
  BY <1>0 DEF act_EXAMINE_ALL, srv, ghosts
<1>4. ASSUME lastkey[p] # NoAddr
      PROVE  \E j \in 1 .. Len(DH) : DH[j].addr = lastkey[p] /\ DH[j].name = NoName
  BY <1>0, <1>3, <1>4 DEF HandleInv, KnownAddr
<1>5. CASE lastkey[p] # NoAddr /\ i # 0 /\ WithHandle(p, i, DH) /\ lastkey' = lastkey
  <2>1. PICK j \in 1 .. Len(DH) : DH[j].addr = lastkey[p] /\ DH[j].name = NoName
    BY <1>4, <1>5
  <2>2. j = i
    BY <1>0, <1>2, <1>5, <2>1 DEF HandleInv, AddrInv
  <2>3. Mine(p, DH[i])
    BY <1>3, <2>1, <2>2 DEF Mine
  <2>. QED  BY <1>2, <1>3, <1>5, <2>3, WithHandleStep
<1>6. CASE lastkey[p] # NoAddr /\ i = 0
  BY <1>2, <1>4, <1>6
<1>7. CASE lastkey[p] = NoAddr
           /\ WithHandle(p, 1, dir_Insert(dir_Create(AllocVec, NoName)))
           /\ lastkey' = [lastkey EXCEPT ![p] = AllocVec]
  BY <1>3, <1>7, NewHandleStep
<1>8. CASE lastkey[p] = NoAddr /\ Finish(p, "failed") /\ DH' = DH /\ lastkey' = lastkey
  <2>1. p \notin Owners
    BY <1>3, <1>8 DEF Owners
  <2>. QED  BY <1>3, <1>8, <2>1, NoHandleStep
<1>. QED  BY <1>1, <1>5, <1>6, <1>7, <1>8 DEF act_EXAMINE_ALL

\* The packet that runs and its handle.
LEMMA Running ==
    ASSUME Inv, NEW p \in Progs, NEW step \in {"read", "take"},
           pkt.step = step, pkt.prog = p
    PROVE  /\ pkt \in Packets /\ pkt.edh \in 1 .. Len(DH) /\ scan[p] = "on"
           /\ Mine(p, DH[pkt.edh]) /\ DH[pkt.edh] \in Handles
           /\ Ordered(DH[pkt.edh]) /\ Complete(DH[pkt.edh], Due(DH[pkt.edh]))
           /\ step = "take" => DH[pkt.edh].entries # <<>>
           /\ step = "read" => DH[pkt.edh].entries = <<>> /\ ~DH[pkt.edh].eof
           /\ GotOK(p)
<1>1. pkt # NoPacket
  BY DEF NoPacket
<1>2. pkt \in Packets
  BY <1>1 DEF Inv, Types
<1>3. pkt.edh \in 1 .. Len(DH)
  BY <1>1 DEF Inv, PacketInv
<1>4. DH[pkt.edh] \in Handles
  BY <1>3 DEF Inv, Types
<1>. QED  BY <1>1, <1>2, <1>3, <1>4 DEF Inv, PacketInv, ListsInv, GotInv, Edh

LEMMA FailingReadStep ==
    ASSUME Inv, NEW p \in Progs, Reading(p), NEW how \in {"ended", "failed"},
           FinishRemove(p, how), NEW c \in BOOLEAN, cut' = [cut EXCEPT ![p] = c],
           how = "ended" => c,
           present' = present, fib' = fib, lastkey' = lastkey, got' = got,
           stable' = stable, abandoned' = abandoned, started' = started
    PROVE  Inv'
<1>1. /\ pkt.edh \in 1 .. Len(DH) /\ scan[p] = "on" /\ Mine(p, DH[pkt.edh]) /\ GotOK(p)
  BY Running DEF Reading
<1>2. /\ DH' = Without(DH, pkt.edh) /\ pkt' = NoPacket /\ scan' = [scan EXCEPT ![p] = how]
  BY DEF FinishRemove, Finish, dir_Remove, Without
<1>3. /\ got \in [Progs -> Seq(Slots)] /\ cut \in [Progs -> BOOLEAN]
  BY DEF Inv, Types
<1>4. cut' \in [Progs -> BOOLEAN] /\ cut'[p] = c /\ \A q \in Progs : q # p => cut'[q] = cut[q]
  BY <1>3
<1>5. Ascends(got'[p])
  BY <1>1 DEF GotOK
<1>6. how = "ended" /\ ~cut'[p] => \A s \in Want(p) : Given(got'[p], s)
  BY <1>4
<1>. QED  BY <1>1, <1>2, <1>3, <1>4, <1>5, <1>6, FinishStep

LEMMA ReadDirFailsStep ==
    ASSUME Inv, NEW p \in Progs, ReadDirFails(p) \/ DupEntriesFails(p)
    PROVE  Inv'
<1>1. CASE ReadDirFails(p)
  <2>1. PICK rpc \in BOOLEAN : /\ FinishRemove(p, IF rpc THEN "ended" ELSE "failed")
                               /\ cut' = [cut EXCEPT ![p] = rpc]
    BY <1>1 DEF ReadDirFails
  <2>2. /\ Reading(p) /\ present' = present /\ fib' = fib /\ lastkey' = lastkey /\ got' = got
        /\ stable' = stable /\ abandoned' = abandoned /\ started' = started
    BY <1>1 DEF ReadDirFails, srv
  <2>3. CASE rpc = TRUE
    <3>1. FinishRemove(p, "ended")
      BY <2>1, <2>3
    <3>. QED  BY <2>1, <2>2, <2>3, <3>1, FailingReadStep
  <2>4. CASE rpc = FALSE
    <3>1. FinishRemove(p, "failed")
      BY <2>1, <2>4
    <3>. QED  BY <2>1, <2>2, <2>4, <3>1, FailingReadStep
  <2>. QED  BY <2>3, <2>4
<1>2. CASE DupEntriesFails(p)
  <2>0. /\ Reading(p) /\ present' = present /\ fib' = fib /\ lastkey' = lastkey /\ got' = got
        /\ stable' = stable /\ abandoned' = abandoned /\ started' = started
    BY <1>2 DEF DupEntriesFails, srv
  <2>1. PICK m : /\ m \in BOOLEAN
                 /\ FinishRemove(p, IF m THEN "ended" ELSE "failed")
                 /\ cut' = [cut EXCEPT ![p] = m]
    <3>1. PICK eof :
              /\ FinishRemove(p, IF eof /\ p \in NextProgs THEN "ended" ELSE "failed")
              /\ cut' = [cut EXCEPT ![p] = eof /\ p \in NextProgs]
      BY <1>2 DEF DupEntriesFails
    <3>2. PICK m : m = (eof /\ p \in NextProgs)
      OBVIOUS
    <3>3. m \in BOOLEAN
      BY <3>2, Zenon
    <3>. QED  BY <3>1, <3>2, <3>3, Zenon
  <2>3. CASE m = TRUE
    <3>1. FinishRemove(p, "ended")
      BY <2>1, <2>3
    <3>. QED  BY <2>0, <2>1, <2>3, <3>1, FailingReadStep
  <2>4. CASE m = FALSE
    <3>1. FinishRemove(p, "failed")
      BY <2>1, <2>4
    <3>. QED  BY <2>0, <2>1, <2>4, <3>1, FailingReadStep
  <2>. QED  BY <2>1, <2>3, <2>4
<1>. QED  BY <1>1, <1>2

LEMMA ReadDirStep ==
    ASSUME Inv, NEW p \in Progs, ReadDir(p)
    PROVE  Inv'
<1>0. Types /\ PacketInv /\ HandleInv /\ ListsInv /\ GotInv
  BY DEF Inv
<1>1. PICK i : i = pkt.edh
  OBVIOUS
<1>2. /\ i \in 1 .. Len(DH) /\ scan[p] = "on" /\ Mine(p, DH[i]) /\ DH[i] \in Handles
      /\ Ordered(DH[i]) /\ Complete(DH[i], Due(DH[i])) /\ GotOK(p)
      /\ DH[i].entries = <<>> /\ ~DH[i].eof /\ pkt \in Packets /\ pkt.prog = p /\ pkt.step = "read"
  BY <1>1, Running DEF ReadDir, Reading
<1>3. /\ present' = present /\ fib' = fib /\ lastkey' = lastkey /\ got' = got
      /\ stable' = stable /\ cut' = cut
      /\ abandoned' = abandoned /\ started' = started
  BY DEF ReadDir, srv, ghosts
<1>. DEFINE Outcome(reply, eof, rest, c) ==
                \/ rest = <<>> /\ eof /\ FinishRemove(p, "ended")
                \/ /\ ~(rest = <<>> /\ eof)
                   /\ DH' = [DH EXCEPT ![i] = [DH[i] EXCEPT !.cookie = c,
                                                    !.entries = rest, !.eof = eof]]
                   /\ pkt' = IF rest = <<>> THEN pkt ELSE [pkt EXCEPT !.step = "take"]
                   /\ scan' = scan
<1>4. \E reply \in Replies(DH[i].cookie) : \E eof \in MayEof(DH[i].cookie, reply) :
          Outcome(reply, eof, SubSeq(reply, Leading(reply) + 1, Len(reply)),
                  SkipTo(reply, Leading(reply), DH[i].cookie))
  BY <1>1 DEF ReadDir, Edh
<1>5. PICK reply \in Replies(DH[i].cookie) : \E eof \in MayEof(DH[i].cookie, reply) :
          Outcome(reply, eof, SubSeq(reply, Leading(reply) + 1, Len(reply)),
                  SkipTo(reply, Leading(reply), DH[i].cookie))
  BY <1>4, Zenon
<1>6. PICK eof \in MayEof(DH[i].cookie, reply) :
          Outcome(reply, eof, SubSeq(reply, Leading(reply) + 1, Len(reply)),
                  SkipTo(reply, Leading(reply), DH[i].cookie))
  BY <1>5, Zenon
<1>7. PICK rest : rest = SubSeq(reply, Leading(reply) + 1, Len(reply))
  OBVIOUS
<1>8. PICK c : c = SkipTo(reply, Leading(reply), DH[i].cookie)
  OBVIOUS
<1>9. Outcome(reply, eof, rest, c)
  BY <1>6, <1>7, <1>8, Zenon
<1>10. /\ rest \in Seq(Slots) /\ c \in 0 .. NumSlots /\ eof \in BOOLEAN
       /\ DH[i].cookie <= c
       /\ \A s \in present \ Skipped : s > DH[i].cookie => s > c
       /\ rest = <<>> /\ eof => \A s \in Due(DH[i]) \ Skipped : ~(s > Pos(DH[i]))
       /\ \A h2 \in Handles :
             /\ h2.name = DH[i].name /\ h2.entries = rest /\ h2.cookie = c /\ h2.eof = eof
             => Ordered(h2) /\ Complete(h2, Due(DH[i]))
  <2>. HIDE DEF Outcome
  <2>1. PICK g : g = DH[i]
    OBVIOUS
  <2>2. PICK due : due = Due(DH[i])
    OBVIOUS
  <2>3. due \in SUBSET present
    BY <1>0, <2>2, DueFacts
  <2>4. /\ g \in Handles /\ Ordered(g) /\ Complete(g, due)
        /\ g.entries = <<>> /\ ~g.eof
        /\ reply \in Replies(g.cookie) /\ eof \in MayEof(g.cookie, reply)
        /\ c = SkipTo(reply, Leading(reply), g.cookie)
    BY <1>2, <1>8, <2>1, <2>2
  <2>5. ReadOK(g, due, rest, c, eof)
    BY <1>0, <1>7, <2>3, <2>4, ReadSound, Zenon
  <2>. QED  BY <2>1, <2>2, <2>5, Zenon DEF ReadOK
<1>11. CASE rest = <<>> /\ eof
  <2>1. FinishRemove(p, "ended")
    BY <1>9, <1>11
  <2>2. /\ DH' = Without(DH, i) /\ pkt' = NoPacket /\ scan' = [scan EXCEPT ![p] = "ended"]
    BY <1>1, <2>1 DEF FinishRemove, Finish, dir_Remove, Without
  <2>3. \A s \in Want(p) : Given(got[p], s)
    BY <1>2, <1>10, <1>11, EndComplete
  <2>4. Ascends(got[p]) /\ got \in [Progs -> Seq(Slots)] /\ cut \in [Progs -> BOOLEAN]
    BY <1>0, <1>2 DEF GotOK, Types
  <2>. QED  BY <1>2, <1>3, <2>2, <2>3, <2>4, FinishStep
<1>12. CASE ~(rest = <<>> /\ eof)
  <2>1. PICK h : h = [DH[i] EXCEPT !.cookie = c, !.entries = rest, !.eof = eof]
    OBVIOUS
  <2>2. /\ h \in Handles /\ h.addr = DH[i].addr /\ h.name = DH[i].name
        /\ h.cookie = c /\ h.entries = rest /\ h.eof = eof
    BY <1>2, <1>10, <2>1 DEF Handles
  <2>3. /\ DH' = [DH EXCEPT ![i] = h] /\ scan' = scan
        /\ pkt' = IF rest = <<>> THEN pkt ELSE [pkt EXCEPT !.step = "take"]
    BY <1>9, <1>12, <2>1
  <2>4. Ordered(h) /\ Complete(h, Due(DH[i]))
    BY <1>10, <2>2
  <2>5. Ascends(got[p]) /\ (p \in NextProgs => UpTo(got[p], Want(p), fib[p]))
    BY <1>2 DEF GotOK
  <2>6. ASSUME p \in AllProgs PROVE UpTo(got[p], Want(p), c)
    <3>1. UpTo(got[p], Want(p), DH[i].cookie)
      BY <1>0, <1>2, <2>6, MineFacts, DirScanAssumption DEF GotOK
    <3>2. Want(p) \in SUBSET Slots /\ Want(p) \subseteq present \ Skipped
      BY <1>0, WantFacts DEF GotInv, GotOK, Want
    <3>3. DH[i].cookie \in 0 .. NumSlots /\ got[p] \in Seq(Slots)
      BY <1>0, <1>2, HandleTypes DEF Types
    <3>4. \A s \in Want(p) : ~(s > DH[i].cookie /\ s <= c)
      BY <1>10, <3>2 DEF Slots
    <3>. QED  BY <1>10, <3>1, <3>2, <3>3, <3>4, UpToPass
  <2>7. Due(h)' \subseteq Due(DH[i]) /\ stable' \in [Progs -> SUBSET Slots]
    BY <1>0, <1>3, <2>2, <2>3 DEF Due, Serves, Types
  <2>8. /\ DH' \in Seq(Handles) /\ Len(DH') = Len(DH) /\ DH'[i] = h
        /\ \A k \in 1 .. Len(DH) : k # i => DH'[k] = DH[k]
        /\ ListsInv' /\ GotInv'
    BY <1>2, <1>3, <2>2, <2>3, <2>4, <2>5, <2>6, <2>7, GoOnStep
  <2>9. HandleInv'
    <3>1. \A k \in 1 .. Len(DH) : DH'[k].name = DH[k].name /\ DH'[k].addr = DH[k].addr
      BY <2>2, <2>8
    <3>. QED  BY <1>0, <1>3, <2>3, <2>8, <3>1, KeepKeeps
  <2>10. /\ pkt' \in Packets /\ pkt'.prog = p /\ pkt'.edh = i
         /\ pkt'.step = IF rest = <<>> THEN "read" ELSE "take"
    BY <1>1, <1>2, <2>3 DEF Packets
  <2>11. Types'
    BY <1>0, <1>3, <2>3, <2>8, <2>10 DEF Types
  <2>12. PacketInv'
    <3>1. Edh' = h
      BY <2>8, <2>10 DEF Edh
    <3>2. Mine(p, h)'
      BY <1>2, <1>3, <2>2 DEF Mine
    <3>3. pkt'.step = "read" => rest = <<>>
      BY <2>10
    <3>4. pkt'.step = "take" => rest # <<>>
      BY <2>10
    <3>5. pkt'.step = "read" => h.entries = <<>> /\ ~h.eof
      BY <1>12, <2>2, <3>3, Zenon
    <3>. QED  BY <1>2, <2>2, <2>3, <2>8, <2>10, <3>1, <3>2, <3>4, <3>5 DEF PacketInv
  <2>. QED  BY <2>8, <2>9, <2>11, <2>12 DEF Inv
<1>. QED  BY <1>11, <1>12

\* What a packet knows that takes the next entry of its handle.
LEMMA TakeFacts ==
    ASSUME Inv, NEW p \in Progs, Taking(p), NEW i, i = pkt.edh, NEW e, e = Entry
    PROVE  /\ pkt \in Packets /\ pkt.prog = p /\ i \in 1 .. Len(DH) /\ scan[p] = "on"
           /\ Mine(p, DH[i]) /\ DH[i] \in Handles /\ DH[i].entries # <<>>
           /\ e = Head(DH[i].entries) /\ e \in Slots /\ e > DH[i].cookie /\ e > Pos(DH[i])
           /\ \A s \in Due(DH[i]) \ Skipped : ~(s > Pos(DH[i]) /\ s < e)
           /\ Ordered(DH[i]) /\ Complete(DH[i], Due(DH[i])) /\ GotOK(p)
           /\ Tail(DH[i].entries) \in Seq(Slots)
<1>1. /\ pkt \in Packets /\ pkt.prog = p /\ i \in 1 .. Len(DH) /\ scan[p] = "on"
      /\ Mine(p, DH[i]) /\ DH[i] \in Handles /\ DH[i].entries # <<>>
      /\ Ordered(DH[i]) /\ Complete(DH[i], Due(DH[i])) /\ GotOK(p)
  BY Running DEF Taking
<1>2. e = Head(DH[i].entries)
  BY DEF Entry, Edh
<1>3. Due(DH[i]) \in SUBSET Slots
  BY DEF Due
<1>4. /\ Head(DH[i].entries) \in Slots
      /\ Head(DH[i].entries) > DH[i].cookie /\ Head(DH[i].entries) > Pos(DH[i])
      /\ \A s \in Due(DH[i]) \ Skipped : ~(s > Pos(DH[i]) /\ s < Head(DH[i].entries))
  BY <1>1, <1>3, HeadNext
<1>5. DH[i].entries \in Seq(Slots)
  BY <1>1, HandleTypes
<1>6. Tail(DH[i].entries) \in Seq(Slots)
  BY <1>1, <1>5, TailFacts
<1>. QED  BY <1>1, <1>2, <1>4, <1>6

LEMMA TakeNextStep ==
    ASSUME Inv, NEW p \in Progs, TakeNext(p)
    PROVE  Inv'
<1>0. Types /\ PacketInv /\ HandleInv /\ ListsInv /\ GotInv
  BY DEF Inv
<1>1. PICK i : i = pkt.edh
  OBVIOUS
<1>2. PICK e : e = Entry
  OBVIOUS
<1>3. /\ i \in 1 .. Len(DH) /\ scan[p] = "on" /\ Mine(p, DH[i]) /\ DH[i] \in Handles
      /\ DH[i].entries # <<>> /\ e = Head(DH[i].entries) /\ e \in Slots /\ e > Pos(DH[i])
      /\ \A s \in Due(DH[i]) \ Skipped : ~(s > Pos(DH[i]) /\ s < e)
      /\ Ordered(DH[i]) /\ Complete(DH[i], Due(DH[i])) /\ GotOK(p)
      /\ Tail(DH[i].entries) \in Seq(Slots)
  BY <1>1, <1>2, TakeFacts DEF TakeNext
<1>4. /\ p \in NextProgs /\ p \notin AllProgs
      /\ present' = present /\ scan' = scan /\ lastkey' = lastkey /\ stable' = stable
      /\ cut' = cut /\ abandoned' = abandoned /\ started' = started
      /\ pkt' = NoPacket
  BY DirScanAssumption DEF TakeNext, srv, ghosts
<1>5. /\ DH' = [DH EXCEPT ![i] = Advance] /\ fib' = [fib EXCEPT ![p] = e]
      /\ got' = [got EXCEPT ![p] = Append(got[p], e)]
  BY <1>1, <1>2 DEF TakeNext
<1>6. PICK h : h = Advance
  OBVIOUS
<1>7. /\ h \in Handles /\ h.addr = DH[i].addr /\ h.name = e /\ h.cookie = e
      /\ h.entries = Tail(DH[i].entries) /\ h.eof = DH[i].eof
  <2>1. h = [[DH[i] EXCEPT !.entries = Tail(DH[i].entries)] EXCEPT !.cookie = e, !.name = e]
    BY <1>1, <1>2, <1>6 DEF Advance, Removed, Edh
  <2>2. e \in 0 .. NoName /\ e \in 0 .. NumSlots
    BY <1>3, DirScanAssumption DEF Slots, NoName
  <2>3. DH[i] \in [addr : Addrs, name : 0 .. NoName, cookie : 0 .. NumSlots,
                   entries : Seq(Slots), eof : BOOLEAN]
    BY <1>3 DEF Handles
  <2>. QED  BY <1>3, <2>1, <2>2, <2>3 DEF Handles
<1>8. present \in SUBSET Slots /\ fib \in [NextProgs -> 0 .. NumSlots]
      /\ got \in [Progs -> Seq(Slots)]
  BY <1>0 DEF Types
<1>. PICK due : due = Due(DH[i])
  OBVIOUS
<1>9. Ordered(h) /\ Complete(h, due) /\ Due(h)' \subseteq due
  <2>1. PICK g : g = DH[i]
    OBVIOUS
  <2>2. /\ g \in Handles /\ Ordered(g) /\ g.entries # <<>> /\ Complete(g, due)
        /\ h.entries = Tail(g.entries) /\ h.cookie = Head(g.entries) /\ h.eof = g.eof
        /\ h.name = Head(g.entries)
    BY <1>3, <1>7, <2>1, Zenon
  <2>3. due \in SUBSET Slots
    BY DEF Due
  <2>4. Due(h)' \subseteq due
    <3>1. h.name # NoName /\ DH[i].name # NoName
      BY <1>0, <1>3, <1>4, <1>7, MineFacts, DirScanAssumption DEF Slots, NoName
    <3>. QED  BY <1>4, <3>1 DEF Due, Serves
  <2>. QED  BY <1>7, <2>2, <2>3, <2>4, AdvancedSound, Zenon
<1>10. /\ got' \in [Progs -> Seq(Slots)] /\ got'[p] = Append(got[p], e)
       /\ \A q \in Progs : q # p => got'[q] = got[q]
  BY <1>3, <1>5, <1>8
<1>11. /\ fib' \in [NextProgs -> 0 .. NumSlots] /\ fib'[p] = e
       /\ \A q \in NextProgs : q # p => fib'[q] = fib[q]
  <2>1. e \in 0 .. NumSlots
    BY <1>3 DEF Slots
  <2>. QED  BY <1>4, <1>5, <1>8, <2>1
<1>12. /\ DH[i].name = fib[p] /\ fib[p] \in 0 .. NumSlots /\ Pos(DH[i]) = fib[p]
  BY <1>0, <1>3, <1>4, MineFacts DEF Pos
<1>13. Ascends(got'[p]) /\ UpTo(got'[p], Want(p), e)
  <2>1. Want(p) \in SUBSET Slots /\ Want(p) \subseteq Due(DH[i]) \ Skipped
    BY <1>0, <1>3, WantFacts
  <2>2. UpTo(got[p], Want(p), fib[p]) /\ Ascends(got[p])
    BY <1>3, <1>4 DEF GotOK
  <2>3. e > fib[p] /\ \A s \in Want(p) : ~(s > fib[p] /\ s < e)
    BY <1>3, <1>12, <2>1
  <2>4. got[p] \in Seq(Slots)
    BY <1>8
  <2>5. Ascends(Append(got[p], e)) /\ UpTo(Append(got[p], e), Want(p), e)
    <3>1. PICK g : g = got[p]
      OBVIOUS
    <3>2. PICK want : want = Want(p)
      OBVIOUS
    <3>3. PICK place : place = fib[p]
      OBVIOUS
    <3>4. /\ g \in Seq(Slots) /\ want \in SUBSET Slots /\ place \in 0 .. NumSlots
          /\ UpTo(g, want, place) /\ Ascends(g) /\ e \in Slots /\ e > place
          /\ \A s \in want : ~(s > place /\ s < e)
      BY <1>3, <1>12, <2>1, <2>2, <2>3, <2>4, <3>1, <3>2, <3>3, Zenon
    <3>5. Ascends(Append(g, e)) /\ UpTo(Append(g, e), want, e)
      BY <3>4, UpToAppend, Zenon
    <3>. QED  BY <3>1, <3>2, <3>5, Zenon
  <2>. QED  BY <1>10, <2>5, Zenon
<1>14. DH' = [DH EXCEPT ![i] = h]
  BY <1>5, <1>6
<1>15. /\ DH' \in Seq(Handles) /\ ListsInv' /\ GotInv'
  <2>1. p \in NextProgs => UpTo(got'[p], Want(p), fib'[p])
    BY <1>4, <1>11, <1>13
  <2>2. stable' \in [Progs -> SUBSET Slots]
    BY <1>0, <1>4 DEF Types
  <2>. QED  BY <1>3, <1>4, <1>7, <1>9, <1>10, <1>11, <1>13, <1>14, <2>1, <2>2, GoOnStep
<1>16. HandleInv'
  BY <1>0, <1>3, <1>4, <1>5, <1>7, <1>12, <1>14, AdvanceKeeps
<1>17. Types'
  BY <1>0, <1>4, <1>10, <1>11, <1>15 DEF Types
<1>18. PacketInv'
  BY <1>4 DEF PacketInv
<1>. QED  BY <1>15, <1>16, <1>17, <1>18 DEF Inv

LEMMA TakeNextFailsStep ==
    ASSUME Inv, NEW p \in Progs, TakeNextFails(p)
    PROVE  Inv'
<1>0. Types /\ PacketInv /\ HandleInv /\ ListsInv /\ GotInv
  BY DEF Inv
<1>1. PICK i : i = pkt.edh
  OBVIOUS
<1>2. PICK e : e = Entry
  OBVIOUS
<1>3. /\ i \in 1 .. Len(DH) /\ scan[p] = "on" /\ Mine(p, DH[i]) /\ DH[i] \in Handles
      /\ DH[i].entries # <<>> /\ e = Head(DH[i].entries)
      /\ Ordered(DH[i]) /\ Complete(DH[i], Due(DH[i])) /\ GotOK(p)
      /\ Tail(DH[i].entries) \in Seq(Slots)
  BY <1>1, <1>2, TakeFacts DEF TakeNextFails
<1>4. /\ p \in NextProgs /\ p \notin AllProgs
      /\ present' = present /\ scan' = scan /\ lastkey' = lastkey
      /\ fib' = fib /\ got' = got
      /\ cut' = cut /\ abandoned' = abandoned /\ started' = started /\ pkt' = NoPacket
  BY DirScanAssumption DEF TakeNextFails, srv
<1>5. /\ DH' = [DH EXCEPT ![i] = Removed]
      /\ stable' = [q \in Progs |-> IF q \in NextProgs THEN stable[q] \ {e} ELSE stable[q]]
  BY <1>1, <1>2 DEF TakeNextFails
<1>6. PICK h : h = Removed
  OBVIOUS
<1>7. /\ h \in Handles /\ h.addr = DH[i].addr /\ h.name = DH[i].name /\ h.cookie = DH[i].cookie
      /\ h.entries = Tail(DH[i].entries) /\ h.eof = DH[i].eof
  <2>1. h = [DH[i] EXCEPT !.entries = Tail(DH[i].entries)]
    BY <1>1, <1>6 DEF Removed, Edh
  <2>. QED  BY <1>3, <2>1 DEF Handles
<1>8. /\ stable' \in [Progs -> SUBSET Slots] /\ \A q \in Progs : stable'[q] \subseteq stable[q]
      /\ \A q \in NextProgs : q \in Progs /\ stable'[q] = stable[q] \ {e}
  BY <1>0, <1>5 DEF Types, Progs
<1>. PICK due : due = Due(DH[i])
  OBVIOUS
<1>9. Ordered(h) /\ Complete(h, due \ {e}) /\ Due(h)' \subseteq due \ {e}
  <2>1. PICK g : g = DH[i]
    OBVIOUS
  <2>2. /\ g \in Handles /\ Ordered(g) /\ g.entries # <<>> /\ Complete(g, due)
        /\ h.entries = Tail(g.entries) /\ h.cookie = g.cookie /\ h.eof = g.eof
        /\ h.name = g.name /\ Head(g.entries) = e
    BY <1>3, <1>7, <2>1, Zenon
  <2>3. due \in SUBSET Slots
    BY DEF Due
  <2>4. Ordered(h) /\ Complete(h, due \ {Head(g.entries)})
    BY <1>7, <2>2, <2>3, RemovedSound, Zenon
  <2>5. DH[i].name # NoName /\ h.name # NoName
    BY <1>0, <1>3, <1>4, <1>7, MineFacts
  <2>6. ASSUME NEW s \in Slots, NEW q \in Progs, Serves(h, q)', s \in stable'[q]
        PROVE  s \in due \ {e}
    <3>1. q \in NextProgs /\ scan[q] = "on"
      BY <1>4, <2>5, <2>6 DEF Serves
    <3>2. s # e /\ s \in stable[q]
      BY <1>8, <2>6, <3>1
    <3>. QED  BY <2>5, <3>1, <3>2 DEF Due, Serves
  <2>7. Due(h)' \subseteq due \ {e}
    BY <2>6 DEF Due
  <2>. QED  BY <2>2, <2>4, <2>7
<1>10. Ascends(got'[p]) /\ (p \in NextProgs => UpTo(got'[p], Want(p), fib'[p]))
  BY <1>3, <1>4 DEF GotOK
<1>11. DH' = [DH EXCEPT ![i] = h]
  BY <1>5, <1>6
<1>12. /\ DH' \in Seq(Handles) /\ Len(DH') = Len(DH) /\ DH'[i] = h
       /\ \A k \in 1 .. Len(DH) : k # i => DH'[k] = DH[k]
       /\ ListsInv' /\ GotInv'
  <2>. PICK less : less = due \ {e}
    OBVIOUS
  <2>1. Complete(h, less) /\ Due(h)' \subseteq less /\ Ordered(h)
    BY <1>9
  <2>2. DH[i].addr = h.addr /\ h \in Handles
    BY <1>7
  <2>3. /\ \A q \in NextProgs : q # p => fib'[q] = fib[q]
        /\ \A q \in Progs : q # p => got'[q] = got[q]
    BY <1>4
  <2>. QED  BY <1>3, <1>4, <1>8, <1>10, <1>11, <2>1, <2>2, <2>3, GoOnStep
<1>13. HandleInv'
  <2>1. \A k \in 1 .. Len(DH) : DH'[k].name = DH[k].name /\ DH'[k].addr = DH[k].addr
    BY <1>7, <1>12
  <2>. QED  BY <1>0, <1>4, <1>12, <2>1, KeepKeeps
<1>14. Types'
  BY <1>0, <1>4, <1>8, <1>12 DEF Types
<1>15. PacketInv'
  BY <1>4 DEF PacketInv
<1>. QED  BY <1>12, <1>13, <1>14, <1>15 DEF Inv

\* The loop of EXAMINE_ALL goes past an entry that the program was given or
\* does not want.
LEMMA PassStep ==
    ASSUME Inv, NEW p \in AllProgs, Taking(p), NEW room \in 0 .. Room, PassEntry(p, room),
           got' \in [Progs -> Seq(Slots)], \A q \in Progs : q # p => got'[q] = got[q],
           Ascends(got'[p]), UpTo(got'[p], Want(p), Entry)
    PROVE  Inv'
<1>0. Types /\ PacketInv /\ HandleInv /\ ListsInv /\ GotInv /\ p \in Progs /\ p \notin NextProgs
  BY DirScanAssumption DEF Inv, Progs
<1>1. PICK i : i = pkt.edh
  OBVIOUS
<1>2. PICK e : e = Entry
  OBVIOUS
<1>3. /\ pkt \in Packets /\ pkt.prog = p
      /\ i \in 1 .. Len(DH) /\ scan[p] = "on" /\ Mine(p, DH[i]) /\ DH[i] \in Handles
      /\ DH[i].entries # <<>> /\ e = Head(DH[i].entries) /\ e \in Slots
      /\ Ordered(DH[i]) /\ Complete(DH[i], Due(DH[i])) /\ GotOK(p)
      /\ Tail(DH[i].entries) \in Seq(Slots)
  BY <1>0, <1>1, <1>2, TakeFacts
<1>4. /\ present' = present /\ fib' = fib /\ lastkey' = lastkey /\ stable' = stable
      /\ cut' = cut /\ abandoned' = abandoned /\ started' = started
  BY DEF PassEntry, srv, ghosts
<1>5. PICK h : h = [[DH[i] EXCEPT !.entries = Tail(DH[i].entries)] EXCEPT !.cookie = e]
  OBVIOUS
<1>6. /\ h \in Handles /\ h.addr = DH[i].addr /\ h.name = DH[i].name /\ h.cookie = e
      /\ h.entries = Tail(DH[i].entries) /\ h.eof = DH[i].eof
  <2>1. e \in 0 .. NumSlots
    BY <1>3 DEF Slots
  <2>. QED  BY <1>3, <1>5, <2>1 DEF Handles
<1>7. cut \in [Progs -> BOOLEAN] /\ DH[i].name = NoName
  BY <1>0, <1>3, MineFacts DEF Types
<1>. PICK due : due = Due(DH[i])
  OBVIOUS
<1>8. Ordered(h) /\ Complete(h, due)
  <2>1. PICK g : g = DH[i]
    OBVIOUS
  <2>2. /\ g \in Handles /\ Ordered(g) /\ g.entries # <<>> /\ Complete(g, due)
        /\ h.entries = Tail(g.entries) /\ h.cookie = Head(g.entries) /\ h.eof = g.eof
        /\ h.name = g.name /\ g.name = NoName
    BY <1>3, <1>6, <1>7, <2>1, Zenon
  <2>3. due \in SUBSET Slots
    BY DEF Due
  <2>. QED  BY <1>6, <2>2, <2>3, AdvancedSound, Zenon
<1>9. UpTo(got'[p], Want(p), e)
  BY <1>2
<1>10. CASE h.entries = <<>> /\ h.eof
  <2>1. FinishRemove(p, "ended")
    BY <1>1, <1>6, <1>10 DEF PassEntry, Edh
  <2>2. /\ DH' = Without(DH, i) /\ pkt' = NoPacket /\ scan' = [scan EXCEPT ![p] = "ended"]
    BY <1>1, <2>1 DEF FinishRemove, Finish, dir_Remove, Without
  <2>3. \A s \in Want(p) : Given(got'[p], s)
    <3>1. Want(p) \in SUBSET Slots /\ Want(p) \subseteq due \ Skipped
      BY <1>0, <1>3, WantFacts
    <3>2. Pos(h) = e
      BY <1>6, <1>7 DEF Pos
    <3>3. ASSUME NEW s \in Want(p), s > e PROVE FALSE
      <4>1. 1 .. Len(h.entries) = {}
        <5>1. Len(h.entries) = 0
          BY <1>10
        <5>2. 1 .. 0 = {}
          OBVIOUS
        <5>. QED  BY <5>1, <5>2, Zenon
      <4>. QED  BY <1>8, <1>10, <3>1, <3>2, <3>3, <4>1 DEF Complete
    <3>4. e \in 0 .. NumSlots
      BY <1>3 DEF Slots
    <3>5. PICK g : g = got'[p]
      OBVIOUS
    <3>6. PICK want : want = Want(p)
      OBVIOUS
    <3>7. \A s \in want : Given(g, s)
      BY <1>9, <3>1, <3>3, <3>4, <3>5, <3>6, UpToEnd
    <3>. QED  BY <3>5, <3>6, <3>7, Zenon
  <2>4. \A q \in Progs : q # p => got'[q] = got[q] /\ cut'[q] = cut[q]
    BY <1>4
  <2>5. cut' \in [Progs -> BOOLEAN] /\ "ended" \in {"ended", "failed"}
    BY <1>4, <1>7
  <2>. QED  BY <1>0, <1>3, <1>4, <2>2, <2>3, <2>4, <2>5, FinishStep
<1>11. CASE ~(h.entries = <<>> /\ h.eof)
  <2>1. /\ DH' = [DH EXCEPT ![i] = [Removed EXCEPT !.cookie = e]] /\ scan' = scan
        /\ pkt' = [pkt EXCEPT !.room = room,
                      !.step = IF h.entries = <<>> THEN "read" ELSE "take"]
    BY <1>1, <1>2, <1>6, <1>11 DEF PassEntry, Edh
  <2>2. DH' = [DH EXCEPT ![i] = h]
    BY <1>1, <1>5, <2>1 DEF Removed, Edh
  <2>3. /\ stable' \in [Progs -> SUBSET Slots] /\ Due(h)' \subseteq due
        /\ p \in AllProgs => UpTo(got'[p], Want(p), h.cookie)
        /\ p \in NextProgs => UpTo(got'[p], Want(p), fib'[p])
    BY <1>0, <1>4, <1>6, <1>9, <2>1 DEF Types, Due, Serves
  <2>4. /\ DH' \in Seq(Handles) /\ Len(DH') = Len(DH) /\ DH'[i] = h
        /\ \A k \in 1 .. Len(DH) : k # i => DH'[k] = DH[k]
        /\ ListsInv' /\ GotInv'
    BY <1>0, <1>3, <1>4, <1>6, <1>8, <2>1, <2>2, <2>3, GoOnStep
  <2>5. HandleInv'
    <3>1. \A k \in 1 .. Len(DH) : DH'[k].name = DH[k].name /\ DH'[k].addr = DH[k].addr
      BY <1>6, <2>4
    <3>. QED  BY <1>0, <1>4, <2>1, <2>4, <3>1, KeepKeeps
  <2>6. /\ pkt' \in Packets /\ pkt'.prog = p /\ pkt'.edh = i
        /\ pkt'.step = IF h.entries = <<>> THEN "read" ELSE "take"
    BY <1>1, <1>3, <2>1 DEF Packets
  <2>7. Types'
    BY <1>0, <1>4, <2>1, <2>4, <2>6 DEF Types
  <2>8. PacketInv'
    <3>1. Edh' = h
      BY <2>4, <2>6 DEF Edh
    <3>2. Mine(p, h)'
      BY <1>3, <1>4, <1>6 DEF Mine
    <3>3. pkt'.step = "read" => h.entries = <<>> /\ ~h.eof
      BY <1>11, <2>6
    <3>4. pkt'.step = "take" => h.entries # <<>>
      BY <2>6
    <3>. QED  BY <1>3, <1>6, <2>1, <2>4, <2>6, <3>1, <3>2, <3>3, <3>4 DEF PacketInv
  <2>. QED  BY <2>4, <2>5, <2>7, <2>8 DEF Inv
<1>. QED  BY <1>10, <1>11

LEMMA TakeAllStep ==
    ASSUME Inv, NEW p \in Progs, TakeAll(p) \/ PassUnmatched(p)
    PROVE  Inv'
<1>0. Types /\ GotInv /\ p \in AllProgs /\ p \notin NextProgs /\ Taking(p)
  BY DirScanAssumption DEF Inv, TakeAll, PassUnmatched
<1>1. PICK i : i = pkt.edh
  OBVIOUS
<1>2. PICK e : e = Entry
  OBVIOUS
<1>3. /\ pkt \in Packets
      /\ i \in 1 .. Len(DH) /\ scan[p] = "on" /\ Mine(p, DH[i]) /\ DH[i] \in Handles
      /\ e \in Slots /\ e > Pos(DH[i])
      /\ \A s \in Due(DH[i]) \ Skipped : ~(s > Pos(DH[i]) /\ s < e)
      /\ GotOK(p)
  BY <1>0, <1>1, <1>2, TakeFacts
<1>4. PICK c : c = DH[i].cookie
  OBVIOUS
<1>5. Pos(DH[i]) = c /\ c \in 0 .. NumSlots /\ DH[i].addr = lastkey[p]
  BY <1>0, <1>3, <1>4, MineFacts, HandleTypes DEF Pos
<1>6. PICK g : g = got[p]
  OBVIOUS
<1>7. PICK want : want = Want(p)
  OBVIOUS
<1>8. /\ got \in [Progs -> Seq(Slots)] /\ g \in Seq(Slots) /\ Ascends(g)
      /\ UpTo(g, want, c)
  BY <1>0, <1>3, <1>4, <1>5, <1>6, <1>7 DEF GotOK, Types
<1>9. /\ want \in SUBSET Slots /\ want \subseteq Due(DH[i]) \ Skipped /\ want \subseteq Matching
  <2>1. want \in SUBSET Slots /\ want \subseteq Due(DH[i]) \ Skipped
    BY <1>0, <1>3, <1>7, WantFacts
  <2>2. want \subseteq Matching
    BY <1>0, <1>7 DEF Want, Wanted
  <2>. QED  BY <2>1, <2>2
<1>10. e > c /\ \A s \in want : ~(s > c /\ s < e)
  BY <1>3, <1>5, <1>9
<1>11. pkt.room \in 0 .. Room /\ Room \in Nat
  BY <1>3, DirScanAssumption DEF Packets
<1>12. CASE TakeAll(p)
  <2>1. /\ got' = [got EXCEPT ![p] = Append(g, e)]
        /\ PassEntry(p, pkt.room - 1) /\ pkt.room - 1 \in 0 .. Room
    BY <1>2, <1>6, <1>11, <1>12 DEF TakeAll
  <2>2. /\ got' \in [Progs -> Seq(Slots)] /\ got'[p] = Append(g, e)
        /\ \A q \in Progs : q # p => got'[q] = got[q]
    BY <1>3, <1>8, <2>1
  <2>3. Ascends(Append(g, e)) /\ UpTo(Append(g, e), want, e)
    BY <1>3, <1>5, <1>8, <1>9, <1>10, UpToAppend, Zenon
  <2>4. Ascends(got'[p]) /\ UpTo(got'[p], Want(p), Entry)
    BY <1>2, <1>7, <2>2, <2>3
  <2>. QED  BY <1>0, <2>1, <2>2, <2>4, PassStep
<1>13. CASE PassUnmatched(p)
  <2>1. /\ got' = got /\ e \notin Matching /\ PassEntry(p, pkt.room)
    BY <1>2, <1>13 DEF PassUnmatched
  <2>2. e \in 0 .. NumSlots /\ c <= e
    BY <1>3, <1>5, <1>10 DEF Slots
  <2>3. \A s \in want : ~(s > c /\ s <= e)
    BY <1>3, <1>9, <1>10, <2>1 DEF Slots
  <2>4. UpTo(g, want, e)
    BY <1>5, <1>8, <1>9, <2>2, <2>3, UpToPass, Zenon
  <2>5. /\ got' \in [Progs -> Seq(Slots)] /\ \A q \in Progs : q # p => got'[q] = got[q]
        /\ Ascends(got'[p]) /\ UpTo(got'[p], Want(p), Entry)
    BY <1>2, <1>6, <1>7, <1>8, <2>1, <2>4
  <2>. QED  BY <1>0, <1>11, <2>1, <2>5, PassStep
<1>. QED  BY <1>12, <1>13

\* The packet ends and nothing else changes.
LEMMA QuietStep ==
    ASSUME Inv, pkt' = NoPacket \/ pkt' = pkt,
           UNCHANGED <<present, DH, scan, fib, lastkey, got, stable, cut, abandoned, started>>
    PROVE  Inv'
<1>1. /\ present' = present /\ DH' = DH /\ scan' = scan /\ fib' = fib /\ lastkey' = lastkey
      /\ got' = got /\ stable' = stable /\ cut' = cut
      /\ abandoned' = abandoned /\ started' = started
  OBVIOUS
<1>2. Types'
  BY <1>1 DEF Inv, Types
<1>3. PacketInv'
  BY <1>1 DEF Inv, PacketInv, Edh, Mine
<1>4. HandleInv'
  BY <1>1 DEF Inv, HandleInv, AddrInv, OnHandles, KnownAddr, CountInv, OnEntry, Owners, On, Named
<1>5. ListsInv'
  BY <1>1 DEF Inv, ListsInv, Due, Serves
<1>6. GotInv'
  BY <1>1 DEF Inv, GotInv, GotOK, Want
<1>. QED  BY <1>2, <1>3, <1>4, <1>5, <1>6 DEF Inv

LEMMA TakeAllFailsStep ==
    ASSUME Inv, NEW p \in Progs, TakeAllFails(p)
    PROVE  Inv'
<1>1. PICK i : i = pkt.edh
  OBVIOUS
<1>2. i \in 1 .. Len(DH) /\ scan[p] = "on" /\ Mine(p, DH[i]) /\ GotOK(p)
  BY <1>1, TakeFacts DEF TakeAllFails
<1>3. /\ present' = present /\ fib' = fib /\ lastkey' = lastkey /\ got' = got
      /\ stable' = stable /\ cut' = cut
      /\ abandoned' = abandoned /\ started' = started
  BY DEF TakeAllFails, srv, ghosts
<1>4. /\ DH' = Without(DH, i) /\ pkt' = NoPacket /\ scan' = [scan EXCEPT ![p] = "failed"]
  BY <1>1 DEF TakeAllFails, FinishRemove, Finish, dir_Remove, Without
<1>5. Ascends(got[p]) /\ got \in [Progs -> Seq(Slots)] /\ cut \in [Progs -> BOOLEAN]
  BY <1>2 DEF GotOK, Inv, Types
<1>. QED  BY <1>2, <1>3, <1>4, <1>5, FinishStep

LEMMA StartStep ==
    ASSUME Inv, NEW p \in Progs, Start(p)
    PROVE  Inv'
<1>0. Types /\ PacketInv /\ HandleInv /\ ListsInv /\ GotInv
  BY DEF Inv
<1>1. /\ present' = present /\ DH' = DH /\ pkt' = pkt /\ pkt = NoPacket
      /\ scan' = [scan EXCEPT ![p] = "on"] /\ got' = [got EXCEPT ![p] = <<>>]
      /\ stable' = [stable EXCEPT ![p] = Known(p)] /\ cut' = [cut EXCEPT ![p] = FALSE]
      /\ fib' = IF p \in NextProgs THEN [fib EXCEPT ![p] = Root] ELSE fib
      /\ lastkey' = IF p \in AllProgs THEN [lastkey EXCEPT ![p] = NoAddr] ELSE lastkey
  BY DEF Start, srv
<1>2. /\ started' = started + 1 /\ started < MaxScans
      /\ abandoned' = abandoned + (IF scan[p] = "on" THEN 1 ELSE 0)
  BY DEF Start
<1>3. /\ scan' \in [Progs -> {"none", "on", "ended", "failed"}]
      /\ \A q \in Progs : q # p => scan'[q] = scan[q]
  BY <1>0, <1>1 DEF Types
<1>4. /\ got' \in [Progs -> Seq(Slots)] /\ got'[p] = <<>>
      /\ \A q \in Progs : q # p => got'[q] = got[q]
  BY <1>0, <1>1 DEF Types
<1>5. /\ stable' \in [Progs -> SUBSET Slots] /\ stable'[p] = Known(p)
      /\ Known(p) \subseteq present
      /\ \A q \in Progs : q # p => stable'[q] = stable[q]
  <2>1. Known(p) \subseteq present
    BY DEF Known
  <2>. QED  BY <1>0, <1>1, <2>1 DEF Types
<1>6. /\ cut' \in [Progs -> BOOLEAN] /\ \A q \in Progs : q # p => cut'[q] = cut[q]
  BY <1>0, <1>1 DEF Types
<1>7. /\ fib' \in [NextProgs -> 0 .. NumSlots] /\ (p \in NextProgs => fib'[p] = 0)
      /\ \A q \in NextProgs : q # p => fib'[q] = fib[q]
  BY <1>0, <1>1, DirScanAssumption DEF Types, Root
<1>8. /\ lastkey' \in [AllProgs -> Addrs \cup {NoAddr}] /\ (p \in AllProgs => lastkey'[p] = 0)
      /\ \A q \in AllProgs : q # p => lastkey'[q] = lastkey[q]
  BY <1>0, <1>1 DEF Types, NoAddr
<1>9. abandoned' \in Nat /\ started' \in 0 .. MaxScans
  BY <1>0, <1>2, DirScanAssumption DEF Types
<1>10. Types'
  <2>1. present' \in SUBSET Slots /\ DH' \in Seq(Handles) /\ pkt' = NoPacket
    BY <1>0, <1>1 DEF Types
  <2>. QED  BY <1>3, <1>4, <1>5, <1>6, <1>7, <1>8, <1>9, <2>1 DEF Types
<1>11. PacketInv'
  BY <1>1 DEF PacketInv
<1>12. HandleInv'
  BY <1>0, StartKeeps
<1>13. ListsInv'
  <2>. SUFFICES ASSUME NEW k \in 1 .. Len(DH)
                PROVE  Ordered(DH[k]) /\ Complete(DH[k], Due(DH[k])')
    BY <1>1 DEF ListsInv
  <2>1. PICK h : h = DH[k]
    OBVIOUS
  <2>2. Ordered(h) /\ Complete(h, Due(h)) /\ h \in Handles
    BY <1>0, <2>1 DEF ListsInv, Types
  <2>3. ASSUME NEW s \in Due(h)' \ Skipped, s > Pos(h)
        PROVE  \/ \E j \in 1 .. Len(h.entries) : h.entries[j] = s
               \/ ~h.eof /\ s > h.cookie /\ \A j \in 1 .. Len(h.entries) : h.entries[j] < s
    <3>1. PICK q \in Progs : Serves(h, q)' /\ s \in stable'[q]
      BY <2>3 DEF Due
    <3>2. CASE q = p
      <4>1. h.addr # 0
        BY <2>2, HandleTypes, DirScanAssumption DEF Addrs
      <4>2. p \in NextProgs /\ h.name # NoName
        BY <1>8, <3>1, <3>2, <4>1 DEF Serves
      <4>3. Covers(h, s)
        BY <1>5, <2>1, <3>1, <3>2, <4>2 DEF Known
      <4>4. h.name \in Int /\ s \in Int
        BY <2>2, <2>3, HandleTypes, DirScanAssumption DEF Due, Slots, NoName
      <4>. QED  BY <2>3, <4>2, <4>3, <4>4 DEF Covers, Pos
    <3>3. CASE q # p
      <4>1. Serves(h, q) /\ s \in stable[q]
        BY <1>3, <1>5, <1>8, <3>1, <3>3 DEF Serves
      <4>2. s \in Due(h)
        BY <2>3, <4>1 DEF Due
      <4>. QED  BY <2>2, <2>3, <4>2 DEF Complete
    <3>. QED  BY <3>2, <3>3
  <2>4. Complete(h, Due(h)')
    BY <2>3 DEF Complete
  <2>5. Due(DH[k])' = Due(h)'
    BY <1>1, <2>1 DEF Due, Serves
  <2>. QED  BY <2>1, <2>2, <2>4, <2>5
<1>14. ASSUME NEW q \in Progs PROVE GotOK(q)'
  <2>1. CASE q = p
    <3>1. Ascends(<<>>)
      BY DEF Ascends
    <3>2. ASSUME NEW want \in SUBSET Slots, NEW place \in 0 .. NumSlots, place = 0
          PROVE  UpTo(<<>>, want, place)
      <4>1. \A s \in want : ~(s <= place)
        BY <3>2 DEF Slots
      <4>. QED  BY <4>1 DEF UpTo
    <3>3. Want(p)' \in SUBSET Slots /\ 0 \in 0 .. NumSlots
      BY <1>0, <1>5, DirScanAssumption DEF Want, Types
    <3>4. p \in NextProgs => UpTo(got'[p], Want(p)', fib'[p])
      <4>1. PICK want : want = Want(p)'
        OBVIOUS
      <4>2. ASSUME p \in NextProgs
            PROVE  got'[p] = <<>> /\ fib'[p] = 0
        BY <1>1, <1>4, <1>7, <4>2
      <4>3. UpTo(<<>>, want, 0)
        BY <3>2, <3>3, <4>1, Zenon
      <4>. QED  BY <4>1, <4>2, <4>3, Zenon
    <3>5. p \in AllProgs => \A k \in 1 .. Len(DH') : DH'[k].addr # lastkey'[p]
      <4>1. \A k \in 1 .. Len(DH) : DH[k] \in Handles
        BY <1>0 DEF Types
      <4>2. \A k \in 1 .. Len(DH) : DH[k].addr # 0
        BY <4>1, HandleTypes, DirScanAssumption DEF Addrs
      <4>3. DH' = DH
        BY <1>1
      <4>. QED  BY <1>8, <4>2, <4>3, Zenon
    <3>6. scan'[p] = "on" /\ Ascends(got'[p]) /\ got'[p] = <<>> /\ stable'[p] \subseteq present'
      BY <1>0, <1>1, <1>4, <1>5, <3>1 DEF Types
    <3>. QED  BY <2>1, <3>4, <3>5, <3>6 DEF GotOK
  <2>2. CASE q # p
    <3>1. GotOK(q)
      BY <1>0 DEF GotInv
    <3>2. /\ scan'[q] = scan[q] /\ got'[q] = got[q] /\ stable'[q] = stable[q] /\ cut'[q] = cut[q]
          /\ present' = present /\ DH' = DH
      BY <1>1, <1>3, <1>4, <1>5, <1>6, <2>2
    <3>3. /\ q \in NextProgs => fib'[q] = fib[q]
          /\ q \in AllProgs => lastkey'[q] = lastkey[q]
      BY <1>7, <1>8, <2>2
    <3>. QED  BY <3>1, <3>2, <3>3 DEF GotOK, Want
  <2>. QED  BY <2>1, <2>2
<1>. QED  BY <1>10, <1>11, <1>12, <1>13, <1>14 DEF Inv, GotInv

\* What others create or remove: no scan has to return more than before.
LEMMA ServerStep ==
    ASSUME Inv, NEW e \in Slots, ServerCreate(e) \/ ServerRemove(e)
    PROVE  Inv'
<1>0. Types /\ PacketInv /\ HandleInv /\ ListsInv /\ GotInv
  BY DEF Inv
<1>1. /\ DH' = DH /\ pkt' = pkt /\ scan' = scan /\ got' = got /\ cut' = cut
      /\ fib' = fib /\ lastkey' = lastkey /\ abandoned' = abandoned /\ started' = started
  BY DEF ServerCreate, ServerRemove, Change
<1>2. present' \in SUBSET Slots
  BY <1>0 DEF ServerCreate, ServerRemove, Types
<1>3. /\ stable' \in [Progs -> SUBSET Slots]
      /\ \A q \in Progs : stable'[q] \subseteq stable[q] /\ stable'[q] \subseteq present'
  <2>0. \A q \in Progs : stable[q] \subseteq present
    BY <1>0 DEF GotInv, GotOK
  <2>1. CASE ServerCreate(e)
    <3>1. stable' = stable /\ present' = present \cup {e}
      BY <2>1 DEF ServerCreate
    <3>. QED  BY <1>0, <2>0, <3>1 DEF Types
  <2>2. CASE ServerRemove(e)
    <3>1. present' = present \ {e} /\ stable' = [p \in Progs |-> stable[p] \ {e}]
      BY <2>2 DEF ServerRemove
    <3>. QED  BY <1>0, <2>0, <3>1 DEF Types
  <2>. QED  BY <2>1, <2>2
<1>4. Types'
  BY <1>0, <1>1, <1>2, <1>3 DEF Types
<1>5. PacketInv'
  BY <1>0, <1>1 DEF PacketInv, Edh, Mine
<1>6. HandleInv'
  BY <1>0, <1>1
     DEF HandleInv, AddrInv, OnHandles, KnownAddr, CountInv, OnEntry, Owners, On, Named
<1>7. ListsInv'
  <2>1. ASSUME NEW k \in 1 .. Len(DH)
        PROVE  Ordered(DH[k]) /\ Complete(DH[k], Due(DH[k])')
    <3>1. Ordered(DH[k]) /\ Complete(DH[k], Due(DH[k]))
      BY <1>0 DEF ListsInv
    <3>2. Due(DH[k])' \subseteq Due(DH[k])
      BY <1>1, <1>3 DEF Due, Serves
    <3>. QED  BY <3>1, <3>2, CompleteStays
  <2>. QED  BY <1>1, <2>1 DEF ListsInv
<1>8. ASSUME NEW q \in Progs PROVE GotOK(q)'
  <2>1. GotOK(q)
    BY <1>0 DEF GotInv
  <2>2. PICK want : want = Want(q)
    OBVIOUS
  <2>3. PICK want2 : want2 = Want(q)'
    OBVIOUS
  <2>4. want2 \in SUBSET want /\ stable'[q] \subseteq present'
    BY <1>1, <1>3, <2>1, <2>2, <2>3 DEF Want, GotOK
  <2>5. \A place : UpTo(got[q], want, place) => UpTo(got[q], want2, place)
    BY <2>4, UpToStays
  <2>6. scan[q] = "on" /\ q \in NextProgs => UpTo(got[q], want2, fib[q])
    BY <2>1, <2>2, <2>5 DEF GotOK
  <2>7. scan[q] = "on" /\ q \in AllProgs =>
          /\ lastkey[q] = NoAddr => got[q] = <<>>
          /\ \A i \in 1 .. Len(DH) :
                DH[i].addr = lastkey[q] => UpTo(got[q], want2, DH[i].cookie)
    BY <2>1, <2>2, <2>5 DEF GotOK
  <2>8. scan[q] = "ended" /\ ~cut[q] => \A s \in want2 : Given(got[q], s)
    BY <2>1, <2>2, <2>4 DEF GotOK
  <2>9. Ascends(got[q])
    BY <2>1 DEF GotOK
  <2>. QED  BY <1>1, <2>3, <2>4, <2>6, <2>7, <2>8, <2>9 DEF GotOK
<1>. QED  BY <1>4, <1>5, <1>6, <1>7, <1>8 DEF Inv, GotInv

LEMMA InitInv == Init => Inv
<1>. SUFFICES ASSUME Init PROVE Inv
  OBVIOUS
<1>1. /\ present = Slots \ Spare /\ DH = <<>> /\ pkt = NoPacket /\ scan = [p \in Progs |-> "none"]
      /\ fib = [p \in NextProgs |-> 0] /\ lastkey = [p \in AllProgs |-> NoAddr]
      /\ got = [p \in Progs |-> <<>>] /\ stable = [p \in Progs |-> {}]
      /\ cut = [p \in Progs |-> FALSE] /\ abandoned = 0 /\ started = 0
  BY DEF Init, Root
<1>2. Types
  BY <1>1, DirScanAssumption DEF Types
<1>3. PacketInv
  BY <1>1 DEF PacketInv
<1>4. Len(DH) = 0 /\ 1 .. Len(DH) = {}
  <2>1. Len(DH) = 0
    BY <1>1
  <2>2. 1 .. 0 = {}
    OBVIOUS
  <2>. QED  BY <2>1, <2>2, Zenon
<1>5. /\ On = {} /\ Owners = {} /\ \A s : OnEntry(s) = {}
  BY <1>1 DEF On, Owners, OnEntry, Progs
<1>6. \A S : Named(DH, S) = {}
  BY <1>4, Zenon DEF Named
<1>7. Cardinality({}) = 0
  BY FS_EmptySet
<1>8. AddrInv /\ ListsInv
  BY <1>4, Zenon DEF AddrInv, ListsInv
<1>9. OnHandles
  <2>1. ASSUME NEW s \in Slots
        PROVE  Cardinality(OnEntry(s)) = 0 /\ Cardinality(Named(DH, {s})) = 0
    BY <1>5, <1>6, <1>7, Zenon
  <2>. QED  BY <2>1 DEF OnHandles
<1>10. KnownAddr
  BY <1>1 DEF KnownAddr, Progs
<1>11. CountInv
  <2>1. /\ Cardinality(Named(DH, Placed)) = 0 /\ Cardinality(Owners) = 0
        /\ Cardinality(On) = 0 /\ Named(DH, {Root}) = {}
    BY <1>5, <1>6, <1>7, Zenon
  <2>2. /\ Cardinality(Named(DH, Placed)) <= abandoned + Cardinality(Owners)
        /\ abandoned + Cardinality(On) <= started
    BY <1>1, <2>1
  <2>. QED  BY <2>1, <2>2, Zenon DEF CountInv
<1>12. ASSUME NEW p \in Progs PROVE GotOK(p)
  BY <1>1, <1>4 DEF GotOK, Ascends, Want
<1>. QED  BY <1>2, <1>3, <1>8, <1>9, <1>10, <1>11, <1>12 DEF Inv, HandleInv, GotInv

LEMMA InductiveStep ==
    ASSUME Inv, [Next]_vars
    PROVE  Inv'
<1>1. ASSUME NEW p \in Progs, Start(p) PROVE Inv'
  BY <1>1, StartStep
<1>2. ASSUME NEW p \in Progs, Step(p) PROVE Inv'
  <2>1. CASE act_EXAMINE_NEXT(p)
    BY <2>1, ExamineNextStep
  <2>2. CASE act_EXAMINE_ALL(p)
    BY <2>2, ExamineAllStep
  <2>3. CASE ReadDir(p)
    BY <2>3, ReadDirStep
  <2>4. CASE ReadDirFails(p) \/ DupEntriesFails(p)
    BY <2>4, ReadDirFailsStep
  <2>5. CASE TakeNext(p)
    BY <2>5, TakeNextStep
  <2>6. CASE TakeNextFails(p)
    BY <2>6, TakeNextFailsStep
  <2>7. CASE TakeAll(p) \/ PassUnmatched(p)
    BY <2>7, TakeAllStep
  <2>8. CASE TakeAllFull(p)
    BY <2>8, QuietStep DEF TakeAllFull, srv, ghosts
  <2>9. CASE TakeAllFails(p)
    BY <2>9, TakeAllFailsStep
  <2>. QED  BY <1>2, <2>1, <2>2, <2>3, <2>4, <2>5, <2>6, <2>7, <2>8, <2>9 DEF Step
<1>3. ASSUME NEW s \in Slots, ServerCreate(s) \/ ServerRemove(s) PROVE Inv'
  BY <1>3, ServerStep
<1>4. CASE UNCHANGED vars
  BY <1>4, QuietStep DEF vars, srv, ghosts
<1>. QED  BY <1>1, <1>2, <1>3, <1>4 DEF Next

LEMMA Invariance == Spec => []Inv
<1>1. Init => Inv
  BY InitInv
<1>2. Inv /\ [Next]_vars => Inv'
  BY InductiveStep
<1>. QED  BY <1>1, <1>2, PTL DEF Spec

----------------------------------------------------------------------------
(* What the invariant says.                                                *)

\* Every handle has an owner, was given up, or is the one on the directory.
LEMMA HandlesCounted ==
    ASSUME Types, HandleInv
    PROVE  HandlesAccounted
<1>. DEFINE A == Named(DH, Placed)
            B == Named(DH, {Root})
<1>1. /\ IsFiniteSet(A) /\ Cardinality(A) \in Nat
      /\ IsFiniteSet(B) /\ Cardinality(B) \in Nat
  BY NamedFinite DEF Types
<1>2. Len(DH) = Cardinality(A) + Cardinality(B)
  BY LenByNames
<1>3. Cardinality(A) <= abandoned + Cardinality(Owners) /\ abandoned \in Nat
  BY DEF HandleInv, CountInv, Types
<1>4. /\ Cardinality(On) \in Nat /\ Cardinality(Owners) \in Nat
      /\ IsFiniteSet(On) /\ IsFiniteSet(Owners) /\ Owners \in SUBSET On
  BY ProgSets DEF On, Owners
<1>5. Cardinality(Owners) + Cardinality(B) <= Cardinality(On)
  <2>1. CASE B = {}
    <3>1. Cardinality(B) = 0
      BY <2>1, FS_EmptySet
    <3>2. Cardinality(Owners) <= Cardinality(On)
      BY <1>4, FS_Subset
    <3>. HIDE DEF B
    <3>. QED  BY <1>4, <3>1, <3>2
  <2>2. CASE B # {}
    <3>1. PICK b \in B : TRUE
      BY <2>2
    <3>2. B = {b}
      BY <3>1 DEF HandleInv, CountInv
    <3>3. Cardinality(B) = 1
      BY <3>2, FS_Singleton
    <3>4. PICK q : q \in OnEntry(Root)
      BY <2>2 DEF HandleInv, CountInv
    <3>5. q \in On \ Owners
      BY <3>4, DirScanAssumption DEF OnEntry, On, Owners, Progs
    <3>6. Cardinality(Owners \cup {q}) = Cardinality(Owners) + 1
      BY <1>4, <3>5, FS_AddElement
    <3>7. Owners \cup {q} \in SUBSET On
      BY <1>4, <3>5
    <3>8. Cardinality(Owners \cup {q}) <= Cardinality(On)
      BY <1>4, <3>7, FS_Subset
    <3>. HIDE DEF B
    <3>. QED  BY <1>4, <3>3, <3>6, <3>8
  <2>. QED  BY <2>1, <2>2
<1>6. Len(DH) <= abandoned + Cardinality(On)
  <2>. HIDE DEF A, B
  <2>. QED  BY <1>1, <1>2, <1>3, <1>4, <1>5
<1>. QED  BY <1>6 DEF HandlesAccounted, On

LEMMA HandlesFollow ==
    ASSUME Inv
    PROVE  HandlesExact
<1>0. Types /\ PacketInv /\ HandleInv
  BY DEF Inv
<1>1. TypeOK
  <2>1. ASSUME NEW i \in 1 .. Len(DH)
        PROVE  /\ DH[i].addr \in Addrs /\ DH[i].name \in 0 .. NoName
               /\ DH[i].cookie \in 0 .. NumSlots /\ DH[i].eof \in BOOLEAN
               /\ \A k \in 1 .. Len(DH[i].entries) : DH[i].entries[k] \in Slots
    <3>1. DH[i] \in Handles
      BY <1>0 DEF Types
    <3>. QED  BY <3>1, HandleTypes
  <2>2. CASE pkt = NoPacket
    <3>1. pkt.step = "none" /\ pkt.room = 0 /\ 0 \in 0 .. Room
      BY <2>2, DirScanAssumption DEF NoPacket
    <3>. QED  BY <1>0, <2>1, <3>1 DEF TypeOK, Types
  <2>3. CASE pkt # NoPacket
    <3>1. pkt.step \in {"read", "take"} /\ pkt.room \in 0 .. Room
      BY <1>0, <2>3 DEF Types, Packets
    <3>2. pkt.edh \in 1 .. Len(DH) /\ (pkt.step = "take" => Edh.entries # <<>>)
      BY <1>0, <2>3 DEF PacketInv
    <3>. QED  BY <1>0, <2>1, <3>1, <3>2 DEF TypeOK, Types
  <2>. QED  BY <2>2, <2>3
<1>2. EachScanHasHandle
  <2>1. ASSUME NEW s \in Slots
        PROVE  Cardinality({p \in NextProgs : scan[p] = "on" /\ fib[p] = s})
                   <= Cardinality({i \in 1 .. Len(DH) : DH[i].name = s})
    <3>1. Named(DH, {s}) = {i \in 1 .. Len(DH) : DH[i].name = s}
      BY DEF Named
    <3>2. OnEntry(s) = {p \in NextProgs : scan[p] = "on" /\ fib[p] = s}
      BY DEF OnEntry
    <3>3. Cardinality(OnEntry(s)) <= Cardinality(Named(DH, {s}))
      BY <1>0 DEF HandleInv, OnHandles
    <3>. QED  BY <3>1, <3>2, <3>3
  <2>. QED  BY <1>0, <2>1 DEF EachScanHasHandle, HandleInv, KnownAddr
<1>3. HandlesAccounted
  BY <1>0, HandlesCounted
<1>. QED  BY <1>1, <1>2, <1>3 DEF HandlesExact

LEMMA ScansFollow ==
    ASSUME Inv
    PROVE  ScanExact
<1>1. ASSUME NEW p \in Progs
      PROVE  /\ \A i, j \in 1 .. Len(got[p]) : i # j => got[p][i] # got[p][j]
             /\ scan[p] = "ended" /\ ~cut[p] =>
                   \A s \in (stable[p] \ Skipped) \cap Wanted(p) :
                       \E i \in 1 .. Len(got[p]) : got[p][i] = s
  <2>1. GotOK(p) /\ got[p] \in Seq(Slots)
    BY DEF Inv, GotInv, Types
  <2>2. ASSUME NEW i \in 1 .. Len(got[p]), NEW j \in 1 .. Len(got[p]), i # j
        PROVE  got[p][i] # got[p][j]
    <3>1. got[p][i] \in Slots /\ got[p][j] \in Slots
      BY <2>1
    <3>2. got[p][i] \in Int /\ got[p][j] \in Int
      BY <3>1 DEF Slots
    <3>3. i < j \/ j < i
      BY <2>1, <2>2
    <3>4. got[p][i] < got[p][j] \/ got[p][j] < got[p][i]
      BY <2>1, <3>3 DEF GotOK, Ascends
    <3>. QED  BY <3>2, <3>4
  <2>3. scan[p] = "ended" /\ ~cut[p] => \A s \in Want(p) : Given(got[p], s)
    BY <2>1 DEF GotOK
  <2>. QED  BY <2>2, <2>3 DEF Want, Given
<1>. QED  BY <1>1 DEF ScanExact

\* Whatever the programs, the directory and the faults: programs that stand
\* on the same entry never outnumber the handles act_EXAMINE_NEXT can find
\* for it, the address in eac_LastKey is that of a handle nobody else uses,
\* and the ends and the errors of act_EXAMINE_NEXT and act_EXAMINE_ALL free
\* every handle that a program did not leave behind.
THEOREM HandlesStayExact == Spec => []HandlesExact
<1>1. Inv => HandlesExact
  BY HandlesFollow
<1>. QED  BY <1>1, Invariance, PTL

\* Whatever the programs, the directory, the faults, and the files that
\* others create and remove meanwhile: no scan returns an entry twice, though
\* act_EXAMINE_NEXT passes handles from one program to another, and a scan
\* that was told the end has returned every ordinary file that was there all
\* the time, but for one missing in a list that was read before the scan and
\* was still kept, and one whose lookup failed.
THEOREM ScansStayExact == Spec => []ScanExact
<1>1. Inv => ScanExact
  BY ScansFollow
<1>. QED  BY <1>1, Invariance, PTL
=============================================================================
