--------------------------- MODULE HandlerProofs ----------------------------
(***************************************************************************)
(* Proofs about Handler for every set of programs, credentials and packets *)
(***************************************************************************)
EXTENDS Handler, SequenceTheorems, FiniteSetTheorems, WellFoundedInduction, TLAPS

\* The places of the steps of the startup the proofs refer to.
LEMMA StepNames ==
    /\ Len(Startup) = 19 /\ DOMAIN Startup = 1 .. 19
    /\ \A k \in 1 .. 19 : /\ Startup[k] = "strings" <=> k = 1
                          /\ Startup[k] = "port" <=> k = 4
                          /\ Startup[k] = "timer" <=> k = 7
                          /\ Startup[k] = "rexx" <=> k = 8
                          /\ Startup[k] = "wbufs" <=> k = 10
                          /\ Startup[k] = "inlist" <=> k = 19
<1>1. Len(Startup) = 19 /\ DOMAIN Startup = 1 .. 19
  BY DEF Startup
<1>2. ASSUME NEW k \in 1 .. 19
      PROVE  /\ Startup[k] = "strings" <=> k = 1
             /\ Startup[k] = "port" <=> k = 4
             /\ Startup[k] = "timer" <=> k = 7
             /\ Startup[k] = "rexx" <=> k = 8
             /\ Startup[k] = "wbufs" <=> k = 10
             /\ Startup[k] = "inlist" <=> k = 19
  BY DEF Startup
<1>. QED
  BY <1>1, <1>2

-----------------------------------------------------------------------------
(***************************************************************************)
(* Credentials.                                                            *)
(***************************************************************************)

\* g_Creds is a record with these fields.
Fields(c) ==
    /\ DOMAIN c = {"user", "fixed", "umask", "uid", "auth", "cache", "cacheU"}
    /\ c = [x \in DOMAIN c |-> c[x]]

LEMMA SetUserFacts ==
    ASSUME NEW c, Fields(c), NEW u
    PROVE  LET d == cr_SetUser(c, u)
           IN  /\ Fields(d) /\ d.user = u /\ d.uid = u /\ d.cache = None
               /\ d.fixed = c.fixed /\ d.umask = c.umask /\ d.auth = c.auth
               /\ d.cacheU = c.cacheU
BY DEF Fields, cr_SetUser

LEMMA SetUMaskFacts ==
    ASSUME NEW c, Fields(c)
    PROVE  LET d == cr_SetUMask(c)
           IN  /\ Fields(d) /\ d.user = c.user /\ d.uid = c.uid /\ d.cache = c.cache
               /\ d.fixed = TRUE /\ d.umask = "set" /\ d.auth = c.auth
               /\ d.cacheU = None
BY DEF Fields, cr_SetUMask

LEMMA SetAuthFacts ==
    ASSUME NEW c, Fields(c), NEW client
    PROVE  LET d == cr_SetAuth(c, client)
           IN  /\ Fields(d) /\ d.user = c.user
               /\ d.auth = IF c.user # None THEN c.user ELSE creds[client].uid
               /\ d.uid = d.auth
               /\ d.cache = IF c.user # None THEN None ELSE client
               /\ d.fixed = c.fixed /\ d.umask = c.umask /\ d.cacheU = c.cacheU
<1>1. CASE c.user # None
  BY <1>1 DEF Fields, cr_SetAuth
<1>2. CASE c.user = None
  BY <1>2 DEF Fields, cr_SetAuth
<1>. QED
  BY <1>1, <1>2

LEMMA UpdateCredsFacts ==
    ASSUME NEW c, Fields(c), NEW client
    PROVE  LET d == cr_UpdateCreds(c, client)
           IN  /\ Fields(d) /\ d.user = c.user /\ d.uid = c.uid /\ d.cache = c.cache
               /\ d.fixed = c.fixed /\ d.auth = c.auth
               /\ c.fixed => d = c
               /\ ~c.fixed /\ client = c.cacheU => d = c
               /\ ~c.fixed /\ client # c.cacheU =>
                    /\ d.umask = IF creds[client] = None THEN DefaultUMask
                                 ELSE creds[client].umask
                    /\ d.cacheU \in {None, client}
<1>1. CASE c.fixed \/ client = c.cacheU
  BY <1>1 DEF cr_UpdateCreds
<1>2. CASE ~c.fixed /\ client # c.cacheU /\ creds[client] = None
  BY <1>2 DEF Fields, cr_UpdateCreds
<1>3. CASE ~c.fixed /\ client # c.cacheU /\ creds[client] # None
  BY <1>3 DEF Fields, cr_UpdateCreds
<1>. QED
  BY <1>1, <1>2, <1>3

LEMMA AfterCheckFacts ==
    ASSUME NEW c, Fields(c), NEW client
    PROVE  LET d == AfterCheck(c, client)
           IN  /\ Fields(d) /\ d.user = c.user /\ d.uid = c.uid /\ d.auth = c.auth
               /\ d.fixed = c.fixed /\ d.umask = c.umask
               /\ d.cache \in {c.cache, None} /\ d.cacheU \in {c.cacheU, None}
<1>1. CASE AfterCheck(c, client) = c
  BY <1>1
<1>2. CASE AfterCheck(c, client) = cr_InvalidateCache(c)
  BY <1>2 DEF Fields, cr_InvalidateCache
<1>. QED
  BY <1>1, <1>2 DEF AfterCheck

-----------------------------------------------------------------------------
(***************************************************************************)
(* The action table and its index, for any table act_Init accepts.         *)
(***************************************************************************)

LEMMA LeastNumber ==
    ASSUME NEW S, S \subseteq Nat, S # {}
    PROVE  \E x \in S : \A y \in S : x <= y
<1>1. PICK x \in S : \A y \in S : ~(<<y, x>> \in OpToRel(<, Nat))
  BY NatLessThanWellFounded, WFMin, Zenon
<1>2. \A y \in S : ~(y < x)
  BY <1>1 DEF OpToRel
<1>. QED
  BY <1>2

\* What the table is: numbers with functions.
LEMMA TableType ==
    /\ Len(ActionTable) \in Nat /\ Len(ActionTable) > 0
    /\ DOMAIN ActionTable = 1 .. Len(ActionTable)
    /\ \A i \in 1 .. Len(ActionTable) : ActionTable[i][1] \in Nat
    /\ EndMark = ActionTable[Len(ActionTable)][1] + 1
<1>1. /\ Len(ActionTable) \in Nat /\ Len(ActionTable) > 0
      /\ DOMAIN ActionTable = 1 .. Len(ActionTable)
  BY DEF ActionTable
<1>2. \A i \in 1 .. Len(ActionTable) : ActionTable[i][1] \in Nat
  <2>1. Len(ActionTable) = 67
    BY DEF ActionTable
  <2>2. \A i \in 1 .. 20 : ActionTable[i][1] \in Nat
    BY DEF ActionTable
  <2>3. \A i \in 21 .. 40 : ActionTable[i][1] \in Nat
    BY DEF ActionTable
  <2>4. \A i \in 41 .. 67 : ActionTable[i][1] \in Nat
    BY DEF ActionTable
  <2>. QED
    BY <2>1, <2>2, <2>3, <2>4
<1>3. EndMark = ActionTable[Len(ActionTable)][1] + 1
  BY DEF EndMark, Last
<1>. QED
  BY <1>1, <1>2, <1>3

LEMMA LastOfRunFacts ==
    ASSUME NEW i \in 1 .. Len(ActionTable)
    PROVE  /\ LastOfRun(i) \in i .. Len(ActionTable)
           /\ \A k \in i + 1 .. LastOfRun(i) : ~FirstOfRun(k)
           /\ LastOfRun(i) = Len(ActionTable) \/ FirstOfRun(LastOfRun(i) + 1)
<1>. DEFINE N == Len(ActionTable)
            S == {j \in i .. N : j = N \/ FirstOfRun(j + 1)}
<1>0. N \in Nat
  BY TableType
<1>. HIDE DEF N
<1>1. S \subseteq Nat /\ N \in S
  BY <1>0 DEF N
<1>2. PICK j \in S : \A k \in S : j <= k
  BY <1>1, LeastNumber
<1>3. ASSUME NEW k \in i + 1 .. j, FirstOfRun(k) PROVE FALSE
  <2>1. k - 1 \in i .. N /\ (k - 1) + 1 = k
    BY <1>0
  <2>2. k - 1 \in S
    BY <2>1, <1>3
  <2>. QED
    BY <2>1, <2>2, <1>0, <1>2
<1>4. \E x \in i .. N : /\ \A k \in i + 1 .. x : ~FirstOfRun(k)
                        /\ x = N \/ FirstOfRun(x + 1)
  BY <1>2, <1>3
<1>. QED
  BY <1>4 DEF LastOfRun, N

\* The numbers of a run are consecutive.
LEMMA RunNumbers ==
    ASSUME NEW i \in 1 .. Len(ActionTable), NEW j \in i .. Len(ActionTable),
           \A k \in i + 1 .. j : ~FirstOfRun(k), NEW k \in i .. j
    PROVE  ActionTable[k][1] = ActionTable[i][1] + (k - i)
<1>. DEFINE N == Len(ActionTable)
            num(x) == ActionTable[x][1]
            S == {x \in i .. j : num(x) # num(i) + (x - i)}
<1>0. N \in Nat /\ \A x \in 1 .. N : num(x) \in Nat
  BY TableType
<1>1. \A x \in i + 1 .. j : num(x) = num(x - 1) + 1
  BY <1>0 DEF FirstOfRun
<1>2. SUFFICES ASSUME S # {} PROVE FALSE
  BY <1>0
<1>. HIDE DEF N
<1>3. S \subseteq Nat
  BY <1>0 DEF N
<1>4. PICK x \in S : \A y \in S : x <= y
  BY <1>2, <1>3, LeastNumber
<1>5. x \in i + 1 .. j
  BY <1>0, <1>4 DEF N
<1>6. x - 1 \in i .. j /\ x - 1 \notin S
  BY <1>0, <1>3, <1>4, <1>5 DEF N
<1>7. num(x - 1) = num(i) + ((x - 1) - i)
  BY <1>6
<1>8. num(i) \in Nat
  BY <1>0 DEF N
<1>. HIDE DEF num
<1>. QED
  BY <1>0, <1>1, <1>4, <1>5, <1>7, <1>8 DEF N

LEMMA TableAscends ==
    ASSUME act_Init, NEW i \in 1 .. Len(ActionTable), NEW j \in i + 1 .. Len(ActionTable)
    PROVE  ActionTable[i][1] < ActionTable[j][1]
<1>. DEFINE N == Len(ActionTable)
            num(x) == ActionTable[x][1]
            S == {x \in i + 1 .. N : ~(num(i) < num(x))}
<1>0. N \in Nat /\ \A x \in 1 .. N : num(x) \in Nat
  BY TableType
<1>1. \A x \in 2 .. N : num(x - 1) < num(x)
  BY DEF act_Init
<1>2. SUFFICES ASSUME S # {} PROVE FALSE
  OBVIOUS
<1>. HIDE DEF N, num
<1>3. i \in 1 .. N
  BY DEF N
<1>4. S \subseteq Nat
  BY <1>0, <1>3
<1>5. PICK x \in S : \A y \in S : x <= y
  BY <1>2, <1>4, LeastNumber
<1>6. x \in i + 1 .. N /\ x \in 2 .. N /\ ~(num(i) < num(x)) /\ num(x - 1) < num(x)
  BY <1>0, <1>1, <1>3, <1>5
<1>7. CASE x = i + 1
  BY <1>0, <1>3, <1>6, <1>7
<1>8. CASE x # i + 1
  <2>1. x - 1 \in i + 1 .. N /\ x - 1 \notin S
    BY <1>0, <1>3, <1>4, <1>5, <1>6, <1>8
  <2>2. num(i) < num(x - 1)
    BY <2>1
  <2>. QED
    BY <2>1, <2>2, <1>0, <1>3, <1>6
<1>. QED
  BY <1>7, <1>8

\* Every entry is in a run.
LEMMA RunOf ==
    ASSUME NEW i \in 1 .. Len(ActionTable)
    PROVE  \E s \in 1 .. i : FirstOfRun(s) /\ \A k \in s + 1 .. i : ~FirstOfRun(k)
<1>. DEFINE D == {d \in 0 .. i - 1 : FirstOfRun(i - d)}
<1>0. i \in Nat /\ i > 0
  BY TableType
<1>1. FirstOfRun(1)
  BY DEF FirstOfRun
<1>2. D \subseteq Nat /\ i - 1 \in D
  BY <1>0, <1>1
<1>3. PICK d \in D : \A e \in D : d <= e
  BY <1>2, LeastNumber
<1>4. ASSUME NEW k \in (i - d) + 1 .. i, FirstOfRun(k) PROVE FALSE
  <2>1. i - k \in 0 .. i - 1 /\ i - (i - k) = k
    BY <1>0, <1>3
  <2>2. i - k \in D
    BY <2>1, <1>4
  <2>. QED
    BY <2>2, <1>0, <1>3
<1>5. i - d \in 1 .. i /\ FirstOfRun(i - d)
  BY <1>0, <1>3
<1>. QED
  BY <1>4, <1>5

LEMMA BlockFacts ==
    ASSUME NEW b \in ATIndex
    PROVE  \E s \in 1 .. Len(ActionTable) :
              /\ FirstOfRun(s) /\ b = NewBlock(s) /\ b.index = s
              /\ b.low = ActionTable[s][1] /\ b.low \in Nat
              /\ b.high = ActionTable[LastOfRun(s)][1]
<1>1. PICK s \in DOMAIN ActionTable : FirstOfRun(s) /\ b = NewBlock(s)
  BY DEF ATIndex
<1>. QED
  BY <1>1, TableType DEF NewBlock

\* The last block act_Lookup passes.
LEMMA LastPassedFacts ==
    ASSUME NEW a \in Nat, Passed(a) # {}
    PROVE  /\ LastPassed(a) \in Passed(a)
           /\ \A c \in Passed(a) : c.low <= LastPassed(a).low
<1>. DEFINE D == {a - b.low : b \in Passed(a)}
<1>1. \A b \in Passed(a) : b.low \in Nat /\ b.low <= a
  BY BlockFacts DEF Passed
<1>2. D \subseteq Nat /\ D # {}
  BY <1>1
<1>3. PICK d \in D : \A e \in D : d <= e
  BY <1>2, LeastNumber
<1>4. PICK b \in Passed(a) : d = a - b.low
  BY <1>3
<1>5. ASSUME NEW c \in Passed(a) PROVE c.low <= b.low
  <2>1. a - c.low \in D
    OBVIOUS
  <2>2. d <= a - c.low
    BY <2>1, <1>3
  <2>. HIDE DEF D
  <2>. QED
    BY <2>2, <1>1, <1>4
<1>. QED
  BY <1>4, <1>5 DEF LastPassed

LEMMA LookupFinds ==
    ASSUME act_Init, NEW i \in 1 .. Len(ActionTable)
    PROVE  act_Lookup(ActionTable[i][1]) = ActionTable[i][2]
<1>. DEFINE N == Len(ActionTable)
            num(x) == ActionTable[x][1]
            a == num(i)
<1>0. /\ N \in Nat /\ i \in 1 .. N /\ N \in 1 .. N
      /\ \A x \in 1 .. N : num(x) \in Nat
      /\ EndMark = num(N) + 1 /\ DOMAIN ActionTable = 1 .. N
  BY TableType
<1>1. \A x, y \in 1 .. N : x < y => num(x) < num(y)
  BY <1>0, TableAscends
<1>2. PICK s \in 1 .. i : FirstOfRun(s) /\ \A k \in s + 1 .. i : ~FirstOfRun(k)
  BY RunOf
<1>3. s \in 1 .. N /\ i \in s .. N
  BY <1>0
<1>4. PICK e : e = LastOfRun(s)
  OBVIOUS
<1>5. e \in s .. N /\ (\A k \in s + 1 .. e : ~FirstOfRun(k)) /\ (e = N \/ FirstOfRun(e + 1))
  BY <1>3, <1>4, LastOfRunFacts
<1>. HIDE DEF N, num
<1>6. i <= e
  <2>1. SUFFICES ASSUME e < i PROVE FALSE
    BY <1>0, <1>5
  <2>2. e + 1 \in s + 1 .. i /\ e # N
    BY <2>1, <1>0, <1>3, <1>5
  <2>. QED
    BY <2>2, <1>2, <1>5
<1>7. num(i) = num(s) + (i - s)
  BY <1>2, <1>3, RunNumbers DEF N, num
<1>8. PICK b : b = NewBlock(s)
  OBVIOUS
<1>9. b.low = num(s) /\ b.high = num(e) /\ b.index = s /\ b \in ATIndex
  BY <1>0, <1>2, <1>3, <1>4, <1>8 DEF NewBlock, ATIndex, num
<1>10. b \in Passed(a) /\ a \in Nat
  BY <1>0, <1>3, <1>7, <1>9 DEF Passed
<1>11. PICK c : c = LastPassed(a)
  OBVIOUS
<1>12. c \in Passed(a) /\ b.low <= c.low
  BY <1>10, <1>11, LastPassedFacts
<1>13. PICK t \in 1 .. N : FirstOfRun(t) /\ c = NewBlock(t) /\ c.low = num(t)
  BY <1>12, BlockFacts DEF Passed, N, num
<1>14. num(t) <= num(i) /\ num(s) <= num(t)
  BY <1>9, <1>12, <1>13 DEF Passed
<1>15. t <= i
  BY <1>0, <1>1, <1>14
<1>16. t <= s
  BY <1>0, <1>2, <1>3, <1>13, <1>15
<1>17. t = s
  BY <1>0, <1>1, <1>3, <1>14, <1>16
<1>18. c = b
  BY <1>8, <1>13, <1>17
<1>19. a < EndMark /\ a <= b.high /\ Passed(a) # {}
  BY <1>0, <1>1, <1>5, <1>6, <1>9, <1>10
<1>20. b.index + (a - b.low) = i
  BY <1>0, <1>3, <1>7, <1>9
<1>21. ~(a >= EndMark) /\ ~(a > b.high)
  BY <1>0, <1>5, <1>9, <1>10, <1>19
<1>22. act_Lookup(a) = ActionTable[b.index + (a - b.low)][2]
  BY <1>11, <1>18, <1>19, <1>21 DEF act_Lookup
<1>. QED
  BY <1>20, <1>22 DEF num

LEMMA LookupMisses ==
    ASSUME NEW a \in Nat, \A i \in 1 .. Len(ActionTable) : ActionTable[i][1] # a
    PROVE  act_Lookup(a) = "none"
<1>1. SUFFICES ASSUME Passed(a) # {}, ~(a > LastPassed(a).high) PROVE FALSE
  BY DEF act_Lookup
<1>2. PICK b : b = LastPassed(a)
  OBVIOUS
<1>3. b \in ATIndex /\ b.low <= a
  BY <1>1, <1>2, LastPassedFacts DEF Passed
<1>4. PICK s \in 1 .. Len(ActionTable) :
         /\ b.low = ActionTable[s][1] /\ b.low \in Nat
         /\ b.high = ActionTable[LastOfRun(s)][1]
  BY <1>3, BlockFacts
<1>5. PICK e : e = LastOfRun(s)
  OBVIOUS
<1>6. e \in s .. Len(ActionTable) /\ \A k \in s + 1 .. e : ~FirstOfRun(k)
  BY <1>5, LastOfRunFacts
<1>7. \A k \in s .. e : ActionTable[k][1] = ActionTable[s][1] + (k - s)
  BY <1>6, RunNumbers
<1>8. Len(ActionTable) \in Nat
  BY TableType
<1>9. b.high = b.low + (e - s)
  BY <1>4, <1>5, <1>6, <1>7, <1>8
<1>10. a <= b.low + (e - s)
  BY <1>1, <1>2, <1>4, <1>6, <1>8, <1>9
<1>11. PICK k : k = s + (a - b.low)
  OBVIOUS
<1>12. k \in s .. e /\ k \in 1 .. Len(ActionTable) /\ b.low + (k - s) = a
  BY <1>3, <1>4, <1>6, <1>8, <1>10, <1>11
<1>. QED
  BY <1>4, <1>7, <1>12

-----------------------------------------------------------------------------
(***************************************************************************)
(* The invariant of the credentials.                                       *)
(***************************************************************************)

\* A packet of a program is served whose function needs the credentials.
Serving == pc \in {"reauth", "exec"} /\ ~KeepsCreds(func) /\ cur \in Programs

CredTypes ==
    /\ creds \in [Tasks -> Credentials]
    /\ masks \in [Programs -> SUBSET UMasks]
    /\ Fields(cr) /\ reset \in BOOLEAN /\ step \in 1 .. 19

MaskOf(p) == IF creds[p] = None THEN DefaultUMask ELSE creds[p].umask

\* Whose mask is in g_Creds.
UMaskInv ==
    /\ \A p \in Programs : MaskOf(p) \in masks[p]
    /\ cr.fixed => cr.umask = "set"
    /\ ~cr.fixed /\ cr.cacheU \in Programs => cr.umask \in masks[cr.cacheU]
    /\ Serving => cr.fixed \/ cr.umask \in masks[cur]

\* The user g_Creds stands for.
UserOf(c) == IF c.user # None THEN c.user ELSE c.uid

\* Whose uid is in the authenticator, and who wrote what is buffered.
AuthInv ==
    /\ cr.auth = cl_auth
    /\ cr.user = None /\ cr.cache \in Programs => creds[cr.cache] # None
    /\ ~reset /\ cr.auth # None => cr.auth = UserOf(cr)
    /\ ~reset /\ Serving /\ pc = "exec" => Writer = cl_auth
    /\ ~reset => wbuf \subseteq {cl_auth}
    /\ pc = "startup" =>
         wbuf = {} /\ ~reset /\ (Startup[step] = "strings" => cr.auth = None)

CredInv == CredTypes /\ UMaskInv /\ AuthInv

LEMMA CredInit == Init => CredInv
<1>. SUFFICES ASSUME Init PROVE CredInv
  OBVIOUS
<1>1. Fields(cr) /\ cr.user = None /\ cr.auth = None /\ cr.cache = None
      /\ cr.cacheU = None /\ cr.fixed = FALSE
  BY DEF Init, Creds0, Fields
<1>2. creds \in [Tasks -> Credentials]
  BY HandlerAssumption DEF Init, Tasks
<1>3. \A p \in Programs : creds[p] \in Credentials
  BY <1>2 DEF Tasks
<1>4. \A p \in Programs : masks[p] = {MaskOf(p)} /\ MaskOf(p) \in UMasks
  BY <1>3 DEF Init, MaskOf, UMasks
<1>5. masks \in [Programs -> SUBSET UMasks]
  <2>1. masks = [p \in Programs |-> masks[p]]
    BY DEF Init
  <2>. QED
    BY <2>1, <1>4
<1>6. CredTypes
  <2>0. reset = FALSE /\ step = 1
    BY DEF Init
  <2>1. reset \in BOOLEAN
    BY <2>0
  <2>2. step \in 1 .. 19
    BY <2>0
  <2>. QED
    BY <2>1, <2>2, <1>1, <1>2, <1>5 DEF CredTypes
<1>7. UMaskInv
  BY <1>1, <1>4, HandlerAssumption DEF UMaskInv, Serving, Init
<1>8. AuthInv
  BY <1>1, HandlerAssumption DEF AuthInv, Serving, Init
<1>. QED
  BY <1>6, <1>7, <1>8 DEF CredInv

\* Steps that leave the credentials and what depends on them alone.
LEMMA SameCreds ==
    ASSUME CredInv, UNCHANGED <<pc, step, auth, wbuf, world, cur, func>>
    PROVE  CredInv'
<1>1. CredTypes'
  BY DEF CredInv, CredTypes, auth, world, Fields
<1>2. UMaskInv'
  BY DEF CredInv, UMaskInv, auth, world, Serving, MaskOf
<1>3. AuthInv'
  BY DEF CredInv, AuthInv, auth, world, Serving, UserOf, Writer
<1>. QED
  BY <1>1, <1>2, <1>3 DEF CredInv

\* Steps between two packets that keep the credentials and add no bytes.
LEMMA QuietCreds ==
    ASSUME CredInv, UNCHANGED <<step, auth, world>>, wbuf' \subseteq wbuf,
           pc' \notin {"startup", "reauth", "exec"}
    PROVE  CredInv'
<1>1. CredTypes'
  BY DEF CredInv, CredTypes, auth, world, Fields
<1>2. ~Serving'
  BY DEF Serving
<1>3. UMaskInv'
  BY <1>2 DEF CredInv, UMaskInv, auth, world, MaskOf
<1>4. AuthInv'
  BY <1>2 DEF CredInv, AuthInv, auth, world, UserOf
<1>. QED
  BY <1>1, <1>3, <1>4 DEF CredInv

\* What is flushed was written by the user of the authenticator.
LEMMA FlushedAsOwner ==
    ASSUME CredInv, act_FLUSH, ~reset
    PROVE  \A s \in sent' : s.as = s.writer
<1>1. PICK users \in SUBSET wbuf : sent' = Written(users)
  BY DEF act_FLUSH
<1>2. wbuf \subseteq {cl_auth}
  BY DEF CredInv, AuthInv
<1>. QED
  BY <1>1, <1>2 DEF Written

LEMMA NothingDone ==
    ASSUME NoData
    PROVE  ActsForSender'
BY DEF NoData, ActsForSender, WrittenAsOwner, UMaskOwn

LEMMA OnlyFlushed ==
    ASSUME CredInv, act_FLUSH, made' = None, UNCHANGED reset
    PROVE  ActsForSender'
BY FlushedAsOwner DEF ActsForSender, WrittenAsOwner, UMaskOwn

\* g_Creds with an authenticator for a client who is known.
LEMMA SetAuthInv ==
    ASSUME CredInv, NEW client, AuthUid(cr, client) # None,
           cr' = cr_SetAuth(cr, client), cl_auth' = cr'.auth
    PROVE  /\ Fields(cr') /\ cr'.auth = UserOf(cr')
           /\ cr'.fixed = cr.fixed /\ cr'.umask = cr.umask /\ cr'.cacheU = cr.cacheU
           /\ cr'.user = cr.user
           /\ cr'.auth = IF cr.user # None THEN cr.user ELSE creds[client].uid
           /\ cr'.user = None /\ cr'.cache \in Programs =>
                cr'.cache = client /\ creds[client] # None
<1>1. Fields(cr)
  BY DEF CredInv, CredTypes
<1>2. /\ Fields(cr') /\ cr'.user = cr.user
      /\ cr'.auth = IF cr.user # None THEN cr.user ELSE creds[client].uid
      /\ cr'.uid = cr'.auth
      /\ cr'.cache = IF cr.user # None THEN None ELSE client
      /\ cr'.fixed = cr.fixed /\ cr'.umask = cr.umask /\ cr'.cacheU = cr.cacheU
  BY <1>1, SetAuthFacts
<1>3. cr.user = None => creds[client] # None
  BY DEF AuthUid
<1>. QED
  BY <1>2, <1>3 DEF UserOf

-----------------------------------------------------------------------------
LEMMA StartupCreds ==
    ASSUME CredInv, StartupStep
    PROVE  CredInv'
<1>1. /\ pc = "startup" /\ reset' = reset /\ wbuf' = wbuf
      /\ creds' = creds /\ masks' = masks
  BY DEF StartupStep, data, world
<1>2. /\ Fields(cr) /\ step \in 1 .. 19 /\ wbuf = {} /\ ~reset /\ reset \in BOOLEAN
      /\ cr.auth = cl_auth /\ (cr.auth # None => cr.auth = UserOf(cr))
      /\ cr.fixed => cr.umask = "set"
      /\ cr.user = None /\ cr.cache \in Programs => creds[cr.cache] # None
      /\ ~cr.fixed /\ cr.cacheU \in Programs => cr.umask \in masks[cr.cacheU]
      /\ Startup[step] = "strings" => cr.auth = None
  BY <1>1 DEF CredInv, CredTypes, AuthInv, UMaskInv
<1>3. pc' \notin {"reauth", "exec"}
  BY DEF StartupStep, ParseArgs, EarlyExit, StepSucceeds, NextStep, StepFails
<1>4. ASSUME Fields(cr'), step' \in 1 .. 19,
             cr'.auth = cl_auth', cr'.auth # None => cr'.auth = UserOf(cr'),
             cr'.fixed => cr'.umask = "set",
             cr'.user = None /\ cr'.cache \in Programs => creds[cr'.cache] # None,
             ~cr'.fixed /\ cr'.cacheU \in Programs => cr'.umask \in masks[cr'.cacheU],
             Startup[step'] = "strings" => cr'.auth = None
      PROVE  CredInv'
  <2>0. Fields(cr)' <=> Fields(cr')
    BY DEF Fields
  <2>4. UserOf(cr)' = UserOf(cr')
    BY DEF UserOf
  <2>1. CredTypes'
    BY <2>0, <1>1, <1>4, <1>2 DEF CredInv, CredTypes
  <2>2. UMaskInv'
    BY <1>1, <1>3, <1>4 DEF CredInv, UMaskInv, MaskOf, Serving
  <2>3. AuthInv'
    BY <2>4, <1>1, <1>2, <1>3, <1>4 DEF AuthInv, Serving
  <2>. QED
    BY <2>1, <2>2, <2>3 DEF CredInv
<1>5. CASE ParseArgs /\ step' = step
  <2>1. cr' = cr /\ cl_auth' = cl_auth
    BY <1>2, <1>5 DEF ParseArgs, EarlyExit
  <2>. QED
    BY <2>1, <1>2, <1>4, <1>5
<1>6. CASE ParseArgs /\ step' = step + 1
  <2>1. step = 1 /\ step' = 2 /\ cl_auth' = cl_auth /\ cr.auth = None
    BY <1>2, <1>6, StepNames DEF ParseArgs
  <2>2. cr' \in {cr, cr_SetUser(cr, UserUid), cr_SetUMask(cr),
                 cr_SetUMask(cr_SetUser(cr, UserUid))}
    BY <2>1, <1>6 DEF ParseArgs, EarlyExit
  <2>3. Startup[2] # "strings"
    BY StepNames
  <2>4. PICK d : d = cr_SetUser(cr, UserUid)
    OBVIOUS
  <2>5. /\ Fields(d) /\ d.user = UserUid /\ d.cache = None /\ d.fixed = cr.fixed
        /\ d.umask = cr.umask /\ d.auth = cr.auth /\ d.cacheU = cr.cacheU
    BY <2>4, <1>2, SetUserFacts
  <2>6. CASE cr' = cr
    BY <2>1, <2>3, <2>6, <1>2, <1>4
  <2>7. CASE cr' = d
    BY <2>1, <2>3, <2>5, <2>7, <1>2, <1>4, HandlerAssumption
  <2>8. ASSUME NEW e, Fields(e), e \in {cr, d}, cr' = cr_SetUMask(e)
        PROVE  CredInv'
    <3>1. /\ Fields(cr') /\ cr'.user = e.user /\ cr'.cache = e.cache
          /\ cr'.fixed = TRUE /\ cr'.umask = "set" /\ cr'.auth = e.auth
          /\ cr'.cacheU = None
      BY <2>8, SetUMaskFacts
    <3>2. e.auth = cr.auth /\ (e.user = None /\ e.cache \in Programs => creds[e.cache] # None)
      BY <2>5, <2>8, <1>2, HandlerAssumption
    <3>. QED
      BY <3>1, <3>2, <2>1, <2>3, <1>2, <1>4
  <2>. QED
    BY <2>2, <2>4, <2>5, <2>6, <2>7, <2>8, <1>2
<1>7. CASE Startup[step] # "strings" /\ StepSucceeds(Startup[step])
  <2>1. step # 1 /\ step' \in 1 .. 19 /\ Startup[step'] # "strings"
    <3>1. step # 1
      BY <1>2, <1>7, StepNames
    <3>2. step' = IF step = 19 THEN step ELSE step + 1
      BY <1>7, StepNames DEF StepSucceeds, NextStep
    <3>. QED
      BY <3>1, <3>2, <1>2, StepNames
  <2>2. CASE Startup[step] = "auth"
    <3>1. AuthUid(cr, Self) # None /\ cr' = cr_SetAuth(cr, Self) /\ cl_auth' = cr'.auth
      BY <2>2, <1>7 DEF StepSucceeds
    <3>2. /\ Fields(cr') /\ cr'.auth = UserOf(cr')
          /\ cr'.fixed = cr.fixed /\ cr'.umask = cr.umask /\ cr'.cacheU = cr.cacheU
          /\ cr'.user = None /\ cr'.cache \in Programs =>
               cr'.cache = Self /\ creds[Self] # None
      BY <3>1, SetAuthInv
    <3>. QED
      BY <3>1, <3>2, <2>1, <1>2, <1>4
  <2>3. CASE Startup[step] # "auth"
    <3>1. cr' = cr /\ cl_auth' = cl_auth
      BY <2>3, <1>7 DEF StepSucceeds
    <3>. QED
      BY <3>1, <2>1, <1>2, <1>4
  <2>. QED
    BY <2>2, <2>3
<1>8. CASE StepFails(Startup[step])
  <2>1. cr' = cr /\ cl_auth' = cl_auth /\ step' = step
    BY <1>8 DEF StepFails
  <2>. QED
    BY <2>1, <1>2, <1>4
<1>. QED
  BY <1>5, <1>6, <1>7, <1>8 DEF StartupStep, ParseArgs, EarlyExit

\* act_Prepare: the mask of the client, and a look at the authenticator.
LEMMA DispatchCreds ==
    ASSUME CredInv, Dispatch
    PROVE  CredInv'
<1>1. /\ pc = "dispatch" /\ cl_auth' = cl_auth /\ reset' = reset /\ wbuf' = wbuf
      /\ creds' = creds /\ masks' = masks /\ step' = step /\ cur' = cur
  BY DEF Dispatch, data, world
<1>2. /\ Fields(cr) /\ step \in 1 .. 19 /\ reset \in BOOLEAN
      /\ cr.auth = cl_auth /\ (~reset /\ cr.auth # None => cr.auth = UserOf(cr))
      /\ cr.fixed => cr.umask = "set"
      /\ cr.user = None /\ cr.cache \in Programs => creds[cr.cache] # None
      /\ ~cr.fixed /\ cr.cacheU \in Programs => cr.umask \in masks[cr.cacheU]
      /\ ~reset => wbuf \subseteq {cl_auth}
      /\ \A p \in Programs : MaskOf(p) \in masks[p]
  BY DEF CredInv, CredTypes, AuthInv, UMaskInv
<1>3. CASE KeepsCreds(func')
  <2>1. pc' = "exec" /\ cr' = cr
    BY <1>3 DEF Dispatch
  <2>2. ~Serving'
    BY <1>3 DEF Serving, KeepsCreds
  <2>3. CredTypes'
    BY <2>1, <1>1 DEF CredInv, CredTypes, Fields
  <2>4. UMaskInv'
    BY <2>1, <2>2, <1>1 DEF CredInv, UMaskInv, MaskOf
  <2>5. AuthInv'
    BY <2>1, <2>2, <1>1 DEF CredInv, AuthInv, UserOf
  <2>. QED
    BY <2>3, <2>4, <2>5 DEF CredInv
<1>4. CASE ~KeepsCreds(func')
  <2>1. PICK c : c = cr_UpdateCreds(cr, cur)
    OBVIOUS
  <2>2. /\ cr' = AfterCheck(c, cur)
        /\ pc' = IF cr_AuthNeedsUpdate(c, cur) THEN "reauth" ELSE "exec"
    BY <2>1, <1>4 DEF Dispatch
  <2>3. /\ Fields(c) /\ c.user = cr.user /\ c.uid = cr.uid /\ c.cache = cr.cache
        /\ c.fixed = cr.fixed /\ c.auth = cr.auth
        /\ cr.fixed => c = cr
        /\ ~cr.fixed /\ cur = cr.cacheU => c = cr
        /\ ~cr.fixed /\ cur # cr.cacheU =>
             c.umask = MaskOf(cur) /\ c.cacheU \in {None, cur}
    BY <2>1, <1>2, UpdateCredsFacts DEF MaskOf
  <2>4. /\ Fields(cr') /\ cr'.user = c.user /\ cr'.uid = c.uid /\ cr'.auth = c.auth
        /\ cr'.fixed = c.fixed /\ cr'.umask = c.umask
        /\ cr'.cache \in {c.cache, None} /\ cr'.cacheU \in {c.cacheU, None}
    BY <2>2, <2>3, AfterCheckFacts
  <2>5. None \notin Programs
    BY HandlerAssumption
  <2>6. Fields(cr)' <=> Fields(cr')
    BY DEF Fields
  <2>7. CredTypes'
    BY <2>4, <2>6, <1>1, <1>2 DEF CredInv, CredTypes
  <2>8. cur \in Programs => cr'.fixed \/ cr'.umask \in masks[cur]
    BY <2>3, <2>4, <1>2
  <2>9. UMaskInv'
    <3>1. cr'.fixed => cr'.umask = "set"
      BY <2>3, <2>4, <1>2
    <3>2. ~cr'.fixed /\ cr'.cacheU \in Programs => cr'.umask \in masks[cr'.cacheU]
      BY <2>3, <2>4, <2>5, <1>2
    <3>3. \A p : MaskOf(p)' = MaskOf(p)
      BY <1>1 DEF MaskOf
    <3>4. Serving' => cur \in Programs
      BY <1>1 DEF Serving
    <3>. QED
      BY <3>1, <3>2, <3>3, <3>4, <2>8, <1>1, <1>2 DEF UMaskInv
  <2>10. ASSUME ~reset, cur \in Programs, pc' = "exec" PROVE Writer' = cl_auth
    <3>1. /\ c.auth # None
          /\ ~(c.user = None /\ (cur # c.cache \/ UidChanged(c, cur)))
      BY <2>2, <2>10 DEF cr_AuthNeedsUpdate
    <3>2. Writer' = IF cr'.user # None THEN cr'.user ELSE creds[cur].uid
      BY <1>1 DEF Writer
    <3>3. cl_auth = UserOf(cr)
      BY <3>1, <2>3, <2>10, <1>2
    <3>4. CASE cr.user # None
      BY <3>2, <3>3, <3>4, <2>3, <2>4 DEF UserOf
    <3>5. CASE cr.user = None
      <4>1. cur = cr.cache /\ creds[cur] # None
        BY <3>1, <3>5, <2>3, <2>10, <1>2
      <4>2. creds[cur].uid = cr.uid
        BY <4>1, <3>1, <3>5, <2>3 DEF UidChanged
      <4>. QED
        BY <4>2, <3>2, <3>3, <3>5, <2>3, <2>4 DEF UserOf
    <3>. QED
      BY <3>4, <3>5
  <2>11. AuthInv'
    <3>1. pc' \in {"reauth", "exec"}
      BY <2>2
    <3>2. UserOf(cr)' = UserOf(cr)
      BY <2>3, <2>4 DEF UserOf
    <3>3. cr'.user = None /\ cr'.cache \in Programs => creds[cr'.cache] # None
      BY <2>3, <2>4, <2>5, <1>2
    <3>4. ~reset' /\ Serving' /\ pc' = "exec" => Writer' = cl_auth'
      BY <2>10, <1>1 DEF Serving
    <3>5. ~reset' /\ cr'.auth # None => cr'.auth = UserOf(cr)'
      BY <3>2, <2>3, <2>4, <1>1, <1>2
    <3>6. cr'.auth = cl_auth'
      BY <2>3, <2>4, <1>1, <1>2
    <3>. QED
      BY <3>1, <3>3, <3>4, <3>5, <3>6, <1>1, <1>2 DEF AuthInv
  <2>. QED
    BY <2>7, <2>9, <2>11 DEF CredInv
<1>. QED
  BY <1>3, <1>4

\* The buffers are written before the authenticator changes.
LEMMA ReauthCreds ==
    ASSUME CredInv, Reauthenticate
    PROVE  CredInv' /\ ActsForSender'
<1>1. /\ pc = "reauth" /\ act_FLUSH /\ made' = None /\ wbuf' = {}
      /\ reset' = reset /\ creds' = creds /\ masks' = masks /\ step' = step
  BY DEF Reauthenticate, FlushOld, act_FLUSH, world
<1>2. ActsForSender'
  BY <1>1, OnlyFlushed
<1>3. CASE /\ AuthUid(cr, cur) # None
           /\ NewAuth /\ pc' = "exec"
           /\ UNCHANGED <<owed, now>>
  <2>1. cr' = cr_SetAuth(cr, cur) /\ cl_auth' = cr'.auth /\ cur' = cur /\ func' = func
    BY <1>3 DEF NewAuth, now
  <2>2. /\ Fields(cr') /\ cr'.auth = UserOf(cr')
        /\ cr'.fixed = cr.fixed /\ cr'.umask = cr.umask /\ cr'.cacheU = cr.cacheU
        /\ cr'.user = cr.user
        /\ cr'.auth = IF cr.user # None THEN cr.user ELSE creds[cur].uid
        /\ cr'.user = None /\ cr'.cache \in Programs =>
             cr'.cache = cur /\ creds[cur] # None
    BY <2>1, <1>3, SetAuthInv
  <2>3. Serving' => Serving
    BY <2>1, <1>1 DEF Serving, KeepsCreds
  <2>4. (Fields(cr)' <=> Fields(cr')) /\ UserOf(cr)' = UserOf(cr')
    BY DEF Fields, UserOf
  <2>5. CredTypes'
    BY <2>2, <2>4, <1>1 DEF CredInv, CredTypes
  <2>6. UMaskInv'
    BY <2>1, <2>2, <2>3, <1>1 DEF CredInv, UMaskInv, MaskOf
  <2>7. Writer' = cl_auth'
    BY <2>1, <2>2, <1>1 DEF Writer
  <2>9. AuthInv'
    BY <2>1, <2>2, <2>4, <2>7, <1>1, <1>3 DEF AuthInv
  <2>. QED
    BY <2>5, <2>6, <2>9, <1>2 DEF CredInv
<1>4. CASE /\ G_ReplyPkt(cur) /\ pc' = "getmsg" /\ Done
           /\ UNCHANGED <<cr, cl_auth>>
  <2>1. CredInv'
    BY <1>1, <1>4, QuietCreds DEF auth, world
  <2>. QED
    BY <2>1, <1>2
<1>. QED
  BY <1>3, <1>4 DEF Reauthenticate

\* A packet's own work is done in the name of its sender.
LEMMA ExecCreds ==
    ASSUME CredInv, cur \in Senders, Exec
    PROVE  CredInv' /\ ActsForSender'
<1>1. /\ pc = "exec" /\ cur # "rexx" /\ cur # "timer" /\ pc' = "getmsg"
      /\ step' = step /\ UNCHANGED auth /\ creds' = creds /\ masks' = masks
      /\ cr' = cr /\ cl_auth' = cl_auth /\ reset' = reset
  BY DEF Exec, IsCommand, auth, world
<1>2. /\ reset \in BOOLEAN /\ (~reset => wbuf \subseteq {cl_auth})
  BY DEF CredInv, CredTypes, AuthInv
<1>3. ASSUME wbuf' \subseteq wbuf PROVE CredInv'
  BY <1>1, <1>3, QuietCreds DEF world
<1>4. CASE NoEffect \/ act_FINDINPUT \/ act_WRITE_PROTECT
  <2>1. NoData /\ wbuf' = wbuf
    BY <1>4 DEF NoEffect, act_FINDINPUT, act_WRITE_PROTECT, data
  <2>. QED
    BY <2>1, <1>3, NothingDone
<1>5. CASE act_FLUSH_packet
  BY <1>1, <1>3, <1>5, OnlyFlushed DEF act_FLUSH_packet, act_FLUSH
<1>6. CASE act_END
  <2>1. CASE act_FLUSH
    BY <2>1, <1>1, <1>3, <1>6, OnlyFlushed DEF act_END, act_FLUSH
  <2>2. CASE sent' = {} /\ UNCHANGED wbuf
    BY <2>2, <1>3, <1>6, NothingDone DEF act_END, NoData
  <2>. QED
    BY <2>1, <2>2, <1>6 DEF act_END
<1>7. ASSUME func \in {"WRITE", "CREATE_DIR"}, cur \in Programs
      PROVE  /\ ~reset => Writer = cl_auth
             /\ cr.fixed \/ cr.umask \in masks[cur]
             /\ cr.fixed => cr.umask = "set"
  <2>1. Serving
    BY <1>1, <1>7 DEF Serving, KeepsCreds
  <2>. QED
    BY <2>1, <1>1 DEF CredInv, AuthInv, UMaskInv
<1>8. CASE act_WRITE /\ cur \in Programs
  <2>1. ~reset => Writer = cl_auth
    BY <1>7, <1>8 DEF act_WRITE
  <2>2. made' = None
    BY <1>8 DEF act_WRITE
  <2>. HIDE DEF Writer
  <2>3. CASE wbuf' = wbuf \cup {Writer} /\ sent' = {}
    <3>1. ActsForSender'
      BY <2>2, <2>3, NothingDone DEF NoData
    <3>2. ~Serving'
      BY <1>1 DEF Serving
    <3>3. CredTypes' /\ UMaskInv'
      BY <3>2, <1>1 DEF CredInv, CredTypes, UMaskInv, MaskOf, Fields
    <3>4. AuthInv'
      BY <3>2, <2>1, <2>3, <1>1 DEF CredInv, AuthInv, UserOf
    <3>. QED
      BY <3>1, <3>3, <3>4 DEF CredInv
  <2>4. CASE \E users \in SUBSET wbuf :
                wbuf' = {} /\ sent' = Written(users \cup {Writer})
    <3>1. PICK users \in SUBSET wbuf :
                wbuf' = {} /\ sent' = Written(users \cup {Writer})
      BY <2>4
    <3>2. ~reset => \A s \in sent' : s.as = s.writer
      BY <3>1, <2>1, <1>2 DEF Written
    <3>3. ActsForSender'
      BY <3>2, <2>2, <1>1 DEF ActsForSender, WrittenAsOwner, UMaskOwn
    <3>. QED
      BY <3>1, <3>3, <1>3
  <2>. QED
    BY <2>3, <2>4, <1>8 DEF act_WRITE
<1>9. CASE act_CREATE_DIR /\ cur \in Programs
  <2>1. /\ ~reset => Writer = cl_auth
        /\ cr.fixed \/ cr.umask \in masks[cur]
        /\ cr.fixed => cr.umask = "set"
    BY <1>7, <1>9 DEF act_CREATE_DIR
  <2>. HIDE DEF Writer
  <2>2. /\ made' = [program |-> cur, umask |-> cr.umask] /\ wbuf' = wbuf
        /\ sent' = {[writer |-> Writer, as |-> cl_auth]}
    BY <1>9 DEF act_CREATE_DIR, data
  <2>3. WrittenAsOwner'
    BY <2>1, <2>2, <1>1 DEF WrittenAsOwner
  <2>4. UMaskOwn'
    <3>1. made'.program = cur /\ made'.umask = cr.umask
      BY <2>2
    <3>. QED
      BY <3>1, <2>1, <1>1 DEF UMaskOwn
  <2>. QED
    BY <2>2, <2>3, <2>4, <1>3 DEF ActsForSender
<1>10. cur \in Programs
  BY <1>1 DEF Senders
<1>. QED
  BY <1>4, <1>5, <1>6, <1>8, <1>9, <1>10 DEF Exec

-----------------------------------------------------------------------------
(***************************************************************************)
(* What is open or allocated.                                              *)
(***************************************************************************)

\* What the steps of the startup get, in sets.
LEMMA PartSets ==
    /\ ToSet(Parts("attrs")) = {"attrs", "attrlists"}
    /\ ToSet(Parts("dircache")) = {"dircache", "dirlists"}
    /\ ToSet(Parts("timer")) = {"st_Pkt", "st_Req", "timer"}
    /\ ToSet(Parts("rexx")) = {"RexxContext", "rexxsyslib", "rexx"}
    /\ ToSet(Parts("nfsclnt")) = {"cla_clnt", "mcu_data", "mcu_outbuf", "nfsclnt"}
    /\ \A s : s \notin {"attrs", "dircache", "timer", "rexx", "nfsclnt"} =>
         Parts(s) = <<s>> /\ ToSet(Parts(s)) = {s}
<1>1. ToSet(Parts("attrs")) = {"attrs", "attrlists"}
  BY DEF Parts, ToSet, attrs_Init
<1>2. ToSet(Parts("dircache")) = {"dircache", "dirlists"}
  BY DEF Parts, ToSet, dc_Init
<1>3. ToSet(Parts("timer")) = {"st_Pkt", "st_Req", "timer"}
  BY DEF Parts, ToSet, ti_Init
<1>4. ToSet(Parts("rexx")) = {"RexxContext", "rexxsyslib", "rexx"}
  BY DEF Parts, ToSet, InitARexx
<1>5. ToSet(Parts("nfsclnt")) = {"cla_clnt", "mcu_data", "mcu_outbuf", "nfsclnt"}
  BY DEF Parts, ToSet, clntaudp_bufcreate
<1>6. ASSUME NEW s, s \notin {"attrs", "dircache", "timer", "rexx", "nfsclnt"}
      PROVE  Parts(s) = <<s>> /\ ToSet(Parts(s)) = {s}
  <2>1. Parts(s) = <<s>>
    BY <1>6 DEF Parts
  <2>2. ToSet(<<s>>) = {s}
    BY DEF ToSet
  <2>. QED
    BY <2>1, <2>2
<1>. QED
  BY <1>1, <1>2, <1>3, <1>4, <1>5, <1>6

LEMMA PrefixSet ==
    ASSUME NEW S, NEW s \in Seq(S), NEW n \in 0 .. Len(s)
    PROVE  ToSet(SubSeq(s, 1, n)) = {s[i] : i \in 1 .. n}
<1>1. PICK t : t = SubSeq(s, 1, n)
  OBVIOUS
<1>2. n \in Nat /\ n <= Len(s) /\ Len(s) \in Nat
  OBVIOUS
<1>3. t \in Seq(S) /\ Len(t) = n /\ \A i \in 1 .. n : t[i] = s[i]
  <2>1. CASE n = 0
    BY <2>1, <1>1, SubSeqEmpty
  <2>2. CASE n > 0
    BY <2>2, <1>1, <1>2, SubSeqProperties
  <2>. QED
    BY <2>1, <2>2, <1>2
<1>4. DOMAIN t = 1 .. n
  BY <1>3
<1>. QED
  BY <1>1, <1>3, <1>4 DEF ToSet

\* A step of the startup that fails leaves nothing behind: what it got it has
\* given back itself.
LEMMA UndoesAll ==
    ASSUME NEW s, NEW got \in Got(s)
    PROVE  Undo(s, got) = {}
<1>1. CASE s = "attrs"
  <2>1. PICK n \in 0 .. 1 : got = ToSet(SubSeq(attrs_Init, 1, n))
    BY <1>1 DEF Got, Parts, attrs_Init
  <2>2. got = {attrs_Init[i] : i \in 1 .. n}
    <3>1. attrs_Init \in Seq({"attrs", "attrlists"}) /\ Len(attrs_Init) = 2
      BY DEF attrs_Init
    <3>. QED
      BY <3>1, <2>1, PrefixSet
  <2>3. got \subseteq {"attrs"}
    BY <2>2 DEF attrs_Init
  <2>4. Undo(s, got) = WithoutTable(got, s)
    BY <1>1 DEF Undo
  <2>. QED
    BY <2>3, <2>4, <1>1, PartSets DEF WithoutTable
<1>2. CASE s = "dircache"
  <2>1. PICK n \in 0 .. 1 : got = ToSet(SubSeq(dc_Init, 1, n))
    BY <1>2 DEF Got, Parts, dc_Init
  <2>2. got = {dc_Init[i] : i \in 1 .. n}
    <3>1. dc_Init \in Seq({"dircache", "dirlists"}) /\ Len(dc_Init) = 2
      BY DEF dc_Init
    <3>. QED
      BY <3>1, <2>1, PrefixSet
  <2>3. got \subseteq {"dircache"}
    BY <2>2 DEF dc_Init
  <2>4. Undo(s, got) = WithoutTable(got, s)
    BY <1>2 DEF Undo
  <2>. QED
    BY <2>3, <2>4, <1>2, PartSets DEF WithoutTable
<1>3. CASE s = "timer"
  <2>1. got \subseteq {"st_Pkt", "st_Req"}
    <3>1. CASE got = {"st_Req"}
      BY <3>1
    <3>2. CASE got # {"st_Req"}
      <4>1. PICK n \in 0 .. 2 : got = ToSet(SubSeq(ti_Init, 1, n))
        BY <3>2, <1>3 DEF Got, Parts, ti_Init
      <4>2. got = {ti_Init[i] : i \in 1 .. n}
        <5>1. ti_Init \in Seq({"st_Pkt", "st_Req", "timer"}) /\ Len(ti_Init) = 3
          BY DEF ti_Init
        <5>2. n \in 0 .. Len(ti_Init)
          BY <5>1
        <5>. QED
          BY <5>1, <5>2, <4>1, PrefixSet, Zenon
      <4>. QED
        BY <4>2 DEF ti_Init
    <3>. QED
      BY <3>1, <3>2
  <2>2. Undo(s, got) = WithoutTimer(got)
    BY <1>3 DEF Undo
  <2>. QED
    BY <2>1, <2>2 DEF WithoutTimer, TimerParts
<1>4. CASE s = "rexx"
  <2>1. PICK n \in 0 .. 2 : got = ToSet(SubSeq(InitARexx, 1, n))
    BY <1>4 DEF Got, Parts, InitARexx
  <2>2. got = {InitARexx[i] : i \in 1 .. n}
    <3>1. InitARexx \in Seq({"RexxContext", "rexxsyslib", "rexx"}) /\ Len(InitARexx) = 3
      BY DEF InitARexx
    <3>2. n \in 0 .. Len(InitARexx)
      BY <3>1
    <3>. QED
      BY <3>1, <3>2, <2>1, PrefixSet, Zenon
  <2>3. /\ got \subseteq {"RexxContext", "rexxsyslib"}
        /\ got # {} => "RexxContext" \in got
    BY <2>2 DEF InitARexx
  <2>4. Undo(s, got) = WithoutARexx(got)
    BY <1>4 DEF Undo
  <2>5. ToSet(InitARexx) = {"RexxContext", "rexxsyslib", "rexx"}
    BY DEF ToSet, InitARexx
  <2>. QED
    BY <2>3, <2>4, <2>5 DEF WithoutARexx
<1>5. CASE s = "nfsclnt"
  <2>1. PICK n \in 0 .. 3 : got = ToSet(SubSeq(clntaudp_bufcreate, 1, n))
    BY <1>5 DEF Got, Parts, clntaudp_bufcreate
  <2>2. got = {clntaudp_bufcreate[i] : i \in 1 .. n}
    <3>1. /\ clntaudp_bufcreate \in Seq({"cla_clnt", "mcu_data", "mcu_outbuf", "nfsclnt"})
          /\ Len(clntaudp_bufcreate) = 4
      BY DEF clntaudp_bufcreate
    <3>. QED
      BY <3>1, <2>1, PrefixSet
  <2>3. /\ got \subseteq {"cla_clnt", "mcu_data", "mcu_outbuf"}
        /\ "mcu_outbuf" \in got => "mcu_data" \in got
    BY <2>2 DEF clntaudp_bufcreate
  <2>4. Undo(s, got) = fooy(got)
    BY <1>5 DEF Undo
  <2>. QED
    BY <2>3, <2>4 DEF fooy
<1>6. CASE s \notin {"attrs", "dircache", "timer", "rexx", "nfsclnt"}
  <2>1. PICK n \in 0 .. Len(<<s>>) - 1 : got = ToSet(SubSeq(<<s>>, 1, n))
    BY <1>6, PartSets DEF Got
  <2>2. n = 0 /\ SubSeq(<<s>>, 1, n) = << >>
    BY <2>1
  <2>3. ToSet(<< >>) = {}
    BY DEF ToSet
  <2>4. got = {}
    BY <2>1, <2>2, <2>3
  <2>. QED
    BY <2>4, <1>6 DEF Undo
<1>. QED
  BY <1>1, <1>2, <1>3, <1>4, <1>5, <1>6

\* Everything that can be open or allocated.
Things ==
    {"strings", "utility", "volume", "port", "attrs", "attrlists", "dircache",
     "dirlists", "st_Pkt", "st_Req", "timer", "RexxContext", "rexxsyslib", "rexx",
     "mbufs", "wbufs", "mntclnt", "mntauth", "mounted", "cla_clnt", "mcu_data",
     "mcu_outbuf", "nfsclnt", "inlist"}

\* What belongs together is there or not there together.
Together(h, t) == t \subseteq h \/ t \cap h = {}

Whole(h) ==
    /\ Together(h, {"attrs", "attrlists"}) /\ Together(h, {"dircache", "dirlists"})
    /\ Together(h, {"st_Pkt", "st_Req", "timer"})
    /\ Together(h, {"RexxContext", "rexxsyslib", "rexx"})
    /\ Together(h, {"cla_clnt", "mcu_data", "mcu_outbuf", "nfsclnt"})
    /\ "mntclnt" \notin h => {"mounted", "mntauth"} \cap h = {}

Loop == {"getmsg", "getrexx", "wait", "break", "dispatch", "reauth", "exec", "cleanup"}

\* Part of the invariant: how far the startup has come, what each step of the
\* way out has removed.
HeldInv ==
    /\ step \in 1 .. 19 /\ TimerUp \in {0, 1}
    /\ held \subseteq Things /\ Whole(held)
    /\ "timer" \notin held => timer = "none"
    /\ pc = "startup" =>
         /\ step = 1 => held = {}
         /\ "timer" \in held <=> step > 7
         /\ "inlist" \notin held
         /\ step > 10 => TimerUp = 1
         /\ step > 11 => act_Init
         /\ step > 12 => "mntclnt" \in held
    /\ pc \in Loop => "timer" \in held /\ act_Init
    /\ pc \in {"remove", "drain"} => "timer" \notin held
    /\ pc \in {"drain", "exit", "unmount", "closerexx", "freerexx", "stopped", "wild"} =>
         "inlist" \notin held
    /\ pc = "exit" /\ "timer" \in held => step = 8 \/ TimerUp = 1
    /\ pc \in {"unmount", "closerexx", "freerexx"} /\ "timer" \in held =>
         step = 8 /\ TimerUp = 0
    /\ pc \in {"closerexx", "freerexx"} =>
         {"mounted", "mntauth", "mntclnt", "nfsclnt"} \cap held = {}
    /\ pc = "stopped" => "rexx" \notin held /\ "port" \notin held /\ NothingLeft

LEMMA HeldInit == Init => HeldInv
<1>. SUFFICES ASSUME Init PROVE HeldInv
  OBVIOUS
<1>1. pc = "startup" /\ step = 1 /\ held = {} /\ TimerUp \in {0, 1} /\ timer = "none"
  BY DEF Init
<1>2. Whole({})
  BY DEF Whole, Together
<1>. QED
  BY <1>1, <1>2 DEF HeldInv, Loop

\* Steps of the loop.
LEMMA LoopHeld ==
    ASSUME HeldInv, UNCHANGED <<step, held, TimerUp>>, pc \in Loop, pc' \in Loop
    PROVE  HeldInv'
<1>1. "timer" \in held
  BY DEF HeldInv
<1>. QED
  BY <1>1 DEF HeldInv, Loop, Whole, Together

\* Steps of others.
LEMMA OthersHeld ==
    ASSUME HeldInv, UNCHANGED proc, timer' # timer => timer = "device" /\ "port" \in held
    PROVE  HeldInv'
<1>1. UNCHANGED <<pc, step, held, TimerUp>>
  BY DEF proc
<1>2. "timer" \notin held => timer' = "none"
  BY DEF HeldInv
<1>3. NothingLeft /\ pc = "stopped" => NothingLeft'
  BY <1>1 DEF HeldInv, NothingLeft
<1>. QED
  BY <1>1, <1>2, <1>3 DEF HeldInv, Whole, Together

\* A step of the startup that allocates keeps things together.
LEMMA WholeParts ==
    ASSUME Whole(held), held \subseteq Things, NEW k \in 2 .. 19,
           Startup[k] \notin Checks, k > 12 => "mntclnt" \in held
    PROVE  /\ Whole(held \cup ToSet(Parts(Startup[k])))
           /\ held \cup ToSet(Parts(Startup[k])) \subseteq Things
           /\ "timer" \in ToSet(Parts(Startup[k])) <=> k = 7
           /\ "inlist" \in ToSet(Parts(Startup[k])) <=> k = 19
           /\ k = 12 => "mntclnt" \in ToSet(Parts(Startup[k]))
<1>1. CASE k = 5
  <2>1. ToSet(Parts(Startup[k])) = {"attrs", "attrlists"}
    BY <1>1, PartSets DEF Startup
  <2>. QED
    BY <2>1, <1>1 DEF Whole, Together, Things
<1>2. CASE k = 6
  <2>1. ToSet(Parts(Startup[k])) = {"dircache", "dirlists"}
    BY <1>2, PartSets DEF Startup
  <2>. QED
    BY <2>1, <1>2 DEF Whole, Together, Things
<1>3. CASE k = 7
  <2>1. ToSet(Parts(Startup[k])) = {"st_Pkt", "st_Req", "timer"}
    BY <1>3, PartSets DEF Startup
  <2>. QED
    BY <2>1, <1>3 DEF Whole, Together, Things
<1>4. CASE k = 8
  <2>1. ToSet(Parts(Startup[k])) = {"RexxContext", "rexxsyslib", "rexx"}
    BY <1>4, PartSets DEF Startup
  <2>. QED
    BY <2>1, <1>4 DEF Whole, Together, Things
<1>5. CASE k = 15
  <2>1. ToSet(Parts(Startup[k])) = {"cla_clnt", "mcu_data", "mcu_outbuf", "nfsclnt"}
    BY <1>5, PartSets DEF Startup
  <2>. QED
    BY <2>1, <1>5 DEF Whole, Together, Things
<1>6. CASE k \in {2, 3, 4, 9, 10, 12, 13, 14, 19}
  <2>1. Startup[k] = CASE k = 2 -> "utility" [] k = 3 -> "volume" [] k = 4 -> "port"
                       [] k = 9 -> "mbufs" [] k = 10 -> "wbufs" [] k = 12 -> "mntclnt"
                       [] k = 13 -> "mntauth" [] k = 14 -> "mounted" [] OTHER -> "inlist"
    BY <1>6 DEF Startup
  <2>2. ToSet(Parts(Startup[k])) = {Startup[k]}
    BY <2>1, <1>6, PartSets
  <2>. QED
    BY <2>1, <2>2, <1>6 DEF Whole, Together, Things
<1>7. CASE k \in {11, 16, 17, 18}
  BY <1>7 DEF Startup, Checks
<1>. QED
  BY <1>1, <1>2, <1>3, <1>4, <1>5, <1>6, <1>7

LEMMA StartupHeld ==
    ASSUME HeldInv, StartupStep
    PROVE  HeldInv'
<1>1. /\ pc = "startup" /\ step \in 1 .. 19 /\ TimerUp \in {0, 1}
      /\ held \subseteq Things /\ Whole(held)
      /\ "timer" \notin held => timer = "none"
      /\ "timer" \in held <=> step > 7
      /\ "inlist" \notin held
      /\ step > 10 => TimerUp = 1
      /\ step > 11 => act_Init
      /\ step > 12 => "mntclnt" \in held
  BY DEF HeldInv, StartupStep
<1>2. CASE ParseArgs
  <2>1. step = 1 /\ TimerUp' = TimerUp /\ timer' = timer /\ timer = "none"
    BY <1>1, <1>2, StepNames DEF ParseArgs
  <2>2. CASE pc' = "startup" /\ step' = step + 1 /\ held' = {"strings"}
    <3>1. Whole({"strings"}) /\ {"strings"} \subseteq Things
      BY DEF Whole, Together, Things
    <3>. QED
      BY <3>1, <2>1, <2>2, <1>1 DEF HeldInv, Loop, Whole, Together
  <2>3. CASE EarlyExit
    <3>1. pc' = "stopped" /\ held' \in {{}, {"strings"}} /\ step' = 1
      BY <2>1, <2>3 DEF EarlyExit
    <3>2. Whole(held)' /\ held' \subseteq Things
      BY <3>1 DEF Whole, Together, Things
    <3>3. NothingLeft'
      BY <3>1, <2>1, StepNames DEF NothingLeft
    <3>. QED
      BY <3>1, <3>2, <3>3, <2>1, <1>1 DEF HeldInv, Loop
  <2>. QED
    BY <2>2, <2>3, <1>2 DEF ParseArgs
<1>3. CASE Startup[step] # "strings" /\ StepSucceeds(Startup[step])
  <2>1. step \in 2 .. 19
    BY <1>1, <1>3, StepNames
  <2>2. /\ pc' = IF step = 19 THEN "getmsg" ELSE "startup"
        /\ step' = IF step = 19 THEN step ELSE step + 1
        /\ TimerUp' = IF step = 10 THEN 1 ELSE TimerUp
        /\ step = 11 => act_Init
    <3>1. Startup[step] = "act_Init" <=> step = 11
      BY <1>1 DEF Startup
    <3>. QED
      BY <3>1, <2>1, <1>3, StepNames DEF StepSucceeds, NextStep
  <2>3. timer' = IF step = 7 THEN "device" ELSE timer
    BY <2>1, <1>3, StepNames DEF StepSucceeds
  <2>4. /\ Whole(held') /\ held' \subseteq Things
        /\ "timer" \in held' <=> step > 6
        /\ "inlist" \in held' <=> step = 19
        /\ step > 11 => "mntclnt" \in held'
    <3>1. CASE Startup[step] \in Checks
      <4>1. held' = held
        BY <3>1, <1>3 DEF StepSucceeds
      <4>2. step \in {11, 16, 17, 18}
        BY <3>1, <2>1 DEF Startup, Checks
      <4>. QED
        BY <4>1, <4>2, <1>1
    <3>2. CASE Startup[step] \notin Checks
      <4>1. held' = held \cup ToSet(Parts(Startup[step]))
        BY <3>2, <1>3 DEF StepSucceeds
      <4>2. /\ Whole(held \cup ToSet(Parts(Startup[step])))
            /\ held \cup ToSet(Parts(Startup[step])) \subseteq Things
            /\ "timer" \in ToSet(Parts(Startup[step])) <=> step = 7
            /\ "inlist" \in ToSet(Parts(Startup[step])) <=> step = 19
            /\ step = 12 => "mntclnt" \in ToSet(Parts(Startup[step]))
        BY <3>2, <2>1, <1>1, WholeParts
      <4>. QED
        BY <4>1, <4>2, <2>1, <1>1
    <3>. QED
      BY <3>1, <3>2
  <2>5. Whole(held)' <=> Whole(held')
    BY DEF Whole, Together
  <2>. QED
    BY <2>1, <2>2, <2>3, <2>4, <2>5, <1>1 DEF HeldInv, Loop
<1>4. CASE StepFails(Startup[step])
  <2>1. PICK got \in Got(Startup[step]) : held' = held \cup Undo(Startup[step], got)
    BY <1>4 DEF StepFails
  <2>2. held' = held
    BY <2>1, UndoesAll
  <2>3. pc' \in {"exit", "wild"} /\ step' = step /\ TimerUp' = TimerUp /\ timer' = timer
    BY <1>4 DEF StepFails
  <2>4. step \notin {9, 10}
    BY <1>4 DEF StepFails, Startup
  <2>5. Whole(held)' <=> Whole(held')
    BY DEF Whole, Together
  <2>. QED
    BY <2>2, <2>3, <2>4, <2>5, <1>1 DEF HeldInv, Loop
<1>. QED
  BY <1>2, <1>3, <1>4 DEF StartupStep

LEMMA ShutdownHeld ==
    ASSUME HeldInv, Shutdown
    PROVE  HeldInv'
<1>0. step' = step /\ step \in 1 .. 19
  BY DEF Shutdown, HeldInv
<1>1. Whole(held)' <=> Whole(held')
  BY DEF Whole, Together
<1>2. held \subseteq Things /\ Whole(held) /\ ("timer" \notin held => timer = "none")
      /\ TimerUp \in {0, 1}
  BY DEF HeldInv
<1>3. ASSUME ti_Cleanup
      PROVE  /\ held' = held \ {"st_Pkt", "st_Req", "timer"} /\ timer' = "none"
             /\ Whole(held') /\ held' \subseteq Things
  <2>1. held' = held \ {"st_Pkt", "st_Req", "timer"}
    BY <1>2, <1>3 DEF ti_Cleanup, WithoutTimer, TimerParts, Whole, Together
  <2>2. timer' = "none"
    BY <1>2, <1>3 DEF ti_Cleanup
  <2>3. Whole(held')
    BY <2>1, <1>2 DEF Whole, Together
  <2>. QED
    BY <2>1, <2>2, <2>3, <1>2
<1>4. CASE StopTimer
  <2>1. pc = "cleanup" /\ pc' = "remove" /\ TimerUp' = 0 /\ ti_Cleanup
    BY <1>4 DEF StopTimer
  <2>. QED
    BY <2>1, <1>0, <1>1, <1>3 DEF HeldInv, Loop
<1>5. CASE RemDosEntry
  <2>1. /\ pc = "remove" /\ pc' = "drain" /\ TimerUp' = TimerUp /\ timer' = timer
        /\ held' = held \ {"inlist"}
    BY <1>5 DEF RemDosEntry
  <2>2. Whole(held')
    BY <2>1, <1>2 DEF Whole, Together
  <2>3. "timer" \notin held
    BY <2>1 DEF HeldInv
  <2>. QED
    BY <2>1, <2>2, <2>3, <1>0, <1>1, <1>2 DEF HeldInv, Loop
<1>6. CASE DrainPort
  <2>1. /\ pc = "drain" /\ pc' = "exit" /\ TimerUp' = TimerUp /\ timer' = timer
        /\ held' = held
    BY <1>6 DEF DrainPort
  <2>2. "timer" \notin held /\ "inlist" \notin held
    BY <2>1 DEF HeldInv
  <2>. QED
    BY <2>1, <2>2, <1>0, <1>1, <1>2 DEF HeldInv, Loop
<1>7. CASE RemoveTimer
  <2>1. pc = "exit" /\ pc' = "unmount" /\ TimerUp' = TimerUp
    BY <1>7 DEF RemoveTimer
  <2>2. "inlist" \notin held /\ ("timer" \in held => step = 8 \/ TimerUp = 1)
    BY <2>1 DEF HeldInv
  <2>3. CASE TimerUp # 0
    <3>1. ti_Cleanup
      BY <2>3, <1>7 DEF RemoveTimer
    <3>. QED
      BY <3>1, <2>1, <2>2, <1>0, <1>1, <1>2, <1>3 DEF HeldInv, Loop
  <2>4. CASE TimerUp = 0
    <3>1. held' = held /\ timer' = timer
      BY <2>4, <1>7 DEF RemoveTimer
    <3>. QED
      BY <3>1, <2>1, <2>2, <2>4, <1>0, <1>1, <1>2 DEF HeldInv, Loop
  <2>. QED
    BY <2>3, <2>4
<1>8. CASE G_UnMount
  <2>1. /\ pc = "unmount" /\ pc' = "closerexx" /\ TimerUp' = TimerUp /\ timer' = timer
        /\ held' = clntaudp_destroy(IF "mntclnt" \in held
                                    THEN held \ {"mounted", "mntauth", "mntclnt"} ELSE held)
    BY <1>8 DEF G_UnMount
  <2>2. "inlist" \notin held /\ ("timer" \in held => step = 8 /\ TimerUp = 0)
    BY <2>1 DEF HeldInv
  <2>3. ToSet(clntaudp_bufcreate) = {"cla_clnt", "mcu_data", "mcu_outbuf", "nfsclnt"}
    BY DEF ToSet, clntaudp_bufcreate
  <2>4. PICK h : h = held \ {"mounted", "mntauth", "mntclnt"}
    OBVIOUS
  <2>5. held' = IF "nfsclnt" \in h THEN h \ {"cla_clnt", "mcu_data", "mcu_outbuf", "nfsclnt"}
                ELSE h
    <3>1. h = IF "mntclnt" \in held THEN held \ {"mounted", "mntauth", "mntclnt"} ELSE held
      BY <2>4, <1>2 DEF Whole
    <3>. QED
      BY <3>1, <2>1, <2>3 DEF clntaudp_destroy
  <2>6. Whole(held') /\ held' \subseteq held
    BY <2>4, <2>5, <1>2 DEF Whole, Together
  <2>7. {"mounted", "mntauth", "mntclnt", "nfsclnt"} \cap held' = {}
    BY <2>4, <2>5
  <2>8. "timer" \in held' <=> "timer" \in held
    BY <2>4, <2>5
  <2>. QED
    BY <2>1, <2>2, <2>6, <2>7, <2>8, <1>0, <1>1, <1>2 DEF HeldInv, Loop
<1>9. CASE G_CleanUp /\ (HidePort \/ AnswerDead)
  <2>1. /\ pc \in {"closerexx", "freerexx"} /\ pc' = "freerexx" /\ held' = held
        /\ TimerUp' = TimerUp /\ timer' = timer
    BY <1>9 DEF G_CleanUp, HidePort, AnswerDead
  <2>. QED
    BY <2>1, <1>0, <1>1, <1>2 DEF HeldInv, Loop
<1>10. CASE G_CleanUp /\ FreeRest
  <2>1. /\ pc = "freerexx" /\ pc' = "stopped" /\ TimerUp' = TimerUp /\ timer' = timer
        /\ held' = dc_Cleanup(attrs_Cleanup(WithoutARexx(held \ {"mbufs", "wbufs"})))
                     \ {"port", "volume", "strings", "utility"}
    <3>1. (held \ {"mbufs"}) \ {"wbufs"} = held \ {"mbufs", "wbufs"}
      OBVIOUS
    <3>. QED
      BY <3>1, <1>10 DEF G_CleanUp, FreeRest, mb_FreeMBufs, wc_FreeWBufs
  <2>2. /\ "inlist" \notin held /\ ("timer" \in held => step = 8 /\ TimerUp = 0)
        /\ {"mounted", "mntauth", "mntclnt", "nfsclnt"} \cap held = {}
    BY <2>1 DEF HeldInv
  <2>3. PICK g : g = WithoutARexx(held \ {"mbufs", "wbufs"})
    OBVIOUS
  <2>4. g = held \ {"mbufs", "wbufs", "RexxContext", "rexxsyslib", "rexx"}
    <3>1. ToSet(InitARexx) = {"RexxContext", "rexxsyslib", "rexx"}
      BY DEF ToSet, InitARexx
    <3>. QED
      BY <3>1, <2>3, <1>2 DEF WithoutARexx, Whole, Together
  <2>5. PICK f : f = attrs_Cleanup(g)
    OBVIOUS
  <2>6. f = g \ {"attrs", "attrlists"}
    BY <2>4, <2>5, <1>2, PartSets DEF attrs_Cleanup, WithoutTable, Whole, Together
  <2>7. PICK e : e = dc_Cleanup(f)
    OBVIOUS
  <2>8. e = f \ {"dircache", "dirlists"}
    BY <2>4, <2>6, <2>7, <1>2, PartSets DEF dc_Cleanup, WithoutTable, Whole, Together
  <2>9. held' = e \ {"port", "volume", "strings", "utility"}
    BY <2>1, <2>3, <2>5, <2>7
  <2>10. held' = {} \/ held' = {"st_Pkt", "st_Req", "timer"}
    <3>1. held' \subseteq {"st_Pkt", "st_Req", "timer"}
      BY <2>2, <2>4, <2>6, <2>8, <2>9, <1>2 DEF Things, Whole, Together
    <3>2. held \cap {"st_Pkt", "st_Req", "timer"} = held' \cap {"st_Pkt", "st_Req", "timer"}
      BY <2>4, <2>6, <2>8, <2>9
    <3>. QED
      BY <3>1, <3>2, <1>2 DEF Whole, Together
  <2>11. "timer" \in held' <=> "timer" \in held
    BY <2>4, <2>6, <2>8, <2>9
  <2>12. Whole(held') /\ held' \subseteq Things
    BY <2>10 DEF Whole, Together, Things
  <2>13. NothingLeft'
    <3>1. CASE held' = {}
      <4>1. timer' = "none"
        BY <3>1, <2>1, <2>11, <1>2
      <4>. QED
        BY <3>1, <4>1 DEF NothingLeft
    <3>2. CASE held' = {"st_Pkt", "st_Req", "timer"}
      <4>1. step' = 8 /\ TimerUp' = 0 /\ Startup[8] = "rexx"
        BY <3>2, <2>1, <2>2, <2>11, <1>0, StepNames
      <4>. QED
        BY <3>2, <4>1 DEF NothingLeft, TimerParts
    <3>. QED
      BY <3>1, <3>2, <2>10
  <2>. QED
    BY <2>1, <2>10, <2>11, <2>12, <2>13, <1>0, <1>1, <1>2 DEF HeldInv, Loop
<1>. QED
  BY <1>4, <1>5, <1>6, <1>7, <1>8, <1>9, <1>10 DEF Shutdown, G_CleanUp

LEMMA NextHeld ==
    ASSUME HeldInv, [Next]_vars
    PROVE  HeldInv'
<1>1. CASE StartupStep
  BY <1>1, StartupHeld
<1>2. CASE Shutdown
  BY <1>2, ShutdownHeld
<1>3. CASE G_WaitPkt
  <2>1. UNCHANGED <<step, held, TimerUp>> /\ pc \in Loop /\ pc' \in Loop
    BY <1>3 DEF G_WaitPkt, LookForPkt, LookForCommand, Wait, GetMsg, GetARexxMsg,
                NothingFound, Handle, Loop
  <2>. QED
    BY <2>1, LoopHeld
<1>4. CASE Dispatch \/ Reauthenticate \/ IgnoreBreak
  <2>1. UNCHANGED <<step, held, TimerUp>> /\ pc \in Loop /\ pc' \in Loop
    BY <1>4 DEF Dispatch, Reauthenticate, IgnoreBreak, Loop
  <2>. QED
    BY <2>1, LoopHeld
<1>5. CASE Exec \/ act_DIE \/ act_TIMER \/ act_IOCONTROL
  <2>1. UNCHANGED <<step, held, TimerUp>> /\ pc \in Loop /\ pc' \in Loop
    BY <1>5 DEF Exec, act_DIE, act_TIMER, act_IOCONTROL, Loop
  <2>. QED
    BY <2>1, LoopHeld
<1>6. CASE TimerFires
  BY <1>6, OthersHeld DEF TimerFires
<1>7. CASE SendCommand \/ CtrlC \/ \E p \in Programs : Send(p) \/ ChangeCreds(p)
  <2>1. UNCHANGED proc /\ timer' = timer
    BY <1>7 DEF SendCommand, CtrlC, Send, ChangeCreds, input
  <2>. QED
    BY <2>1, OthersHeld
<1>8. CASE UNCHANGED vars
  BY <1>8, OthersHeld DEF vars, input
<1>. QED
  BY <1>1, <1>2, <1>3, <1>4, <1>5, <1>6, <1>7, <1>8 DEF Next, HandlerStep, Environment

-----------------------------------------------------------------------------
(***************************************************************************)
(* Messages: those in the port, the one that is served, those not yet      *)
(* answered.                                                               *)
(***************************************************************************)

Occurs(s, m) == \E i \in DOMAIN s : s[i] = m
Distinct(s) == \A i, j \in DOMAIN s : s[i] = s[j] => i = j

LEMMA AppendMessage ==
    ASSUME NEW S, NEW s \in Seq(S), NEW m \in S, Distinct(s), ~Occurs(s, m)
    PROVE  /\ Append(s, m) \in Seq(S) /\ Distinct(Append(s, m))
           /\ \A r : Occurs(Append(s, m), r) <=> Occurs(s, r) \/ r = m
<1>1. PICK t : t = Append(s, m)
  OBVIOUS
<1>2. /\ t \in Seq(S) /\ Len(s) \in Nat /\ DOMAIN s = 1 .. Len(s)
      /\ DOMAIN t = 1 .. Len(s) + 1 /\ t[Len(s) + 1] = m
      /\ \A i \in 1 .. Len(s) : t[i] = s[i]
  BY <1>1
<1>3. Distinct(t)
  BY <1>2 DEF Distinct, Occurs
<1>4. \A r : Occurs(t, r) <=> Occurs(s, r) \/ r = m
  BY <1>2 DEF Occurs
<1>. QED
  BY <1>1, <1>2, <1>3, <1>4

LEMMA TakeMessage ==
    ASSUME NEW S, NEW s \in Seq(S), s # <<>>, Distinct(s)
    PROVE  /\ Tail(s) \in Seq(S) /\ Distinct(Tail(s)) /\ Head(s) \in S
           /\ Occurs(s, Head(s))
           /\ \A r : Occurs(Tail(s), r) <=> Occurs(s, r) /\ r # Head(s)
<1>1. PICK t : t = Tail(s)
  OBVIOUS
<1>2. /\ t \in Seq(S) /\ Len(s) \in Nat /\ Len(s) > 0 /\ DOMAIN s = 1 .. Len(s)
      /\ DOMAIN t = 1 .. Len(s) - 1 /\ Head(s) = s[1] /\ Head(s) \in S
      /\ \A i \in 1 .. Len(s) - 1 : t[i] = s[i + 1]
  BY <1>1
<1>3. Distinct(t)
  BY <1>2 DEF Distinct
<1>4. Occurs(s, Head(s))
  BY <1>2 DEF Occurs
<1>5. ASSUME NEW r PROVE Occurs(t, r) <=> Occurs(s, r) /\ r # Head(s)
  <2>1. ASSUME Occurs(t, r) PROVE Occurs(s, r) /\ r # Head(s)
    <3>1. PICK i \in 1 .. Len(s) - 1 : t[i] = r
      BY <2>1, <1>2 DEF Occurs
    <3>2. i + 1 \in DOMAIN s /\ s[i + 1] = r /\ i + 1 # 1 /\ 1 \in DOMAIN s
      BY <3>1, <1>2
    <3>. QED
      BY <3>2, <1>2 DEF Occurs, Distinct
  <2>2. ASSUME Occurs(s, r), r # Head(s) PROVE Occurs(t, r)
    <3>1. PICK i \in 1 .. Len(s) : s[i] = r
      BY <2>2, <1>2 DEF Occurs
    <3>2. i # 1
      BY <3>1, <2>2, <1>2
    <3>3. i - 1 \in DOMAIN t /\ t[i - 1] = s[(i - 1) + 1] /\ (i - 1) + 1 = i
      BY <3>1, <3>2, <1>2
    <3>. QED
      BY <3>1, <3>3 DEF Occurs
  <2>. QED
    BY <2>1, <2>2
<1>. QED
  BY <1>1, <1>2, <1>3, <1>4, <1>5

LEMMA RemoveMessage ==
    ASSUME NEW S, NEW s \in Seq(S), NEW e, Distinct(s)
    PROVE  /\ RemoveFirst(s, e) \in Seq(S) /\ Distinct(RemoveFirst(s, e))
           /\ \A r : Occurs(RemoveFirst(s, e), r) <=> Occurs(s, r) /\ r # e
<1>0. Len(s) \in Nat /\ DOMAIN s = 1 .. Len(s)
  OBVIOUS
<1>1. CASE ~Occurs(s, e)
  <2>1. RemoveFirst(s, e) = s
    BY <1>0, <1>1 DEF RemoveFirst, Occurs
  <2>. QED
    BY <2>1, <1>1 DEF Occurs
<1>2. CASE Occurs(s, e)
  <2>. DEFINE I == {i \in 1 .. Len(s) : s[i] = e}
  <2>1. I \subseteq Nat /\ I # {}
    BY <1>0, <1>2 DEF Occurs
  <2>2. Min(I) \in I
    BY <2>1, LeastNumber DEF Min
  <2>3. PICK p \in 1 .. Len(s) : s[p] = e /\ RemoveFirst(s, e) = RemoveAt(s, p)
    BY <2>1, <2>2 DEF RemoveFirst, SelectInSeq
  <2>4. PICK a, b : a = SubSeq(s, 1, p - 1) /\ b = SubSeq(s, p + 1, Len(s))
    OBVIOUS
  <2>5. /\ a \in Seq(S) /\ Len(a) = p - 1
        /\ \A k \in 1 .. p - 1 : a[k] = s[k]
    BY <2>4, <1>0, SubSeqProperties
  <2>6. /\ b \in Seq(S) /\ Len(b) = Len(s) - p
        /\ \A k \in 1 .. Len(s) - p : b[k] = s[p + k]
    <3>1. p + 1 \in 1 .. Len(s) + 1 /\ Len(s) \in (p + 1) - 1 .. Len(s)
      BY <1>0
    <3>2. /\ b \in Seq(S) /\ Len(b) = Len(s) - (p + 1) + 1
          /\ \A k \in 1 .. Len(s) - (p + 1) + 1 : b[k] = s[(p + 1) + k - 1]
      BY <3>1, <2>4, SubSeqProperties
    <3>. QED
      BY <3>2, <1>0
  <2>7. PICK t : t = a \o b
    OBVIOUS
  <2>8. /\ t \in Seq(S) /\ Len(t) = Len(a) + Len(b)
        /\ \A k \in 1 .. Len(a) + Len(b) :
             t[k] = IF k <= Len(a) THEN a[k] ELSE b[k - Len(a)]
    BY <2>5, <2>6, <2>7, ConcatProperties, Zenon
  <2>9. RemoveFirst(s, e) = t
    BY <2>3, <2>4, <2>7 DEF RemoveAt
  <2>10. Len(t) = Len(s) - 1
    BY <2>5, <2>6, <2>8, <1>0
  <2>11. DOMAIN t = 1 .. Len(s) - 1
    BY <2>8, <2>10
  <2>12. ASSUME NEW k \in 1 .. Len(s) - 1
         PROVE  t[k] = IF k < p THEN s[k] ELSE s[k + 1]
    <3>1. CASE k < p
      <4>1. k \in 1 .. Len(a) + Len(b) /\ k <= Len(a) /\ k \in 1 .. p - 1
        BY <3>1, <2>5, <2>6, <1>0
      <4>. QED
        BY <4>1, <3>1, <2>5, <2>8
    <3>2. CASE ~(k < p)
      <4>1. /\ k \in 1 .. Len(a) + Len(b) /\ ~(k <= Len(a))
            /\ k - Len(a) \in 1 .. Len(s) - p /\ p + (k - Len(a)) = k + 1
        BY <3>2, <2>5, <2>6, <1>0
      <4>. QED
        BY <4>1, <3>2, <2>6, <2>8
    <3>. QED
      BY <3>1, <3>2
  <2>13. Distinct(t)
    <3>1. SUFFICES ASSUME NEW i \in 1 .. Len(s) - 1, NEW j \in 1 .. Len(s) - 1, t[i] = t[j]
                   PROVE  i = j
      BY <2>11 DEF Distinct
    <3>2. PICK x, y : /\ x = IF i < p THEN i ELSE i + 1
                      /\ y = IF j < p THEN j ELSE j + 1
      OBVIOUS
    <3>3. x \in DOMAIN s /\ y \in DOMAIN s /\ t[i] = s[x] /\ t[j] = s[y]
      BY <3>2, <2>12, <1>0
    <3>4. x = y
      BY <3>1, <3>3 DEF Distinct
    <3>. QED
      BY <3>2, <3>4, <1>0
  <2>14. ASSUME NEW r, Occurs(t, r) PROVE Occurs(s, r) /\ r # e
    <3>1. PICK k \in 1 .. Len(s) - 1 : t[k] = r
      BY <2>11, <2>14 DEF Occurs
    <3>2. PICK x : x = IF k < p THEN k ELSE k + 1
      OBVIOUS
    <3>3. x \in DOMAIN s /\ x # p /\ s[x] = r /\ p \in DOMAIN s
      BY <3>1, <3>2, <2>12, <1>0
    <3>. QED
      BY <3>3, <2>3 DEF Occurs, Distinct
  <2>15. ASSUME NEW r, Occurs(s, r), r # e PROVE Occurs(t, r)
    <3>1. PICK x \in 1 .. Len(s) : s[x] = r
      BY <2>15, <1>0 DEF Occurs
    <3>2. x # p
      BY <3>1, <2>3, <2>15
    <3>3. PICK k : k = IF x < p THEN x ELSE x - 1
      OBVIOUS
    <3>4. k \in 1 .. Len(s) - 1 /\ (IF k < p THEN k ELSE k + 1) = x
      BY <3>1, <3>2, <3>3, <1>0
    <3>5. t[k] = s[x]
      <4>1. CASE k < p
        BY <4>1, <3>4, <2>12
      <4>2. CASE ~(k < p)
        BY <4>2, <3>4, <2>12
      <4>. QED
        BY <4>1, <4>2
    <3>. QED
      BY <3>1, <3>4, <3>5, <2>11 DEF Occurs
  <2>. QED
    BY <2>8, <2>9, <2>13, <2>14, <2>15
<1>. QED
  BY <1>1, <1>2

-----------------------------------------------------------------------------
Taking == {"dispatch", "reauth", "exec"}
Taken(m) == pc \in Taking /\ cur = m

\* Where main is when no program can have a packet in the port.
NoPackets == {"startup", "exit", "unmount", "closerexx", "freerexx", "stopped", "wild"}

PortInv ==
    /\ port \in Seq(Programs \cup {"timer"}) /\ Distinct(port)
    /\ Occurs(port, "timer") <=> timer = "port"
    /\ Taken("timer") => timer = "taken"
    /\ pc \in Taking => cur \in Senders

\* Who waits for an answer has its message in a port or is served.
OwedInv ==
    /\ owed \in [Senders -> {0, 1}] /\ rexx \in {0, 1} /\ owed["timer"] = 0
    /\ \A r \in Programs : /\ owed[r] = 1 <=> Occurs(port, r) \/ Taken(r)
                           /\ ~(Occurs(port, r) /\ Taken(r))
    /\ owed["rexx"] = 1 <=> rexx = 1 \/ Taken("rexx")
    /\ ~(rexx = 1 /\ Taken("rexx"))
    /\ pc \in NoPackets => \A r \in Programs : ~Occurs(port, r)
    /\ "rexx" \notin held => rexx = 0

\* The function of a packet type in the action table.
FuncFor(action, f) ==
    LET found == {i \in DOMAIN ActionTable : ActionTable[i][1] = action}
    IN  IF found = {} THEN f = "none"
        ELSE \A i \in found :
                f \in {ActionTable[i][2]}
                      \cup (IF ActionTable[i][2] \in WriteFlag
                            THEN {"IS_WRITE_PROTECTED"} ELSE {})

\* The function of the message that is served.
FuncInv ==
    /\ pc \in {"reauth", "exec"} =>
         /\ msg \in Content(cur) /\ FuncFor(msg.action, func)
         /\ cur \notin Programs => KeepsCreds(func)
    /\ pc = "reauth" => ~KeepsCreds(func)
    /\ pc \notin {"reauth", "exec"} => msg = None

MsgInv == PortInv /\ OwedInv /\ FuncInv

LEMMA SenderFacts ==
    /\ "timer" \in Senders /\ "rexx" \in Senders /\ "timer" \notin Programs
    /\ "rexx" \notin Programs /\ \A p \in Programs : p \in Senders
BY HandlerAssumption DEF Senders

LEMMA MsgInit == Init => MsgInv
<1>. SUFFICES ASSUME Init PROVE MsgInv
  OBVIOUS
<1>1. /\ pc = "startup" /\ port = <<>> /\ timer = "none" /\ rexx = 0 /\ msg = None
      /\ owed = [p \in Senders |-> 0]
  BY DEF Init
<1>2. port \in Seq(Programs \cup {"timer"}) /\ Distinct(port) /\ \A r : ~Occurs(port, r)
  BY <1>1 DEF Distinct, Occurs
<1>3. PortInv
  BY <1>1, <1>2 DEF PortInv, Taken, Taking
<1>4. OwedInv
  BY <1>1, <1>2, SenderFacts DEF OwedInv, Taken, Taking
<1>5. FuncInv
  BY <1>1 DEF FuncInv
<1>. QED
  BY <1>3, <1>4, <1>5 DEF MsgInv

\* Steps that concern no message.
LEMMA SameMsg ==
    ASSUME MsgInv, UNCHANGED <<pc, held, timer, port, rexx, owed, now>>
    PROVE  MsgInv'
<1>1. PortInv'
  BY DEF MsgInv, PortInv, Taken, now
<1>2. OwedInv'
  BY DEF MsgInv, OwedInv, Taken, now
<1>3. FuncInv'
  BY DEF MsgInv, FuncInv, now, KeepsCreds, FuncFor
<1>. QED
  BY <1>1, <1>2, <1>3 DEF MsgInv

\* Steps of main between two messages.
LEMMA QuietMsg ==
    ASSUME MsgInv, UNCHANGED <<port, rexx, owed>>, msg' = None,
           timer' = timer \/ {timer, timer'} \subseteq {"none", "device"},
           pc \notin Taking, pc' \notin Taking,
           pc' \in NoPackets => pc \in NoPackets,
           rexx # 0 /\ "rexx" \in held => "rexx" \in held'
    PROVE  MsgInv'
<1>1. \A m : ~Taken(m) /\ ~Taken(m)'
  BY DEF Taken
<1>2. PortInv'
  BY <1>1 DEF MsgInv, PortInv
<1>3. OwedInv'
  BY <1>1 DEF MsgInv, OwedInv
<1>4. FuncInv'
  BY DEF FuncInv, Taking
<1>. QED
  BY <1>2, <1>3, <1>4 DEF MsgInv

LEMMA GetMsgMsg ==
    ASSUME MsgInv, port # <<>>, GetMsg, UNCHANGED <<owed, held, msg>>, pc \notin Taking
    PROVE  MsgInv'
<1>1. PICK h : h = Head(port)
  OBVIOUS
<1>2. /\ cur' = h /\ pc' = "dispatch" /\ port' = Tail(port) /\ rexx' = rexx
      /\ timer' = IF h = "timer" THEN "taken" ELSE timer
  BY <1>1 DEF GetMsg, Handle
<1>3. port \in Seq(Programs \cup {"timer"}) /\ Distinct(port)
  BY DEF MsgInv, PortInv
<1>4. /\ port' \in Seq(Programs \cup {"timer"}) /\ Distinct(port')
      /\ h \in Programs \cup {"timer"} /\ Occurs(port, h)
      /\ \A r : Occurs(port', r) <=> Occurs(port, r) /\ r # h
  BY <1>1, <1>2, <1>3, TakeMessage
<1>5. \A m : ~Taken(m) /\ (Taken(m)' <=> m = h)
  BY <1>2 DEF Taken, Taking
<1>6. (Distinct(port)' <=> Distinct(port')) /\ \A r : Occurs(port, r)' <=> Occurs(port', r)
  BY DEF Distinct, Occurs
<1>7. PortInv'
  BY <1>2, <1>4, <1>5, <1>6 DEF MsgInv, PortInv, Senders
<1>8. OwedInv'
  <2>1. pc' \notin NoPackets /\ h # "rexx"
    BY <1>2, <1>4, SenderFacts DEF NoPackets
  <2>2. ASSUME NEW r \in Programs
        PROVE  /\ owed'[r] = 1 <=> Occurs(port, r)' \/ Taken(r)'
               /\ ~(Occurs(port, r)' /\ Taken(r)')
    BY <1>4, <1>5, <1>6 DEF MsgInv, OwedInv
  <2>. QED
    BY <2>1, <2>2, <1>2, <1>5 DEF MsgInv, OwedInv
<1>9. FuncInv'
  BY <1>2 DEF MsgInv, FuncInv, Taking
<1>. QED
  BY <1>7, <1>8, <1>9 DEF MsgInv

LEMMA GetARexxMsgMsg ==
    ASSUME MsgInv, rexx > 0, GetARexxMsg, UNCHANGED <<owed, held, msg>>, pc \notin Taking
    PROVE  MsgInv'
<1>1. /\ cur' = "rexx" /\ pc' = "dispatch" /\ port' = port /\ rexx' = rexx - 1
      /\ timer' = timer
  BY DEF GetARexxMsg, Handle
<1>2. rexx = 1 /\ rexx' = 0
  BY <1>1 DEF MsgInv, OwedInv
<1>3. \A m : ~Taken(m) /\ (Taken(m)' <=> m = "rexx")
  BY <1>1 DEF Taken, Taking
<1>4. PortInv'
  BY <1>1, <1>3, SenderFacts DEF MsgInv, PortInv
<1>5. OwedInv'
  BY <1>1, <1>2, <1>3, SenderFacts DEF MsgInv, OwedInv, NoPackets
<1>6. FuncInv'
  BY <1>1 DEF MsgInv, FuncInv, Taking
<1>. QED
  BY <1>4, <1>5, <1>6 DEF MsgInv

LEMMA WaitMsg ==
    ASSUME MsgInv, G_WaitPkt
    PROVE  MsgInv'
<1>1. pc \in {"getmsg", "getrexx", "wait"} /\ UNCHANGED <<held, owed, msg>>
  BY DEF G_WaitPkt, LookForPkt, LookForCommand, Wait
<1>2. pc \notin Taking /\ msg = None
  BY <1>1 DEF Taking, MsgInv, FuncInv
<1>3. CASE port # <<>> /\ GetMsg
  BY <1>1, <1>2, <1>3, GetMsgMsg
<1>4. CASE rexx > 0 /\ GetARexxMsg
  BY <1>1, <1>2, <1>4, GetARexxMsgMsg
<1>5. ASSUME NEW n \in {"getmsg", "getrexx", "wait", "break"}, NothingFound(n)
      PROVE  MsgInv'
  <2>1. UNCHANGED <<port, rexx, timer>> /\ pc' = n
    BY <1>5 DEF NothingFound
  <2>. QED
    BY <2>1, <1>1, <1>2, QuietMsg DEF Taking, NoPackets
<1>. QED
  BY <1>3, <1>4, <1>5 DEF G_WaitPkt, LookForPkt, LookForCommand, Wait

LEMMA ContentFacts ==
    /\ \A m \in Content("timer") : m.action = TIMER
    /\ \A m \in Content("rexx") : m.action = IOCONTROL
    /\ \A p \in Programs : Content(p) = [action : Actions, text : {None}]
<1>1. Content("timer") = [action : {TIMER}, text : {None}]
  BY DEF Content
<1>2. Content("rexx") = [action : {IOCONTROL}, text : Commands]
  BY DEF Content
<1>3. ASSUME NEW p \in Programs PROVE Content(p) = [action : Actions, text : {None}]
  <2>1. p # "timer" /\ p # "rexx"
    BY SenderFacts
  <2>. QED
    BY <2>1 DEF Content
<1>4. ASSUME NEW m \in Content("timer") PROVE m.action = TIMER
  <2>1. m \in [action : {TIMER}, text : {None}]
    BY <1>1
  <2>2. m.action \in {TIMER}
    BY <2>1
  <2>. QED
    BY <2>2
<1>5. ASSUME NEW m \in Content("rexx") PROVE m.action = IOCONTROL
  <2>1. m \in [action : {IOCONTROL}, text : Commands]
    BY <1>2
  <2>2. m.action \in {IOCONTROL}
    BY <2>1
  <2>. QED
    BY <2>2
<1>. QED
  BY <1>3, <1>4, <1>5

\* The handler's own packets keep the credentials.
LEMMA InternalPackets ==
    ASSUME act_Init
    PROVE  /\ \A m \in Content("timer") : act_Prepare(m) = "TIMER"
           /\ \A m \in Content("rexx") : act_Prepare(m) = "IOCONTROL"
<1>1. Len(ActionTable) = 67 /\ ActionTable[26] = <<30, "TIMER">>
      /\ ActionTable[34] = <<142, "IOCONTROL">>
  BY DEF ActionTable
<1>2. act_Lookup(ActionTable[26][1]) = ActionTable[26][2]
  <2>1. 26 \in 1 .. Len(ActionTable)
    BY <1>1
  <2>. QED
    BY <2>1, LookupFinds
<1>3. act_Lookup(ActionTable[34][1]) = ActionTable[34][2]
  <2>1. 34 \in 1 .. Len(ActionTable)
    BY <1>1
  <2>. QED
    BY <2>1, LookupFinds
<1>4. act_Lookup(TIMER) = "TIMER" /\ act_Lookup(IOCONTROL) = "IOCONTROL"
  <2>1. ActionTable[26][1] = TIMER /\ ActionTable[26][2] = "TIMER"
    BY <1>1 DEF TIMER
  <2>2. ActionTable[34][1] = IOCONTROL /\ ActionTable[34][2] = "IOCONTROL"
    BY <1>1 DEF IOCONTROL
  <2>. QED
    BY <2>1, <2>2, <1>2, <1>3
<1>5. "TIMER" \notin WriteFlag /\ "IOCONTROL" \notin WriteFlag
  BY DEF WriteFlag
<1>. QED
  BY <1>4, <1>5, ContentFacts DEF act_Prepare

\* act_Prepare finds what the action table has.
LEMMA PrepareExact ==
    ASSUME act_Init, NEW m, m.action \in Nat
    PROVE  FuncFor(m.action, act_Prepare(m))
<1>1. PICK f : f = act_Prepare(m)
  OBVIOUS
<1>2. f = IF protected /\ act_Lookup(m.action) \in WriteFlag THEN "IS_WRITE_PROTECTED"
          ELSE act_Lookup(m.action)
  BY <1>1 DEF act_Prepare
<1>3. DOMAIN ActionTable = 1 .. Len(ActionTable)
  BY TableType
<1>4. CASE \A i \in DOMAIN ActionTable : ActionTable[i][1] # m.action
  <2>1. act_Lookup(m.action) = "none"
    BY <1>3, <1>4, LookupMisses
  <2>2. f = "none"
    BY <2>1, <1>2 DEF WriteFlag
  <2>. QED
    BY <2>2, <1>1, <1>4 DEF FuncFor
<1>5. ASSUME NEW i \in DOMAIN ActionTable, ActionTable[i][1] = m.action
      PROVE  f \in {ActionTable[i][2]}
                   \cup (IF ActionTable[i][2] \in WriteFlag
                         THEN {"IS_WRITE_PROTECTED"} ELSE {})
  <2>1. act_Lookup(m.action) = ActionTable[i][2]
    BY <1>3, <1>5, LookupFinds
  <2>. QED
    BY <2>1, <1>2
<1>. QED
  BY <1>1, <1>4, <1>5 DEF FuncFor

LEMMA DispatchMsg ==
    ASSUME HeldInv, MsgInv, Dispatch
    PROVE  MsgInv'
<1>1. /\ pc = "dispatch" /\ pc' \in {"reauth", "exec"}
      /\ UNCHANGED <<held, timer, port, rexx, owed, cur>>
      /\ msg' \in Content(cur) /\ func' = act_Prepare(msg')
      /\ pc' = "reauth" => ~KeepsCreds(func')
  BY DEF Dispatch, input
<1>2. act_Init
  BY <1>1 DEF HeldInv, Loop
<1>3. cur \in Senders
  BY <1>1 DEF MsgInv, PortInv, Taking
<1>4. \A m : Taken(m)' <=> Taken(m)
  BY <1>1 DEF Taken, Taking
<1>5. PortInv'
  BY <1>1, <1>3, <1>4 DEF MsgInv, PortInv
<1>6. OwedInv'
  BY <1>1, <1>4 DEF MsgInv, OwedInv, NoPackets
<1>7. msg'.action \in Nat
  <2>1. CASE cur \in Programs
    <3>1. msg' \in [action : Actions, text : {None}]
      BY <2>1, <1>1, ContentFacts
    <3>2. msg'.action \in Actions
      BY <3>1
    <3>. QED
      BY <3>2, HandlerAssumption
  <2>2. CASE cur \in {"timer", "rexx"}
    BY <2>2, <1>1, ContentFacts DEF TIMER, IOCONTROL
  <2>. QED
    BY <2>1, <2>2, <1>3 DEF Senders
<1>8. FuncFor(msg'.action, func')
  BY <1>1, <1>2, <1>7, PrepareExact
<1>9. cur \notin Programs => KeepsCreds(func')
  BY <1>1, <1>2, <1>3, InternalPackets DEF Senders, KeepsCreds
<1>10. (KeepsCreds(func)' <=> KeepsCreds(func'))
       /\ (FuncFor(msg.action, func)' <=> FuncFor(msg'.action, func'))
       /\ Content(cur)' = Content(cur')
  BY DEF KeepsCreds, FuncFor, Content
<1>11. FuncInv'
  BY <1>1, <1>8, <1>9, <1>10 DEF FuncInv
<1>. QED
  BY <1>5, <1>6, <1>11 DEF MsgInv

\* A message is answered.
LEMMA ReplyMsg ==
    ASSUME MsgInv, pc \in Taking, cur \in Programs \cup {"rexx"}, G_ReplyPkt(cur), Done,
           pc' \notin Taking \cup NoPackets, UNCHANGED <<timer, port, rexx, held>>
    PROVE  MsgInv'
<1>1. \A m : (Taken(m) <=> cur = m) /\ ~Taken(m)'
  BY DEF Taken
<1>2. PortInv'
  BY <1>1 DEF MsgInv, PortInv
<1>3. cur \in Senders /\ owed \in [Senders -> {0, 1}] /\ owed[cur] = 1
  BY <1>1, SenderFacts DEF MsgInv, OwedInv
<1>4. owed' = [owed EXCEPT ![cur] = owed[cur] - 1]
  BY DEF G_ReplyPkt
<1>5. /\ owed' \in [Senders -> {0, 1}] /\ owed'[cur] = 0
      /\ \A m \in Senders : m # cur => owed'[m] = owed[m]
  BY <1>3, <1>4
<1>6. cur # "timer"
  BY SenderFacts
<1>7. OwedInv'
  <2>1. ASSUME NEW r \in Programs
        PROVE  /\ owed'[r] = 1 <=> Occurs(port, r)' \/ Taken(r)'
               /\ ~(Occurs(port, r)' /\ Taken(r)')
    BY <1>1, <1>5, SenderFacts DEF MsgInv, OwedInv
  <2>2. owed'["timer"] = 0
    BY <1>5, <1>6, SenderFacts DEF MsgInv, OwedInv
  <2>3. (owed'["rexx"] = 1 <=> rexx' = 1 \/ Taken("rexx")') /\ ~(rexx' = 1 /\ Taken("rexx")')
    BY <1>1, <1>5, SenderFacts DEF MsgInv, OwedInv
  <2>. QED
    BY <2>1, <2>2, <2>3, <1>5 DEF MsgInv, OwedInv
<1>8. FuncInv'
  BY DEF Done, FuncInv, Taking
<1>. QED
  BY <1>2, <1>7, <1>8 DEF MsgInv

LEMMA LoopMsg ==
    ASSUME HeldInv, MsgInv,
           Reauthenticate \/ Exec \/ act_DIE \/ IgnoreBreak \/ act_TIMER \/ act_IOCONTROL
    PROVE  MsgInv'
<1>0. \A n \in {"getmsg", "cleanup"} : n \notin Taking \cup NoPackets
  BY DEF Taking, NoPackets
<1>1. CASE Reauthenticate
  <2>1. pc = "reauth" /\ UNCHANGED <<timer, port, rexx, held>>
    BY <1>1 DEF Reauthenticate
  <2>2. cur \in Programs
    BY <2>1 DEF MsgInv, FuncInv
  <2>3. CASE pc' = "exec" /\ UNCHANGED <<owed, now>>
    <3>1. \A m : Taken(m)' <=> Taken(m)
      BY <2>1, <2>3 DEF Taken, Taking, now
    <3>2. PortInv'
      BY <3>1, <2>1, <2>2, <2>3, SenderFacts DEF MsgInv, PortInv, now
    <3>3. OwedInv'
      BY <3>1, <2>1, <2>3 DEF MsgInv, OwedInv, NoPackets
    <3>4. FuncInv'
      BY <2>1, <2>3 DEF MsgInv, FuncInv, now, KeepsCreds, FuncFor
    <3>. QED
      BY <3>2, <3>3, <3>4 DEF MsgInv
  <2>4. CASE G_ReplyPkt(cur) /\ pc' = "getmsg" /\ Done
    BY <2>1, <2>2, <2>4, <1>0, ReplyMsg DEF Taking
  <2>. QED
    BY <2>3, <2>4, <1>1 DEF Reauthenticate
<1>2. CASE Exec
  <2>1. /\ pc = "exec" /\ cur # "rexx" /\ cur # "timer" /\ G_ReplyPkt(cur) /\ Done
        /\ pc' = "getmsg" /\ UNCHANGED <<timer, port, rexx, held>>
    BY <1>2 DEF Exec, IsCommand
  <2>2. pc \in Taking /\ cur \in Programs
    BY <2>1 DEF MsgInv, PortInv, Taking, Senders
  <2>. QED
    BY <2>1, <2>2, <1>0, ReplyMsg
<1>3. CASE act_DIE /\ pc = "exec" /\ func = "DIE"
  <2>1. /\ G_ReplyPkt(cur) /\ Done /\ pc' = "cleanup"
        /\ UNCHANGED <<timer, port, rexx, held>>
    BY <1>3 DEF act_DIE
  <2>2. pc \in Taking /\ cur \in Programs
    BY <1>3 DEF MsgInv, FuncInv, Taking, KeepsCreds
  <2>. QED
    BY <2>1, <2>2, <1>0, ReplyMsg
<1>4. CASE act_DIE /\ pc = "break"
  <2>1. /\ pc' = "cleanup" /\ msg' = None /\ UNCHANGED <<timer, port, rexx, held, owed>>
    BY <1>4 DEF act_DIE, Done
  <2>. QED
    BY <2>1, <1>4, <1>0, QuietMsg DEF Taking
<1>5. CASE IgnoreBreak
  <2>1. /\ pc = "break" /\ pc' = "getmsg" /\ msg' = msg
        /\ UNCHANGED <<timer, port, rexx, held, owed>>
    BY <1>5 DEF IgnoreBreak, input, now
  <2>2. msg = None
    BY <2>1 DEF MsgInv, FuncInv
  <2>. QED
    BY <2>1, <2>2, <1>0, QuietMsg DEF Taking
<1>6. CASE act_TIMER
  <2>1. /\ pc = "exec" /\ cur = "timer" /\ timer' = "device" /\ pc' = "getmsg" /\ msg' = None
        /\ UNCHANGED <<port, rexx, held, owed>>
    BY <1>6 DEF act_TIMER, ti_StartTimer, Done
  <2>2. \A m : (Taken(m) <=> m = "timer") /\ ~Taken(m)'
    BY <2>1 DEF Taken, Taking
  <2>3. timer = "taken"
    BY <2>2 DEF MsgInv, PortInv
  <2>4. PortInv'
    BY <2>1, <2>2, <2>3 DEF MsgInv, PortInv, Taking
  <2>5. OwedInv'
    BY <2>1, <2>2, SenderFacts DEF MsgInv, OwedInv, NoPackets
  <2>6. FuncInv'
    BY <2>1 DEF FuncInv
  <2>. QED
    BY <2>4, <2>5, <2>6 DEF MsgInv
<1>7. CASE act_IOCONTROL
  <2>1. /\ pc = "exec" /\ cur = "rexx" /\ G_ReplyPkt(cur) /\ Done
        /\ pc' = "getmsg" /\ UNCHANGED <<timer, port, rexx, held>>
    BY <1>7 DEF act_IOCONTROL, IsCommand, ReplyARexxMsg
  <2>. QED
    BY <2>1, <1>0, ReplyMsg DEF Taking
<1>. QED
  BY <1>1, <1>2, <1>3, <1>4, <1>5, <1>6, <1>7 DEF act_DIE

LEMMA StartupMsg ==
    ASSUME HeldInv, MsgInv, StartupStep
    PROVE  MsgInv'
<1>1. pc = "startup" /\ UNCHANGED <<port, rexx, owed, now>>
  BY DEF StartupStep
<1>2. msg' = None
  BY <1>1 DEF now, MsgInv, FuncInv
<1>3. pc' \in {"startup", "getmsg", "stopped", "exit", "wild"}
  BY DEF StartupStep, ParseArgs, EarlyExit, StepSucceeds, NextStep, StepFails
<1>4. pc \notin Taking /\ pc' \notin Taking /\ pc \in NoPackets
  BY <1>1, <1>3 DEF Taking, NoPackets
<1>5. CASE ParseArgs
  <2>1. step = 1 /\ timer' = timer /\ held = {}
    BY <1>1, <1>5, StepNames DEF ParseArgs, HeldInv
  <2>. QED
    BY <2>1, <1>1, <1>2, <1>4, QuietMsg
<1>6. CASE Startup[step] # "strings" /\ StepSucceeds(Startup[step])
  <2>1. timer' = timer \/ (timer' = "device" /\ step = 7)
    BY <1>6, StepNames DEF StepSucceeds, HeldInv
  <2>2. timer' = timer \/ (timer' = "device" /\ timer = "none")
    BY <2>1, <1>1 DEF HeldInv
  <2>3. held \subseteq held'
    BY <1>6 DEF StepSucceeds
  <2>. QED
    BY <2>2, <2>3, <1>1, <1>2, <1>4, QuietMsg
<1>7. CASE StepFails(Startup[step])
  <2>1. held \subseteq held' /\ timer' = timer
    BY <1>7 DEF StepFails
  <2>. QED
    BY <2>1, <1>1, <1>2, <1>4, QuietMsg
<1>. QED
  BY <1>5, <1>6, <1>7 DEF StartupStep

\* ti_Cleanup takes the timer's message from the port.
LEMMA CleanupMsg ==
    ASSUME HeldInv, MsgInv, ti_Cleanup, UNCHANGED <<rexx, owed>>, msg' = None,
           pc \notin Taking, pc' \notin Taking, pc' \in NoPackets => pc \in NoPackets
    PROVE  MsgInv'
<1>1. \A m : ~Taken(m) /\ ~Taken(m)'
  BY DEF Taken
<1>2. port \in Seq(Programs \cup {"timer"}) /\ Distinct(port)
  BY DEF MsgInv, PortInv
<1>3. "rexx" \in held' <=> "rexx" \in held
  BY DEF ti_Cleanup, WithoutTimer, TimerParts
<1>4. /\ port' \in Seq(Programs \cup {"timer"}) /\ Distinct(port')
      /\ Occurs(port', "timer") <=> timer' = "port"
      /\ \A r \in Programs : Occurs(port', r) <=> Occurs(port, r)
  <2>1. CASE "timer" \in held
    <3>1. port' = RemoveFirst(port, "timer") /\ timer' = "none"
      BY <2>1 DEF ti_Cleanup
    <3>2. /\ port' \in Seq(Programs \cup {"timer"}) /\ Distinct(port')
          /\ \A r : Occurs(port', r) <=> Occurs(port, r) /\ r # "timer"
      BY <3>1, <1>2, RemoveMessage
    <3>. QED
      BY <3>1, <3>2, SenderFacts
  <2>2. CASE "timer" \notin held
    <3>1. port' = port /\ timer' = timer
      BY <2>2 DEF ti_Cleanup
    <3>. QED
      BY <3>1, <1>2 DEF MsgInv, PortInv
  <2>. QED
    BY <2>1, <2>2
<1>5. (Distinct(port)' <=> Distinct(port')) /\ \A r : Occurs(port, r)' <=> Occurs(port', r)
  BY DEF Distinct, Occurs
<1>6. PortInv'
  BY <1>1, <1>4, <1>5 DEF PortInv
<1>7. OwedInv'
  BY <1>1, <1>3, <1>4, <1>5 DEF MsgInv, OwedInv
<1>8. FuncInv'
  BY DEF FuncInv, Taking
<1>. QED
  BY <1>6, <1>7, <1>8 DEF MsgInv

LEMMA DrainMsg ==
    ASSUME HeldInv, MsgInv, DrainPort, msg' = None
    PROVE  MsgInv'
<1>1. /\ pc = "drain" /\ pc' = "exit" /\ port' = <<>>
      /\ owed' = [p \in DOMAIN owed |-> owed[p] - G_GetPkts(p)]
      /\ UNCHANGED <<held, timer, rexx>>
  BY DEF DrainPort
<1>2. \A m : ~Taken(m) /\ ~Taken(m)'
  BY <1>1 DEF Taken, Taking
<1>3. timer = "none"
  BY <1>1 DEF HeldInv
<1>4. port \in Seq(Programs \cup {"timer"}) /\ Distinct(port) /\ ~Occurs(port, "timer")
  BY <1>3 DEF MsgInv, PortInv
<1>5. ~Occurs(port, "rexx")
  <2>1. \A i \in DOMAIN port : port[i] \in Programs \cup {"timer"}
    BY <1>4
  <2>. QED
    BY <2>1, SenderFacts DEF Occurs
<1>6. ASSUME NEW m, ~Occurs(port, m) PROVE G_GetPkts(m) = 0
  <2>1. {i \in DOMAIN port : port[i] = m} = {}
    BY <1>6 DEF Occurs
  <2>. QED
    BY <2>1, FS_EmptySet DEF G_GetPkts
<1>7. ASSUME NEW m, Occurs(port, m) PROVE G_GetPkts(m) = 1
  <2>1. PICK k \in DOMAIN port : port[k] = m
    BY <1>7 DEF Occurs
  <2>2. {i \in DOMAIN port : port[i] = m} = {k}
    BY <2>1, <1>4 DEF Distinct
  <2>. QED
    BY <2>2, FS_Singleton DEF G_GetPkts
<1>8. owed \in [Senders -> {0, 1}] /\ owed["timer"] = 0
  BY DEF MsgInv, OwedInv
<1>9. \A m \in Senders : owed'[m] = owed[m] - G_GetPkts(m)
  BY <1>1, <1>8
<1>10. \A p \in Programs : owed'[p] = 0
  <2>1. ASSUME NEW p \in Programs PROVE owed'[p] = 0
    <3>1. owed[p] = 1 <=> Occurs(port, p)
      BY <1>2 DEF MsgInv, OwedInv
    <3>2. p \in Senders /\ owed[p] \in {0, 1}
      BY <1>8, SenderFacts
    <3>3. CASE Occurs(port, p)
      BY <3>1, <3>2, <3>3, <1>7, <1>9
    <3>4. CASE ~Occurs(port, p)
      BY <3>1, <3>2, <3>4, <1>6, <1>9
    <3>. QED
      BY <3>3, <3>4
  <2>. QED
    BY <2>1
<1>11. owed'["timer"] = 0 /\ owed'["rexx"] = owed["rexx"]
  <2>1. G_GetPkts("timer") = 0 /\ G_GetPkts("rexx") = 0
    BY <1>4, <1>5, <1>6
  <2>2. owed["rexx"] \in {0, 1} /\ "timer" \in Senders /\ "rexx" \in Senders
    BY <1>8, SenderFacts
  <2>. QED
    BY <2>1, <2>2, <1>8, <1>9
<1>12. owed' \in [Senders -> {0, 1}]
  <2>1. \A m \in Senders : owed'[m] \in {0, 1}
    BY <1>8, <1>10, <1>11, SenderFacts DEF Senders
  <2>2. owed' = [m \in Senders |-> owed'[m]]
    BY <1>1, <1>8
  <2>. QED
    BY <2>1, <2>2
<1>13. /\ port' \in Seq(Programs \cup {"timer"}) /\ Distinct(port)'
       /\ \A r : ~Occurs(port, r)'
  BY <1>1 DEF Distinct, Occurs
<1>14. PortInv'
  BY <1>1, <1>2, <1>3, <1>13 DEF PortInv, Taking
<1>15. OwedInv'
  BY <1>1, <1>2, <1>10, <1>11, <1>12, <1>13 DEF MsgInv, OwedInv
<1>16. FuncInv'
  BY <1>1 DEF FuncInv
<1>. QED
  BY <1>14, <1>15, <1>16 DEF MsgInv

LEMMA ShutdownMsg ==
    ASSUME HeldInv, MsgInv, Shutdown
    PROVE  MsgInv'
<1>1. pc \in {"cleanup", "remove", "drain", "exit", "unmount", "closerexx", "freerexx"}
  BY DEF Shutdown, StopTimer, RemDosEntry, DrainPort, RemoveTimer, G_UnMount, G_CleanUp,
         HidePort, AnswerDead, FreeRest
<1>2. pc \notin Taking /\ msg' = None
  BY <1>1 DEF Shutdown, now, MsgInv, FuncInv, Taking
<1>3. CASE StopTimer
  <2>1. ti_Cleanup /\ pc' = "remove" /\ UNCHANGED <<rexx, owed>>
    BY <1>3 DEF StopTimer
  <2>. QED
    BY <2>1, <1>2, CleanupMsg DEF Taking, NoPackets
<1>4. CASE RemDosEntry
  <2>1. held' = held \ {"inlist"} /\ pc' = "drain" /\ UNCHANGED <<timer, port, rexx, owed>>
    BY <1>4 DEF RemDosEntry
  <2>. QED
    BY <2>1, <1>2, QuietMsg DEF Taking, NoPackets
<1>5. CASE DrainPort
  BY <1>2, <1>5, DrainMsg
<1>6. CASE RemoveTimer
  <2>1. pc = "exit" /\ pc' = "unmount" /\ UNCHANGED <<rexx, owed>>
    BY <1>6 DEF RemoveTimer
  <2>2. CASE ti_Cleanup
    BY <2>1, <2>2, <1>2, CleanupMsg DEF Taking, NoPackets
  <2>3. CASE UNCHANGED <<held, timer, port>>
    BY <2>1, <2>3, <1>2, QuietMsg DEF Taking, NoPackets
  <2>. QED
    BY <2>2, <2>3, <1>6 DEF RemoveTimer
<1>7. CASE G_UnMount
  <2>1. pc = "unmount" /\ pc' = "closerexx" /\ UNCHANGED <<timer, port, rexx, owed>>
    BY <1>7 DEF G_UnMount
  <2>2. "rexx" \in held => "rexx" \in held'
    <3>1. ToSet(clntaudp_bufcreate) = {"cla_clnt", "mcu_data", "mcu_outbuf", "nfsclnt"}
      BY DEF ToSet, clntaudp_bufcreate
    <3>. QED
      BY <3>1, <1>7 DEF G_UnMount, clntaudp_destroy
  <2>. QED
    BY <2>1, <2>2, <1>2, QuietMsg DEF Taking, NoPackets
<1>8. CASE G_CleanUp /\ HidePort
  <2>1. pc = "closerexx" /\ pc' = "freerexx" /\ UNCHANGED <<held, timer, port, rexx, owed>>
    BY <1>8 DEF G_CleanUp, HidePort
  <2>. QED
    BY <2>1, <1>2, QuietMsg DEF Taking, NoPackets
<1>9. CASE G_CleanUp /\ FreeRest
  <2>1. pc = "freerexx" /\ pc' = "stopped" /\ rexx = 0 /\ UNCHANGED <<timer, port, rexx, owed>>
    BY <1>9 DEF G_CleanUp, FreeRest
  <2>. QED
    BY <2>1, <1>2, QuietMsg DEF Taking, NoPackets
<1>10. CASE G_CleanUp /\ AnswerDead
  <2>1. /\ pc = "freerexx" /\ rexx > 0 /\ rexx' = rexx - 1 /\ UNCHANGED <<pc, held, timer, port>>
        /\ owed' = [owed EXCEPT !["rexx"] = @ - 1]
    BY <1>10 DEF G_CleanUp, AnswerDead, ReplyARexxMsg, G_ReplyPkt
  <2>2. rexx = 1 /\ rexx' = 0 /\ owed \in [Senders -> {0, 1}] /\ owed["rexx"] = 1
    BY <2>1 DEF MsgInv, OwedInv
  <2>3. /\ owed' \in [Senders -> {0, 1}] /\ owed'["rexx"] = 0
        /\ \A m \in Senders : m # "rexx" => owed'[m] = owed[m]
    BY <2>1, <2>2, SenderFacts
  <2>4. \A m : ~Taken(m) /\ ~Taken(m)'
    BY <2>1, <1>2 DEF Taken
  <2>5. PortInv'
    BY <2>1, <2>4, <1>2 DEF MsgInv, PortInv
  <2>6. OwedInv'
    <3>1. "rexx" \in held
      BY <2>2 DEF MsgInv, OwedInv
    <3>2. \A p \in Programs : owed'[p] = owed[p]
      BY <2>3, SenderFacts
    <3>3. owed'["timer"] = 0
      BY <2>3, SenderFacts DEF MsgInv, OwedInv
    <3>. QED
      BY <3>1, <3>2, <3>3, <2>1, <2>2, <2>3, <2>4 DEF MsgInv, OwedInv
  <2>7. FuncInv'
    BY <2>1, <1>2 DEF FuncInv
  <2>. QED
    BY <2>5, <2>6, <2>7 DEF MsgInv
<1>. QED
  BY <1>3, <1>4, <1>5, <1>6, <1>7, <1>8, <1>9, <1>10 DEF Shutdown, G_CleanUp

\* A sender is added to those who wait.
LEMMA SendMsg ==
    ASSUME HeldInv, MsgInv, NEW p \in Programs, Send(p)
    PROVE  MsgInv'
<1>1. /\ pc \notin Taking /\ ("inlist" \in held \/ pc = "drain") /\ owed[p] = 0
      /\ port' = Append(port, p) /\ owed' = [owed EXCEPT ![p] = 1]
      /\ UNCHANGED <<pc, held, timer, rexx, cur, msg, func>>
  BY DEF Send, Busy, Taking, proc, now
<1>2. pc \notin NoPackets
  BY <1>1 DEF HeldInv, NoPackets
<1>3. \A m : ~Taken(m) /\ ~Taken(m)'
  BY <1>1 DEF Taken
<1>4. port \in Seq(Programs \cup {"timer"}) /\ Distinct(port) /\ ~Occurs(port, p)
  BY <1>1 DEF MsgInv, PortInv, OwedInv
<1>5. /\ port' \in Seq(Programs \cup {"timer"}) /\ Distinct(port')
      /\ \A r : Occurs(port', r) <=> Occurs(port, r) \/ r = p
  BY <1>1, <1>4, AppendMessage
<1>6. (Distinct(port)' <=> Distinct(port')) /\ \A r : Occurs(port, r)' <=> Occurs(port', r)
  BY DEF Distinct, Occurs
<1>7. owed \in [Senders -> {0, 1}] /\ p \in Senders
  BY SenderFacts DEF MsgInv, OwedInv
<1>8. /\ owed' \in [Senders -> {0, 1}] /\ owed'[p] = 1
      /\ \A m \in Senders : m # p => owed'[m] = owed[m]
  BY <1>1, <1>7
<1>9. PortInv'
  <2>1. p # "timer"
    BY SenderFacts
  <2>. QED
    BY <2>1, <1>1, <1>3, <1>5, <1>6 DEF MsgInv, PortInv
<1>10. OwedInv'
  <2>1. owed'["timer"] = 0 /\ owed'["rexx"] = owed["rexx"]
    BY <1>8, SenderFacts DEF MsgInv, OwedInv
  <2>2. ASSUME NEW r \in Programs PROVE owed'[r] = 1 <=> Occurs(port, r)'
    BY <1>3, <1>5, <1>6, <1>8, SenderFacts DEF MsgInv, OwedInv
  <2>. QED
    BY <2>1, <2>2, <1>1, <1>2, <1>3, <1>8 DEF MsgInv, OwedInv
<1>11. FuncInv'
  BY <1>1 DEF MsgInv, FuncInv, Taking
<1>. QED
  BY <1>9, <1>10, <1>11 DEF MsgInv

LEMMA SendCommandMsg ==
    ASSUME MsgInv, SendCommand
    PROVE  MsgInv'
<1>1. /\ pc \notin Taking /\ "rexx" \in held /\ owed["rexx"] = 0
      /\ rexx' = rexx + 1 /\ owed' = [owed EXCEPT !["rexx"] = 1]
      /\ UNCHANGED <<pc, held, timer, port, cur, msg, func>>
  BY DEF SendCommand, Busy, Taking, proc, now
<1>2. \A m : ~Taken(m) /\ ~Taken(m)'
  BY <1>1 DEF Taken
<1>3. rexx = 0 /\ rexx' = 1
  BY <1>1 DEF MsgInv, OwedInv
<1>4. owed \in [Senders -> {0, 1}] /\ "rexx" \in Senders
  BY SenderFacts DEF MsgInv, OwedInv
<1>5. /\ owed' \in [Senders -> {0, 1}] /\ owed'["rexx"] = 1
      /\ \A m \in Senders : m # "rexx" => owed'[m] = owed[m]
  BY <1>1, <1>4
<1>6. PortInv'
  BY <1>1, <1>2 DEF MsgInv, PortInv
<1>7. OwedInv'
  <2>1. owed'["timer"] = 0 /\ \A p \in Programs : owed'[p] = owed[p]
    BY <1>5, SenderFacts DEF MsgInv, OwedInv
  <2>. QED
    BY <2>1, <1>1, <1>2, <1>3, <1>5 DEF MsgInv, OwedInv
<1>8. FuncInv'
  BY <1>1 DEF MsgInv, FuncInv, Taking
<1>. QED
  BY <1>6, <1>7, <1>8 DEF MsgInv

LEMMA TimerFiresMsg ==
    ASSUME MsgInv, TimerFires
    PROVE  MsgInv'
<1>1. /\ timer = "device" /\ timer' = "port" /\ port' = Append(port, "timer")
      /\ UNCHANGED <<pc, held, rexx, owed, cur, msg, func>>
  BY DEF TimerFires, proc, now
<1>2. \A m : Taken(m)' <=> Taken(m)
  BY <1>1 DEF Taken
<1>3. port \in Seq(Programs \cup {"timer"}) /\ Distinct(port) /\ ~Occurs(port, "timer")
  BY <1>1 DEF MsgInv, PortInv
<1>4. /\ port' \in Seq(Programs \cup {"timer"}) /\ Distinct(port')
      /\ \A r : Occurs(port', r) <=> Occurs(port, r) \/ r = "timer"
  BY <1>1, <1>3, AppendMessage
<1>5. (Distinct(port)' <=> Distinct(port')) /\ \A r : Occurs(port, r)' <=> Occurs(port', r)
  BY DEF Distinct, Occurs
<1>6. \A r \in Programs : Occurs(port, r)' <=> Occurs(port, r)
  BY <1>4, <1>5, SenderFacts
<1>7. PortInv'
  BY <1>1, <1>2, <1>4, <1>5 DEF MsgInv, PortInv
<1>8. OwedInv'
  BY <1>1, <1>2, <1>6 DEF MsgInv, OwedInv
<1>9. FuncInv'
  BY <1>1 DEF MsgInv, FuncInv, KeepsCreds, FuncFor
<1>. QED
  BY <1>7, <1>8, <1>9 DEF MsgInv

LEMMA NextMsg ==
    ASSUME HeldInv, MsgInv, [Next]_vars
    PROVE  MsgInv'
<1>1. CASE StartupStep
  BY <1>1, StartupMsg
<1>2. CASE G_WaitPkt
  BY <1>2, WaitMsg
<1>3. CASE Dispatch
  BY <1>3, DispatchMsg
<1>4. CASE Reauthenticate \/ Exec \/ act_DIE \/ IgnoreBreak \/ act_TIMER \/ act_IOCONTROL
  BY <1>4, LoopMsg
<1>5. CASE Shutdown
  BY <1>5, ShutdownMsg
<1>6. CASE SendCommand
  BY <1>6, SendCommandMsg
<1>7. CASE TimerFires
  BY <1>7, TimerFiresMsg
<1>8. ASSUME NEW p \in Programs, Send(p) PROVE MsgInv'
  BY <1>8, SendMsg
<1>9. CASE CtrlC \/ (\E p \in Programs : ChangeCreds(p)) \/ UNCHANGED vars
  <2>1. UNCHANGED <<pc, held, timer, port, rexx, owed, now>>
    BY <1>9 DEF CtrlC, ChangeCreds, vars, proc, input
  <2>. QED
    BY <2>1, SameMsg
<1>. QED
  BY <1>1, <1>2, <1>3, <1>4, <1>5, <1>6, <1>7, <1>8, <1>9 DEF Next, HandlerStep, Environment

\* Wherever the startup fails and however the loop ends, everything that was
\* opened is given back (G_CleanUp, G_UnMount, ti_Cleanup) and every packet and
\* command has been answered, for any number of programs.
THEOREM HandlerEndsClean == Spec => []CleanEnd
<1>1. Init => HeldInv /\ MsgInv
  BY HeldInit, MsgInit
<1>2. HeldInv /\ MsgInv /\ [Next]_vars => (HeldInv /\ MsgInv)'
  BY NextHeld, NextMsg
<1>3. HeldInv /\ MsgInv => CleanEnd
  <2>. SUFFICES ASSUME HeldInv, MsgInv PROVE CleanEnd
    OBVIOUS
  <2>1. NothingLeft
    BY DEF HeldInv, NothingLeft
  <2>2. NobodyWaits
    <3>1. SUFFICES ASSUME pc = "stopped" PROVE \A m \in DOMAIN owed : owed[m] = 0
      BY DEF NobodyWaits
    <3>2. \A m : ~Taken(m)
      BY <3>1 DEF Taken, Taking
    <3>3. rexx = 0
      BY <3>1 DEF HeldInv, MsgInv, OwedInv
    <3>4. owed \in [Senders -> {0, 1}]
      BY DEF MsgInv, OwedInv
    <3>5. \A p \in Programs : owed[p] # 1
      BY <3>1, <3>2 DEF MsgInv, OwedInv, NoPackets
    <3>6. owed["timer"] = 0 /\ owed["rexx"] # 1
      BY <3>2, <3>3 DEF MsgInv, OwedInv
    <3>. QED
      BY <3>4, <3>5, <3>6 DEF Senders
  <2>. QED
    BY <2>1, <2>2 DEF CleanEnd
<1>. QED
  BY <1>1, <1>2, <1>3, PTL DEF Spec

-----------------------------------------------------------------------------
(***************************************************************************)
(* Everything a packet causes happens in its sender's name.                *)
(***************************************************************************)

LEMMA ControlCreds ==
    ASSUME CredInv, act_IOCONTROL
    PROVE  CredInv'
<1>1. /\ pc' = "getmsg" /\ step' = step /\ cl_auth' = cl_auth /\ wbuf' = wbuf
      /\ creds' = creds /\ masks' = masks
  BY DEF act_IOCONTROL, data, world
<1>2. /\ Fields(cr) /\ step \in 1 .. 19
      /\ cr.auth = cl_auth /\ (~reset /\ cr.auth # None => cr.auth = UserOf(cr))
      /\ cr.fixed => cr.umask = "set"
      /\ cr.user = None /\ cr.cache \in Programs => creds[cr.cache] # None
      /\ ~cr.fixed /\ cr.cacheU \in Programs => cr.umask \in masks[cr.cacheU]
      /\ ~reset => wbuf \subseteq {cl_auth}
  BY DEF CredInv, CredTypes, AuthInv, UMaskInv
<1>3. (Fields(cr)' <=> Fields(cr')) /\ UserOf(cr)' = UserOf(cr') /\ ~Serving'
  BY <1>1 DEF Fields, UserOf, Serving
<1>4. /\ reset' \in BOOLEAN /\ (~reset' => ~reset)
      /\ msg.text = "SET_USER" => reset'
  BY DEF act_IOCONTROL, CredInv, CredTypes
<1>5. None \notin Programs /\ UserUid # None
  BY HandlerAssumption
<1>6. ASSUME Fields(cr'), cr'.auth = cl_auth,
             ~reset' /\ cr'.auth # None => cr'.auth = UserOf(cr'),
             cr'.fixed => cr'.umask = "set",
             cr'.user = None /\ cr'.cache \in Programs => creds[cr'.cache] # None,
             ~cr'.fixed /\ cr'.cacheU \in Programs => cr'.umask \in masks[cr'.cacheU]
      PROVE  CredInv'
  <2>1. CredTypes'
    BY <1>1, <1>3, <1>4, <1>6 DEF CredInv, CredTypes
  <2>2. UMaskInv'
    BY <1>1, <1>3, <1>6 DEF CredInv, UMaskInv, MaskOf
  <2>3. AuthInv'
    BY <1>1, <1>2, <1>3, <1>4, <1>6 DEF AuthInv
  <2>. QED
    BY <2>1, <2>2, <2>3 DEF CredInv
<1>7. CASE msg.text = "SET_USER"
  <2>1. cr' = cr_SetUser(cr, UserUid)
    BY <1>7 DEF act_IOCONTROL
  <2>2. /\ Fields(cr') /\ cr'.user = UserUid /\ cr'.cache = None /\ cr'.fixed = cr.fixed
        /\ cr'.umask = cr.umask /\ cr'.auth = cr.auth /\ cr'.cacheU = cr.cacheU
    BY <2>1, <1>2, SetUserFacts
  <2>. QED
    BY <2>2, <1>2, <1>4, <1>5, <1>6, <1>7
<1>8. CASE msg.text = "SET_UMASK"
  <2>1. cr' = cr_SetUMask(cr)
    BY <1>8 DEF act_IOCONTROL
  <2>2. /\ Fields(cr') /\ cr'.user = cr.user /\ cr'.cache = cr.cache /\ cr'.fixed = TRUE
        /\ cr'.umask = "set" /\ cr'.auth = cr.auth /\ cr'.cacheU = None
        /\ cr'.uid = cr.uid
    BY <2>1, <1>2, SetUMaskFacts
  <2>3. UserOf(cr') = UserOf(cr)
    BY <2>2 DEF UserOf
  <2>. QED
    BY <2>2, <2>3, <1>2, <1>4, <1>5, <1>6
<1>9. CASE msg.text \notin {"SET_USER", "SET_UMASK"}
  <2>1. cr' = cr
    BY <1>9 DEF act_IOCONTROL
  <2>. QED
    BY <2>1, <1>2, <1>4, <1>6
<1>. QED
  BY <1>7, <1>8, <1>9

LEMMA ChangeCredsCreds ==
    ASSUME CredInv, NEW p \in Programs, ChangeCreds(p)
    PROVE  CredInv'
<1>1. /\ pc \notin {"reauth", "exec"}
      /\ UNCHANGED <<pc, step, cr, cl_auth, reset, wbuf, cur, func>>
      /\ creds' = [creds EXCEPT ![p] = NewCreds[p]]
      /\ masks' = [masks EXCEPT ![p] = masks[p] \cup {NewCreds[p].umask}]
  BY DEF ChangeCreds, Busy, proc, auth, data, now
<1>2. p \in Tasks /\ NewCreds[p] \in Credentials /\ NewCreds[p] # None
  BY HandlerAssumption DEF Tasks
<1>3. creds \in [Tasks -> Credentials] /\ masks \in [Programs -> SUBSET UMasks]
  BY DEF CredInv, CredTypes
<1>4. NewCreds[p].umask \in UMasks
  BY <1>2 DEF UMasks
<1>5. /\ creds' \in [Tasks -> Credentials] /\ creds'[p] = NewCreds[p]
      /\ \A t \in Tasks : t # p => creds'[t] = creds[t]
  BY <1>1, <1>2, <1>3
<1>6. /\ masks' \in [Programs -> SUBSET UMasks] /\ NewCreds[p].umask \in masks'[p]
      /\ \A r \in Programs : masks[r] \subseteq masks'[r]
  BY <1>1, <1>3, <1>4
<1>7. ~Serving' /\ \A r \in Programs : r \in Tasks
  BY <1>1 DEF Serving, Tasks
<1>8. CredTypes'
  BY <1>1, <1>5, <1>6 DEF CredInv, CredTypes, Fields
<1>9. UMaskInv'
  <2>1. ASSUME NEW r \in Programs PROVE MaskOf(r)' \in masks'[r]
    <3>1. CASE r = p
      BY <3>1, <1>2, <1>5, <1>6 DEF MaskOf
    <3>2. CASE r # p
      <4>1. MaskOf(r)' = MaskOf(r)
        BY <3>2, <1>5, <1>7 DEF MaskOf
      <4>. QED
        BY <4>1, <1>6 DEF CredInv, UMaskInv
    <3>. QED
      BY <3>1, <3>2
  <2>. QED
    BY <2>1, <1>1, <1>6, <1>7 DEF CredInv, UMaskInv
<1>10. AuthInv'
  <2>1. cr.user = None /\ cr.cache \in Programs => creds'[cr.cache] # None
    BY <1>2, <1>5, <1>7 DEF CredInv, AuthInv
  <2>2. UserOf(cr)' = UserOf(cr)
    BY <1>1 DEF UserOf
  <2>. QED
    BY <2>1, <2>2, <1>1, <1>7 DEF CredInv, AuthInv
<1>. QED
  BY <1>8, <1>9, <1>10 DEF CredInv

LEMMA NextCreds ==
    ASSUME CredInv, MsgInv, Next
    PROVE  CredInv' /\ ActsForSender'
<1>1. CASE StartupStep
  BY <1>1, StartupCreds, NothingDone DEF StartupStep
<1>2. CASE G_WaitPkt
  <2>1. UNCHANGED <<step, auth, world>> /\ wbuf' = wbuf /\ NoData
    BY <1>2 DEF G_WaitPkt, data
  <2>2. pc' \notin {"startup", "reauth", "exec"}
    BY <1>2 DEF G_WaitPkt, LookForPkt, LookForCommand, Wait, GetMsg, GetARexxMsg,
                NothingFound, Handle
  <2>. QED
    BY <2>1, <2>2, QuietCreds, NothingDone
<1>3. CASE Dispatch
  BY <1>3, DispatchCreds, NothingDone DEF Dispatch
<1>4. CASE Reauthenticate
  BY <1>4, ReauthCreds
<1>5. CASE Exec
  <2>1. cur \in Senders
    BY <1>5 DEF Exec, MsgInv, PortInv, Taking
  <2>. QED
    BY <2>1, <1>5, ExecCreds
<1>6. CASE act_DIE \/ act_TIMER
  <2>1. /\ UNCHANGED <<step, auth, world>> /\ act_FLUSH /\ made' = None
        /\ pc' \in {"cleanup", "getmsg"}
    BY <1>6 DEF act_DIE, act_TIMER
  <2>2. wbuf' = {} /\ reset' = reset
    BY <2>1 DEF act_FLUSH, auth
  <2>. QED
    BY <2>1, <2>2, QuietCreds, OnlyFlushed
<1>7. CASE IgnoreBreak
  <2>1. UNCHANGED <<step, auth, world>> /\ wbuf' = wbuf /\ NoData /\ pc' = "getmsg"
    BY <1>7 DEF IgnoreBreak, data
  <2>. QED
    BY <2>1, QuietCreds, NothingDone
<1>8. CASE act_IOCONTROL
  BY <1>8, ControlCreds, NothingDone DEF act_IOCONTROL
<1>9. CASE Shutdown
  <2>1. UNCHANGED <<step, auth, world>> /\ wbuf' = wbuf /\ NoData
    BY <1>9 DEF Shutdown, data
  <2>2. pc' \notin {"startup", "reauth", "exec"}
    BY <1>9 DEF Shutdown, StopTimer, RemDosEntry, DrainPort, RemoveTimer, G_UnMount,
                G_CleanUp, HidePort, AnswerDead, FreeRest
  <2>. QED
    BY <2>1, <2>2, QuietCreds, NothingDone
<1>10. CASE SendCommand \/ CtrlC \/ TimerFires \/ \E p \in Programs : Send(p)
  <2>1. UNCHANGED <<pc, step, auth, wbuf, world, cur, func>> /\ NoData
    BY <1>10 DEF SendCommand, CtrlC, TimerFires, Send, proc, data, now
  <2>. QED
    BY <2>1, SameCreds, NothingDone
<1>11. ASSUME NEW p \in Programs, ChangeCreds(p) PROVE CredInv' /\ ActsForSender'
  BY <1>11, ChangeCredsCreds, NothingDone DEF ChangeCreds
<1>. QED
  BY <1>1, <1>2, <1>3, <1>4, <1>5, <1>6, <1>7, <1>8, <1>9, <1>10, <1>11
     DEF Next, HandlerStep, Environment

\* However packets of programs, commands, changes of credentials and flushes
\* by the timer follow each other, written bytes carry the uid of the program
\* that wrote them (cr_UpdateAuth after act_FLUSH) and new objects a mask their
\* own program has had (cr_UpdateCreds).
THEOREM PacketsActForSender == Spec => []ActsForSender
<1>. DEFINE IInv == HeldInv /\ MsgInv /\ CredInv /\ ActsForSender
<1>1. Init => IInv
  <2>1. Init => ActsForSender
    BY DEF Init, ActsForSender, WrittenAsOwner, UMaskOwn
  <2>. QED
    BY <2>1, HeldInit, MsgInit, CredInit
<1>2. IInv /\ [Next]_vars => IInv'
  <2>1. ASSUME IInv, Next PROVE IInv'
    BY <2>1, NextHeld, NextMsg, NextCreds
  <2>2. ASSUME IInv, UNCHANGED vars PROVE IInv'
    <3>1. UNCHANGED <<pc, step, auth, wbuf, world, cur, func, sent, made, reset, cr, masks>>
      BY <2>2 DEF vars, proc, data, now, auth, world
    <3>2. CredInv'
      BY <3>1, <2>2, SameCreds
    <3>3. ActsForSender'
      BY <3>1, <2>2 DEF ActsForSender, WrittenAsOwner, UMaskOwn
    <3>. QED
      BY <3>2, <3>3, <2>2, NextHeld, NextMsg
  <2>. QED
    BY <2>1, <2>2
<1>3. IInv => ActsForSender
  OBVIOUS
<1>. QED
  BY <1>1, <1>2, <1>3, PTL DEF Spec

-----------------------------------------------------------------------------
(***************************************************************************)
(* Types, and the dispatch of packets.                                     *)
(***************************************************************************)

CrTypes(c) ==
    /\ c.user \in {None, UserUid} /\ c.fixed \in BOOLEAN /\ c.umask \in UMasks \cup {None}
    /\ c.uid \in Uids \cup {None} /\ c.auth \in Uids \cup {None}
    /\ c.cache \in Tasks \cup {None} /\ c.cacheU \in Tasks \cup {None}

LEMMA CredentialTypes ==
    ASSUME CredInv
    PROVE  /\ UserUid \in Uids /\ "set" \in UMasks /\ DefaultUMask \in UMasks
           /\ \A t \in Tasks : creds[t] # None =>
                creds[t].uid \in Uids /\ creds[t].umask \in UMasks
<1>1. \A t \in Tasks : creds[t] \in Credentials
  BY DEF CredInv, CredTypes
<1>. QED
  BY <1>1 DEF Uids, UMasks

LEMMA CrRecord ==
    ASSUME NEW c, Fields(c), CrTypes(c)
    PROVE  c \in [user : {None, UserUid}, fixed : BOOLEAN, umask : UMasks \cup {None},
                  uid : Uids \cup {None}, auth : Uids \cup {None},
                  cache : Tasks \cup {None}, cacheU : Tasks \cup {None}]
<1>1. c = [user |-> c.user, fixed |-> c.fixed, umask |-> c.umask, uid |-> c.uid,
           auth |-> c.auth, cache |-> c.cache, cacheU |-> c.cacheU]
  BY DEF Fields
<1>2. /\ c.user \in {None, UserUid} /\ c.fixed \in BOOLEAN /\ c.umask \in UMasks \cup {None}
      /\ c.uid \in Uids \cup {None} /\ c.auth \in Uids \cup {None}
      /\ c.cache \in Tasks \cup {None} /\ c.cacheU \in Tasks \cup {None}
  BY DEF CrTypes
<1>. QED
  BY <1>1, <1>2

LEMMA CrSteps ==
    ASSUME CredInv, NEW c, Fields(c), CrTypes(c), NEW t \in Tasks
    PROVE  /\ CrTypes(cr_SetUser(c, UserUid))
           /\ CrTypes(cr_SetUMask(c))
           /\ CrTypes(AfterCheck(c, t))
           /\ CrTypes(cr_UpdateCreds(c, t))
           /\ AuthUid(c, t) # None =>
                CrTypes(cr_SetAuth(c, t)) /\ cr_SetAuth(c, t).auth \in Uids
<1>1. /\ UserUid \in Uids /\ "set" \in UMasks /\ DefaultUMask \in UMasks
      /\ creds[t] # None => creds[t].uid \in Uids /\ creds[t].umask \in UMasks
  BY CredentialTypes
<1>2. CrTypes(cr_SetUser(c, UserUid))
  <2>1. PICK d : d = cr_SetUser(c, UserUid)
    OBVIOUS
  <2>2. /\ d.user = UserUid /\ d.uid = UserUid /\ d.cache = None /\ d.fixed = c.fixed
        /\ d.umask = c.umask /\ d.auth = c.auth /\ d.cacheU = c.cacheU
    BY <2>1, SetUserFacts
  <2>3. CrTypes(d)
    BY <2>2, <1>1 DEF CrTypes
  <2>. QED
    BY <2>1, <2>3
<1>3. CrTypes(cr_SetUMask(c))
  <2>1. PICK d : d = cr_SetUMask(c)
    OBVIOUS
  <2>2. /\ d.user = c.user /\ d.uid = c.uid /\ d.cache = c.cache /\ d.fixed = TRUE
        /\ d.umask = "set" /\ d.auth = c.auth /\ d.cacheU = None
    BY <2>1, SetUMaskFacts
  <2>3. CrTypes(d)
    BY <2>2, <1>1 DEF CrTypes
  <2>. QED
    BY <2>1, <2>3
<1>4. CrTypes(AfterCheck(c, t))
  <2>1. PICK d : d = AfterCheck(c, t)
    OBVIOUS
  <2>2. /\ d.user = c.user /\ d.uid = c.uid /\ d.auth = c.auth
        /\ d.fixed = c.fixed /\ d.umask = c.umask
        /\ d.cache \in {c.cache, None} /\ d.cacheU \in {c.cacheU, None}
    BY <2>1, AfterCheckFacts
  <2>3. CrTypes(d)
    BY <2>2 DEF CrTypes
  <2>. QED
    BY <2>1, <2>3
<1>5. CrTypes(cr_UpdateCreds(c, t))
  <2>1. PICK d : d = cr_UpdateCreds(c, t)
    OBVIOUS
  <2>2. /\ d.user = c.user /\ d.uid = c.uid /\ d.cache = c.cache
        /\ d.fixed = c.fixed /\ d.auth = c.auth
        /\ c.fixed => d = c
        /\ ~c.fixed /\ t = c.cacheU => d = c
        /\ ~c.fixed /\ t # c.cacheU =>
             /\ d.umask = IF creds[t] = None THEN DefaultUMask ELSE creds[t].umask
             /\ d.cacheU \in {None, t}
    BY <2>1, UpdateCredsFacts
  <2>3. CASE d = c
    BY <2>1, <2>3
  <2>4. CASE /\ d.umask = IF creds[t] = None THEN DefaultUMask ELSE creds[t].umask
             /\ d.cacheU \in {None, t}
    <3>1. d.umask \in UMasks
      BY <2>4, <1>1
    <3>2. CrTypes(d)
      BY <3>1, <2>2, <2>4 DEF CrTypes
    <3>. QED
      BY <3>2, <2>1
  <2>. QED
    BY <2>2, <2>3, <2>4
<1>6. ASSUME AuthUid(c, t) # None
      PROVE  CrTypes(cr_SetAuth(c, t)) /\ cr_SetAuth(c, t).auth \in Uids
  <2>1. PICK d : d = cr_SetAuth(c, t)
    OBVIOUS
  <2>2. /\ d.user = c.user
        /\ d.auth = IF c.user # None THEN c.user ELSE creds[t].uid
        /\ d.uid = d.auth
        /\ d.cache = IF c.user # None THEN None ELSE t
        /\ d.fixed = c.fixed /\ d.umask = c.umask /\ d.cacheU = c.cacheU
    BY <2>1, SetAuthFacts
  <2>3. c.user = None => creds[t] # None
    BY <1>6 DEF AuthUid
  <2>4. d.auth \in Uids
    BY <2>2, <2>3, <1>1 DEF CrTypes
  <2>5. CrTypes(d)
    BY <2>2, <2>4 DEF CrTypes
  <2>. QED
    BY <2>1, <2>4, <2>5
<1>. QED
  BY <1>2, <1>3, <1>4, <1>5, <1>6

\* Who is behind the bytes in the buffers and the current packet is known.
UserTypes ==
    /\ CrTypes(cr) /\ wbuf \subseteq Uids
    /\ wbuf # {} => cl_auth \in Uids
    /\ Serving /\ pc = "exec" => Writer \in Uids /\ cl_auth \in Uids

PlainTypes ==
    /\ pc \in {"startup", "getmsg", "getrexx", "wait", "break", "dispatch", "reauth",
               "exec", "cleanup", "remove", "drain", "exit", "unmount", "closerexx",
               "freerexx", "stopped", "wild"}
    /\ timer \in {"none", "device", "port", "taken"}
    /\ signals \subseteq {"port", "rexx", "ctrl_c"}
    /\ cur \in Senders \cup {None}
    /\ handles \in 0 .. MaxHandles /\ protected \in BOOLEAN

SentTypes == sent \subseteq [writer : Uids, as : Uids]

\* Steps that keep the credentials and add no bytes.
LEMMA QuietUsers ==
    ASSUME UserTypes, UNCHANGED <<cr, cl_auth>>, wbuf' \subseteq wbuf, pc' # "exec"
    PROVE  UserTypes'
BY DEF UserTypes, CrTypes

LEMMA SameUsers ==
    ASSUME UserTypes, UNCHANGED <<pc, cr, cl_auth, wbuf, func, cur, creds>>
    PROVE  UserTypes'
BY DEF UserTypes, CrTypes, Serving, Writer, KeepsCreds

LEMMA FlushedTypes ==
    ASSUME UserTypes, act_FLUSH
    PROVE  SentTypes'
<1>1. PICK users \in SUBSET wbuf : sent' = {[writer |-> u, as |-> cl_auth] : u \in users}
  BY DEF act_FLUSH, Written
<1>2. \A u \in users : u \in Uids /\ cl_auth \in Uids
  BY <1>1 DEF UserTypes
<1>. QED
  BY <1>1, <1>2 DEF SentTypes

LEMMA StartupUsers ==
    ASSUME CredInv, UserTypes, StartupStep
    PROVE  UserTypes'
<1>1. wbuf' = wbuf /\ wbuf = {} /\ creds' = creds
  BY DEF StartupStep, data, CredInv, AuthInv, world
<1>2. pc' # "exec"
  BY DEF StartupStep, ParseArgs, EarlyExit, StepSucceeds, NextStep, StepFails
<1>3. SUFFICES CrTypes(cr')
  BY <1>1, <1>2 DEF UserTypes, CrTypes
<1>4. Fields(cr) /\ CrTypes(cr) /\ Self \in Tasks
  BY DEF CredInv, CredTypes, UserTypes, Tasks
<1>5. CASE cr' = cr
  BY <1>4, <1>5
<1>6. CASE cr' \in {cr_SetUser(cr, UserUid), cr_SetUMask(cr),
                    cr_SetUMask(cr_SetUser(cr, UserUid))}
  <2>1. PICK d : d = cr_SetUser(cr, UserUid)
    OBVIOUS
  <2>2. Fields(d) /\ CrTypes(d)
    BY <2>1, <1>4, SetUserFacts, CrSteps
  <2>3. CrTypes(cr_SetUMask(cr)) /\ CrTypes(cr_SetUMask(d))
    BY <2>2, <1>4, CrSteps
  <2>. QED
    BY <2>1, <2>2, <2>3, <1>6
<1>7. CASE AuthUid(cr, Self) # None /\ cr' = cr_SetAuth(cr, Self)
  BY <1>4, <1>7, CrSteps
<1>. QED
  BY <1>5, <1>6, <1>7 DEF StartupStep, ParseArgs, EarlyExit, StepSucceeds, StepFails

LEMMA DispatchUsers ==
    ASSUME CredInv, UserTypes, MsgInv, MsgInv', Dispatch
    PROVE  UserTypes'
<1>1. /\ pc = "dispatch" /\ pc' \in {"reauth", "exec"} /\ wbuf' = wbuf
      /\ cl_auth' = cl_auth /\ creds' = creds /\ cur' = cur
  BY DEF Dispatch, data, world
<1>2. Fields(cr) /\ CrTypes(cr)
  BY DEF CredInv, CredTypes, UserTypes
<1>3. CASE KeepsCreds(func')
  <2>1. cr' = cr /\ ~Serving'
    BY <1>3 DEF Dispatch, Serving, KeepsCreds
  <2>. QED
    BY <2>1, <1>1 DEF UserTypes, CrTypes
<1>4. CASE ~KeepsCreds(func')
  <2>1. cur \in Programs /\ cur \in Tasks
    BY <1>1, <1>4 DEF MsgInv, FuncInv, KeepsCreds, Tasks
  <2>2. PICK c : c = cr_UpdateCreds(cr, cur)
    OBVIOUS
  <2>3. /\ cr' = AfterCheck(c, cur)
        /\ pc' = IF cr_AuthNeedsUpdate(c, cur) THEN "reauth" ELSE "exec"
    BY <2>2, <1>4 DEF Dispatch
  <2>4. /\ Fields(c) /\ c.user = cr.user /\ c.cache = cr.cache /\ c.auth = cr.auth
    BY <2>2, <1>2, UpdateCredsFacts
  <2>5. CrTypes(c)
    BY <2>1, <2>2, <1>2, CrSteps
  <2>6. CrTypes(cr') /\ cr'.user = c.user
    BY <2>1, <2>3, <2>4, <2>5, CrSteps, AfterCheckFacts
  <2>7. ASSUME pc' = "exec" PROVE Writer' \in Uids /\ cl_auth' \in Uids
    <3>1. /\ c.auth # None
          /\ ~(c.user = None /\ cur # c.cache)
      BY <2>3, <2>7 DEF cr_AuthNeedsUpdate
    <3>2. cl_auth \in Uids
      BY <3>1, <2>4, <1>2 DEF CredInv, AuthInv, CrTypes
    <3>3. Writer' = IF cr'.user # None THEN cr'.user ELSE creds[cur].uid
      BY <1>1 DEF Writer
    <3>4. CASE cr'.user # None
      <4>1. cr'.user = UserUid
        BY <3>4, <2>6 DEF CrTypes
      <4>. QED
        BY <4>1, <3>2, <3>3, <3>4, <1>1, CredentialTypes
    <3>5. CASE cr'.user = None
      <4>1. creds[cur] # None
        BY <3>1, <3>5, <2>1, <2>4, <2>6 DEF CredInv, AuthInv
      <4>. QED
        BY <4>1, <3>2, <3>3, <3>5, <2>1, <1>1, CredentialTypes
    <3>. QED
      BY <3>4, <3>5
  <2>8. CrTypes(cr)' <=> CrTypes(cr')
    BY DEF CrTypes
  <2>. QED
    BY <2>6, <2>7, <2>8, <1>1 DEF UserTypes
<1>. QED
  BY <1>3, <1>4

LEMMA ReauthUsers ==
    ASSUME CredInv, UserTypes, MsgInv, Reauthenticate
    PROVE  UserTypes'
<1>1. pc = "reauth" /\ wbuf' = {} /\ creds' = creds
  BY DEF Reauthenticate, FlushOld, act_FLUSH, world
<1>2. cur \in Programs /\ cur \in Tasks
  BY <1>1 DEF MsgInv, FuncInv, Tasks
<1>3. CASE /\ AuthUid(cr, cur) # None
           /\ NewAuth /\ pc' = "exec"
           /\ UNCHANGED <<owed, now>>
  <2>1. cr' = cr_SetAuth(cr, cur) /\ cl_auth' = cr'.auth /\ cur' = cur
    BY <1>3 DEF NewAuth, now
  <2>2. Fields(cr) /\ CrTypes(cr)
    BY DEF CredInv, CredTypes, UserTypes
  <2>3. CrTypes(cr') /\ cr'.auth \in Uids
    BY <2>1, <2>2, <1>2, <1>3, CrSteps
  <2>4. cr'.user = cr.user /\ cr'.auth = IF cr.user # None THEN cr.user ELSE creds[cur].uid
    BY <2>1, <2>2, SetAuthFacts
  <2>5. Writer' = cr'.auth
    BY <2>1, <2>4, <1>1 DEF Writer
  <2>6. CrTypes(cr)' <=> CrTypes(cr')
    BY DEF CrTypes
  <2>. QED
    BY <2>1, <2>3, <2>5, <2>6, <1>1 DEF UserTypes
<1>4. CASE pc' = "getmsg" /\ UNCHANGED <<cr, cl_auth>>
  BY <1>1, <1>4, QuietUsers
<1>. QED
  BY <1>3, <1>4 DEF Reauthenticate

LEMMA ExecUsers ==
    ASSUME UserTypes, MsgInv, Exec
    PROVE  UserTypes' /\ SentTypes'
<1>1. /\ pc = "exec" /\ cur # "rexx" /\ cur # "timer" /\ pc' = "getmsg"
      /\ cr' = cr /\ cl_auth' = cl_auth
  BY DEF Exec, IsCommand, auth
<1>2. cur \in Programs
  BY <1>1 DEF MsgInv, PortInv, Taking, Senders
<1>3. ASSUME wbuf' \subseteq wbuf PROVE UserTypes'
  BY <1>1, <1>3, QuietUsers
<1>4. ASSUME func \in {"WRITE", "CREATE_DIR"} PROVE Writer \in Uids /\ cl_auth \in Uids
  BY <1>1, <1>2, <1>4 DEF UserTypes, Serving, KeepsCreds
<1>5. CASE NoEffect \/ act_FINDINPUT \/ act_WRITE_PROTECT
  <2>1. sent' = {} /\ wbuf' = wbuf
    BY <1>5 DEF NoEffect, act_FINDINPUT, act_WRITE_PROTECT, NoData, data
  <2>. QED
    BY <2>1, <1>3 DEF SentTypes
<1>6. CASE act_FLUSH_packet
  BY <1>3, <1>6, FlushedTypes DEF act_FLUSH_packet, act_FLUSH
<1>7. CASE act_END
  <2>1. CASE act_FLUSH
    BY <2>1, <1>3, FlushedTypes DEF act_FLUSH
  <2>2. CASE sent' = {} /\ UNCHANGED wbuf
    BY <2>2, <1>3 DEF SentTypes
  <2>. QED
    BY <2>1, <2>2, <1>7 DEF act_END
<1>8. CASE act_WRITE
  <2>1. PICK w : w = Writer
    OBVIOUS
  <2>2. w \in Uids /\ cl_auth \in Uids
    BY <2>1, <1>4, <1>8 DEF act_WRITE
  <2>3. CASE wbuf' = wbuf \cup {w} /\ sent' = {}
    <3>1. wbuf' \subseteq Uids /\ CrTypes(cr)'
      BY <2>2, <2>3, <1>1 DEF UserTypes, CrTypes
    <3>2. UserTypes'
      BY <3>1, <2>2, <1>1 DEF UserTypes
    <3>. QED
      BY <3>2, <2>3 DEF SentTypes
  <2>4. CASE \E users \in SUBSET wbuf : wbuf' = {} /\ sent' = Written(users \cup {w})
    <3>1. PICK users \in SUBSET wbuf :
             /\ wbuf' = {}
             /\ sent' = {[writer |-> u, as |-> cl_auth] : u \in users \cup {w}}
      BY <2>4 DEF Written
    <3>2. \A u \in users \cup {w} : u \in Uids
      BY <3>1, <2>2 DEF UserTypes
    <3>3. SentTypes'
      BY <3>1, <3>2, <2>2 DEF SentTypes
    <3>. QED
      BY <3>1, <3>3, <1>3
  <2>. QED
    BY <2>1, <2>3, <2>4, <1>8 DEF act_WRITE
<1>9. CASE act_CREATE_DIR
  <2>1. PICK w : w = Writer
    OBVIOUS
  <2>2. w \in Uids /\ cl_auth \in Uids
    BY <2>1, <1>4, <1>9 DEF act_CREATE_DIR
  <2>3. sent' = {[writer |-> w, as |-> cl_auth]} /\ wbuf' = wbuf
    BY <2>1, <1>9 DEF act_CREATE_DIR, data
  <2>. QED
    BY <2>2, <2>3, <1>3 DEF SentTypes
<1>. QED
  BY <1>5, <1>6, <1>7, <1>8, <1>9 DEF Exec

LEMMA NextUsers ==
    ASSUME CredInv, UserTypes, MsgInv, MsgInv', Next
    PROVE  UserTypes' /\ SentTypes'
<1>0. NoData => SentTypes'
  BY DEF NoData, SentTypes
<1>1. CASE StartupStep
  BY <1>0, <1>1, StartupUsers DEF StartupStep
<1>2. CASE G_WaitPkt
  <2>1. UNCHANGED <<cr, cl_auth>> /\ wbuf' = wbuf /\ NoData
    BY <1>2 DEF G_WaitPkt, data, auth
  <2>2. pc' # "exec"
    BY <1>2 DEF G_WaitPkt, LookForPkt, LookForCommand, Wait, GetMsg, GetARexxMsg,
                NothingFound, Handle
  <2>. QED
    BY <2>1, <2>2, <1>0, QuietUsers
<1>3. CASE Dispatch
  BY <1>0, <1>3, DispatchUsers DEF Dispatch
<1>4. CASE Reauthenticate
  BY <1>4, ReauthUsers, FlushedTypes DEF Reauthenticate, FlushOld
<1>5. CASE Exec
  BY <1>5, ExecUsers
<1>6. CASE act_DIE \/ act_TIMER
  <2>1. UNCHANGED <<cr, cl_auth>> /\ act_FLUSH /\ pc' \in {"cleanup", "getmsg"}
    BY <1>6 DEF act_DIE, act_TIMER, auth
  <2>2. wbuf' = {}
    BY <2>1 DEF act_FLUSH
  <2>. QED
    BY <2>1, <2>2, QuietUsers, FlushedTypes
<1>7. CASE IgnoreBreak
  <2>1. UNCHANGED <<cr, cl_auth>> /\ wbuf' = wbuf /\ NoData /\ pc' = "getmsg"
    BY <1>7 DEF IgnoreBreak, data, auth
  <2>. QED
    BY <2>1, <1>0, QuietUsers
<1>8. CASE act_IOCONTROL
  <2>1. /\ cl_auth' = cl_auth /\ wbuf' = wbuf /\ NoData /\ pc' = "getmsg"
        /\ cr' \in {cr, cr_SetUser(cr, UserUid), cr_SetUMask(cr)}
    BY <1>8 DEF act_IOCONTROL, data
  <2>2. Fields(cr) /\ CrTypes(cr) /\ Self \in Tasks
    BY DEF CredInv, CredTypes, UserTypes, Tasks
  <2>3. CrTypes(cr')
    BY <2>1, <2>2, CrSteps
  <2>4. CrTypes(cr)' <=> CrTypes(cr')
    BY DEF CrTypes
  <2>5. UserTypes'
    BY <2>1, <2>3, <2>4 DEF UserTypes
  <2>. QED
    BY <2>1, <2>5, <1>0
<1>9. CASE Shutdown
  <2>1. UNCHANGED <<cr, cl_auth>> /\ wbuf' = wbuf /\ NoData
    BY <1>9 DEF Shutdown, data, auth
  <2>2. pc' # "exec"
    BY <1>9 DEF Shutdown, StopTimer, RemDosEntry, DrainPort, RemoveTimer, G_UnMount,
                G_CleanUp, HidePort, AnswerDead, FreeRest
  <2>. QED
    BY <2>1, <2>2, <1>0, QuietUsers
<1>10. CASE SendCommand \/ CtrlC \/ TimerFires \/ \E p \in Programs : Send(p)
  <2>1. UNCHANGED <<pc, cr, cl_auth, wbuf, func, cur, creds>> /\ NoData
    BY <1>10 DEF SendCommand, CtrlC, TimerFires, Send, proc, data, now, auth, world
  <2>. QED
    BY <2>1, <1>0, SameUsers
<1>11. CASE \E p \in Programs : ChangeCreds(p)
  <2>1. UNCHANGED <<pc, cr, cl_auth, wbuf>> /\ NoData /\ pc # "exec"
    BY <1>11 DEF ChangeCreds, Busy, proc, data, auth
  <2>. QED
    BY <2>1, <1>0, QuietUsers
<1>. QED
  BY <1>1, <1>2, <1>3, <1>4, <1>5, <1>6, <1>7, <1>8, <1>9, <1>10, <1>11
     DEF Next, HandlerStep, Environment

LEMMA NextPlain ==
    ASSUME PlainTypes, MsgInv, Next
    PROVE  PlainTypes'
<1>0. port \in Seq(Programs \cup {"timer"})
  BY DEF MsgInv, PortInv
<1>1. CASE StartupStep
  BY <1>1 DEF PlainTypes, StartupStep, ParseArgs, EarlyExit, StepSucceeds, NextStep,
              StepFails, data, now
<1>2. CASE G_WaitPkt
  <2>1. ASSUME port # <<>>, GetMsg, signals' \in {signals, {}}, UNCHANGED data
        PROVE  PlainTypes'
    <3>1. Head(port) \in Programs \cup {"timer"}
      BY <2>1, <1>0
    <3>. QED
      BY <3>1, <2>1 DEF PlainTypes, GetMsg, Handle, data, Senders
  <2>2. ASSUME GetARexxMsg, signals' \in {signals, {}}, UNCHANGED data PROVE PlainTypes'
    BY <2>2 DEF PlainTypes, GetARexxMsg, Handle, data, Senders
  <2>3. ASSUME NEW n \in {"getmsg", "getrexx", "wait", "break"}, NothingFound(n),
               signals' \in {signals, {}}, UNCHANGED data
        PROVE  PlainTypes'
    BY <2>3 DEF PlainTypes, NothingFound, data
  <2>4. UNCHANGED data /\ signals' \in {signals, {}}
    BY <1>2 DEF G_WaitPkt, LookForPkt, LookForCommand, Wait
  <2>. QED
    BY <2>1, <2>2, <2>3, <2>4, <1>2 DEF G_WaitPkt, LookForPkt, LookForCommand, Wait
<1>3. CASE Dispatch \/ IgnoreBreak
  BY <1>3 DEF PlainTypes, Dispatch, IgnoreBreak, data, input, now
<1>4. CASE Reauthenticate
  BY <1>4 DEF PlainTypes, Reauthenticate, FlushOld, act_FLUSH, Done, now
<1>5. CASE Exec
  <2>1. pc' = "getmsg" /\ cur' = None /\ UNCHANGED <<timer, signals>>
    BY <1>5 DEF Exec, Done
  <2>2. handles' \in 0 .. MaxHandles /\ protected' \in BOOLEAN
    <3>1. CASE act_FINDINPUT
      BY <3>1, HandlerAssumption DEF act_FINDINPUT, PlainTypes
    <3>2. CASE act_END
      BY <3>2, HandlerAssumption DEF act_END, PlainTypes
    <3>3. CASE act_WRITE_PROTECT
      BY <3>3 DEF act_WRITE_PROTECT, PlainTypes
    <3>4. CASE act_WRITE \/ act_CREATE_DIR \/ act_FLUSH_packet \/ NoEffect
      BY <3>4 DEF act_WRITE, act_CREATE_DIR, act_FLUSH_packet, NoEffect, data, PlainTypes
    <3>. QED
      BY <3>1, <3>2, <3>3, <3>4, <1>5 DEF Exec
  <2>. QED
    BY <2>1, <2>2 DEF PlainTypes
<1>6. CASE act_DIE \/ act_TIMER \/ act_IOCONTROL
  BY <1>6 DEF PlainTypes, act_DIE, act_TIMER, act_IOCONTROL, ti_StartTimer, Done, data
<1>7. CASE Shutdown
  <2>1. UNCHANGED <<handles, protected, signals, cur>>
    BY <1>7 DEF Shutdown, data, now
  <2>2. timer' \in {timer, "none"}
    BY <1>7 DEF Shutdown, StopTimer, RemDosEntry, DrainPort, RemoveTimer, G_UnMount,
                G_CleanUp, ti_Cleanup
  <2>3. pc' \in {"remove", "drain", "exit", "unmount", "closerexx", "freerexx", "stopped"}
    BY <1>7 DEF Shutdown, StopTimer, RemDosEntry, DrainPort, RemoveTimer, G_UnMount,
                G_CleanUp, HidePort, AnswerDead, FreeRest
  <2>. QED
    BY <2>1, <2>2, <2>3 DEF PlainTypes
<1>8. CASE Environment
  <2>1. UNCHANGED <<pc, handles, protected, cur>>
    BY <1>8 DEF Environment, SendCommand, CtrlC, TimerFires, Send, ChangeCreds, proc, data,
                now
  <2>2. timer' \in {timer, "port"} /\ signals' \subseteq signals \cup {"port", "rexx", "ctrl_c"}
    BY <1>8 DEF Environment, SendCommand, CtrlC, TimerFires, Send, ChangeCreds, input
  <2>. QED
    BY <2>1, <2>2 DEF PlainTypes
<1>. QED
  BY <1>1, <1>2, <1>3, <1>4, <1>5, <1>6, <1>7, <1>8 DEF Next, HandlerStep

\* Everything held is part of some step of the startup.
LEMMA ThingsAreParts ==
    Things \subseteq UNION {ToSet(Parts(Startup[k])) : k \in DOMAIN Startup}
<1>1. \A k \in 1 .. 19 : k \in DOMAIN Startup
  BY StepNames
<1>2. ASSUME NEW x \in Things PROVE \E k \in 1 .. 19 : x \in ToSet(Parts(Startup[k]))
  <2>1. CASE x \in {"attrs", "attrlists", "dircache", "dirlists"}
    <3>1. Startup[5] = "attrs" /\ Startup[6] = "dircache"
      BY DEF Startup
    <3>. QED
      BY <3>1, <2>1, PartSets
  <2>2. CASE x \in {"st_Pkt", "st_Req", "timer", "RexxContext", "rexxsyslib", "rexx"}
    <3>1. Startup[7] = "timer" /\ Startup[8] = "rexx"
      BY DEF Startup
    <3>. QED
      BY <3>1, <2>2, PartSets
  <2>3. CASE x \in {"cla_clnt", "mcu_data", "mcu_outbuf", "nfsclnt"}
    <3>1. Startup[15] = "nfsclnt"
      BY DEF Startup
    <3>. QED
      BY <3>1, <2>3, PartSets
  <2>4. CASE x \in {"strings", "utility", "volume", "port", "mbufs", "wbufs", "mntclnt",
                    "mntauth", "mounted", "inlist"}
    <3>1. \E k \in {1, 2, 3, 4, 9, 10, 12, 13, 14, 19} : Startup[k] = x
      BY <2>4 DEF Startup
    <3>2. ToSet(Parts(x)) = {x}
      BY <2>4, PartSets
    <3>. QED
      BY <3>1, <3>2
  <2>. QED
    BY <2>1, <2>2, <2>3, <2>4 DEF Things
<1>. QED
  BY <1>1, <1>2

\* The index act_Init builds finds for every packet type exactly the function
\* the action table has for it, for any packet a program sends; with it, every
\* variable has its type.
THEOREM PacketsDispatched == Spec => []DispatchExact
<1>. DEFINE IInv == HeldInv /\ MsgInv /\ CredInv /\ UserTypes /\ PlainTypes /\ SentTypes
<1>1. Init => IInv
  <2>. SUFFICES ASSUME Init PROVE IInv
    OBVIOUS
  <2>1. CrTypes(cr)
    BY DEF Init, Creds0, CrTypes
  <2>2. UserTypes
    BY <2>1 DEF UserTypes, Init
  <2>3. PlainTypes
    <3>1. 0 \in 0 .. MaxHandles
      BY HandlerAssumption
    <3>. QED
      BY <3>1 DEF PlainTypes, Init
  <2>4. SentTypes
    BY DEF SentTypes, Init
  <2>. QED
    BY <2>2, <2>3, <2>4, HeldInit, MsgInit, CredInit
<1>2. IInv /\ [Next]_vars => IInv'
  <2>1. ASSUME IInv, Next PROVE IInv'
    <3>1. HeldInv' /\ MsgInv' /\ CredInv'
      BY <2>1, NextHeld, NextMsg, NextCreds
    <3>. QED
      BY <3>1, <2>1, NextUsers, NextPlain
  <2>2. ASSUME IInv, UNCHANGED vars PROVE IInv'
    <3>1. HeldInv' /\ MsgInv'
      BY <2>2, NextHeld, NextMsg
    <3>2. UNCHANGED <<pc, step, auth, wbuf, world, cur, func>>
      BY <2>2 DEF vars, proc, data, now
    <3>3. CredInv'
      BY <3>2, <2>2, SameCreds
    <3>4. UserTypes'
      BY <3>2, <2>2, SameUsers DEF auth, world
    <3>5. PlainTypes' /\ SentTypes'
      BY <2>2 DEF PlainTypes, SentTypes, vars, proc, input, data, now
    <3>. QED
      BY <3>1, <3>3, <3>4, <3>5
  <2>. QED
    BY <2>1, <2>2
<1>3. IInv => DispatchExact
  <2>. SUFFICES ASSUME IInv PROVE DispatchExact
    OBVIOUS
  <2>1. held \subseteq UNION {ToSet(Parts(Startup[k])) : k \in DOMAIN Startup}
    BY ThingsAreParts DEF HeldInv
  <2>2. step \in DOMAIN Startup /\ TimerUp \in {0, 1}
    BY StepNames DEF HeldInv
  <2>3. ToSet(port) \subseteq Programs \cup {"timer"}
    BY DEF ToSet, MsgInv, PortInv
  <2>4. rexx \in 0 .. 1 /\ owed \in [Senders -> 0 .. 1] /\ owed["timer"] = 0
    <3>1. {0, 1} = 0 .. 1
      OBVIOUS
    <3>. QED
      BY <3>1 DEF MsgInv, OwedInv
  <2>5. msg = None \/ msg \in Content(cur)
    BY DEF MsgInv, FuncInv
  <2>6. creds \in [Tasks -> Credentials] /\ Fields(cr)
    BY DEF CredInv, CredTypes
  <2>7. cr \in [user : {None, UserUid}, fixed : BOOLEAN, umask : UMasks \cup {None},
                uid : Uids \cup {None}, auth : Uids \cup {None},
                cache : Tasks \cup {None}, cacheU : Tasks \cup {None}]
    BY <2>6, CrRecord DEF UserTypes
  <2>8. cl_auth \in Uids \cup {None} /\ wbuf \subseteq Uids
    BY DEF CredInv, AuthInv, UserTypes, CrTypes
  <2>9. TypeOK
    BY <2>1, <2>2, <2>3, <2>4, <2>5, <2>6, <2>7, <2>8 DEF TypeOK, PlainTypes, SentTypes
  <2>10. pc = "exec" => FuncFor(msg.action, func)
    BY DEF MsgInv, FuncInv
  <2>. QED
    BY <2>9, <2>10 DEF DispatchExact, FuncFor
<1>4. Spec => []IInv
  BY <1>1, <1>2, PTL DEF Spec
<1>. QED
  BY <1>3, <1>4, PTL
=============================================================================
