-------------------------- MODULE AttributesProofs --------------------------
(***************************************************************************)
(* Attributes, for any number of names and objects, any attributes and any *)
(* timeouts: what a program is shown is right or late by no more than the  *)
(* timeouts, and what it sets comes back through both conversions.  And    *)
(* Settings, where the sizes and timeouts of those caches come from: the   *)
(* memory given away is accounted for and what GET reports is in force.    *)
(***************************************************************************)
EXTENDS Attributes, Settings, TLAPS

-----------------------------------------------------------------------------
\* The inductive invariant.  The state is typed; what a SET gives is a pair
\* of the packet and its argument.
Assignments ==
    ({"SET_PROTECT"} \X Masks) \cup ({"SET_DATE"} \X Dates) \cup ({"SET_OWNER"} \X Owners)

Entries == [gen : Nat, attr : Attrs, seen : Nat, birth : Nat]

Locks == (Ids \X (1 .. MaxChanges + 1)) \cup {<<>>, None}

Located == {"dir", "dirattr", "find", "lookup"}
Calling == {"dirattr", "lookup", "set", "getattr"}
Pcs == {"idle", "dir", "dirattr", "find", "lookup", "set", "locked", "getattr", "done"}
Acts == {"SET_PROTECT", "SET_DATE", "SET_OWNER", "GET_ATTRIBUTES", "EXAMINE_OBJECT", "INFO"}

Packets ==
    [pc : Pcs, act : Acts \cup {None}, name : Names \cup {None},
     val : Masks \cup Dates \cup Owners \cup {None}, lock : Locks, at : Nat,
     obj : Objects \cup {None}]

Typed ==
    /\ srv \in [Objects -> [gen : 0 .. MaxChanges + 1, attr : Attrs \cup {None}]]
    /\ dir \in [Names -> Ids \cup {None}]
    /\ cache \in [Objects -> Entries \cup {None}]
    /\ dce \in DirEntries \cup {None}
    /\ pkt \in Packets
    /\ reply \in Replies \cup {None}
    /\ ans \in Answers \cup {None}
    /\ now \in Nat /\ changes \in 0 .. MaxChanges
    /\ changed \in [Objects -> Int] /\ rebound \in [Names -> Int]
    /\ lastSet \in [Objects -> SUBSET Assignments]

\* What is there at each place of a packet.
Places ==
    /\ (reply # None) <=> (pkt.pc \in Calling)
    /\ (ans # None) <=> (pkt.pc = "done")
    /\ pkt.pc \in Located => /\ pkt.act \in Setters \cup {"GET_ATTRIBUTES"} /\ pkt.name \in Names
                             /\ pkt.act \in Setters => <<pkt.act, pkt.val>> \in Assignments
    /\ pkt.pc \in {"find", "lookup"} => dce # None
    /\ pkt.pc = "set" => /\ pkt.obj \in Objects /\ (reply.ok => reply.id = pkt.obj)
                         /\ pkt.act \in Setters
    /\ pkt.pc \in {"locked", "getattr"} => pkt.act \in {"EXAMINE_OBJECT", "INFO"}

\* A name stands for an object that is there, and an object has one name.
Directory ==
    /\ \A n \in Names : dir[n] # None => srv[dir[n]].attr \in Attrs
    /\ \A m, n \in Names : dir[m] # None /\ dir[m] = dir[n] => m = n
    /\ \A i \in Objects : srv[i].gen <= changes + 1

\* Attributes c of the object i are those the server has, or others changed
\* them later; and they have what the SETs gave i since.
Fresh(i, c) == (srv[i].gen = c.gen /\ srv[i].attr = c.attr) \/ changed[i] >= c.seen

Has(attr, s) ==
    /\ s[1] = "SET_PROTECT" => attr.mode = au_Protection2umode(s[2])
    /\ s[1] = "SET_DATE" => attr.mtime = DateStamp2timeval(s[2])
    /\ s[1] = "SET_OWNER" => attr.uid = s[2][1] /\ attr.gid = s[2][2]

Right(i, c) == Fresh(i, c) /\ \A s \in lastSet[i] : Has(c.attr, s)

\* An entry of the cache is not from the future, and not dead.
InTime(c) == c.seen <= now /\ c.birth <= now /\ c.birth >= now - AttrTTL

\* Only the object of a SET that is under way may be out of date.
InWork(i) == pkt.pc = "set" /\ i = pkt.obj

ServerRight == \A i \in Objects : \A s \in lastSet[i] : Has(srv[i].attr, s)

CacheRight ==
    \A i \in Objects : cache[i] # None => InTime(cache[i]) /\ (InWork(i) \/ Right(i, cache[i]))

ReplyRight == reply # None /\ reply.ok => reply.seen <= now /\ Right(reply.id, reply)

\* Likewise for the names in the entry of the directory, which outlives its
\* time only while a packet uses it.  The answer to a lookup is younger than
\* the entry it will go into.
NamesRight ==
    /\ pkt.pc # "idle" => pkt.at <= now
    /\ dce # None =>
         /\ dce.birth <= now
         /\ IF pkt.pc = "idle" THEN dce.birth >= now - DirTTL ELSE dce.birth >= pkt.at - DirTTL
         /\ \A n \in Names : dce.names[n] # None =>
              dir[n] = dce.names[n] \/ rebound[n] >= dce.birth
    /\ pkt.pc = "lookup" /\ reply.ok =>
         /\ dce.birth <= reply.seen
         /\ dir[pkt.name] = reply.id \/ rebound[pkt.name] >= reply.seen

\* What is shown.
Converted(a) == IF pkt.act = "GET_ATTRIBUTES" THEN TagsOf(a) ELSE FAttr2FIB(a)

AnswerRight ==
    /\ ShownCurrent /\ NameCurrent
    /\ Shows => /\ ans.id \in Objects
                /\ ans.shown = Converted(ans.attr)
                /\ \A s \in lastSet[ans.id] : Has(ans.attr, s)

Inv ==
    /\ Typed /\ Places /\ Directory
    /\ ServerRight /\ CacheRight /\ ReplyRight /\ NamesRight /\ AnswerRight

-----------------------------------------------------------------------------
\* The constants, one fact at a time.
LEMMA Constants ==
    /\ SecondsPerMinute \in Nat /\ SecondsPerMinute > 0
    /\ MinutesPerDay \in Nat /\ MinutesPerDay > 0
    /\ TICKS_PER_SECOND \in Nat /\ TICKS_PER_SECOND > 0
    /\ Micros \in Nat /\ Micros > 0
    /\ Word \in Nat /\ Word > 0
    /\ MaxId \in Nat /\ MaxId > 0
    /\ SecondsPerDay \in Nat /\ SecondsPerDay > 0
<1>1. \A n \in Nat \ {0} : n \in Nat /\ n > 0
  OBVIOUS
<1>2. /\ SecondsPerMinute \in Nat \ {0} /\ MinutesPerDay \in Nat \ {0}
      /\ TICKS_PER_SECOND \in Nat \ {0} /\ Micros \in Nat \ {0}
      /\ Word \in Nat \ {0} /\ MaxId \in Nat \ {0}
  BY AttributesAssumption
<1>3. SecondsPerDay \in Nat /\ SecondsPerDay > 0
  <2>1. \A a, b \in Nat : a > 0 /\ b > 0 => a * b \in Nat /\ a * b > 0
    OBVIOUS
  <2>2. QED
    BY <1>1, <1>2, <2>1 DEF SecondsPerDay
<1>4. QED
  BY <1>1, <1>2, <1>3

\* Quotient and remainder of the sum of a multiple and something smaller.
LEMMA DivMod ==
    ASSUME NEW b \in Nat, b > 0, NEW q \in Nat, NEW r \in Nat, r < b
    PROVE  /\ (q * b + r) \div b = q
           /\ (q * b + r) % b = r
OBVIOUS

LEMMA DivModTypes ==
    ASSUME NEW b \in Nat, b > 0, NEW a \in Nat
    PROVE  /\ a \div b \in Nat
           /\ a % b \in Nat
           /\ a % b < b
           /\ a = (a \div b) * b + (a % b)
OBVIOUS

\* Divisions of Amiga numbers are integers, those of naturals the usual ones.
LEMMA CDivTypes ==
    ASSUME NEW b \in Nat, b > 0, NEW a \in Int
    PROVE  /\ CDiv(a, b) \in Int
           /\ CMod(a, b) \in Int
           /\ a >= 0 => CDiv(a, b) = a \div b /\ CMod(a, b) = a % b
<1>1. CDiv(a, b) \in Int
  <2>1. \A x \in Int : x \div b \in Int /\ -x \in Int
    OBVIOUS
  <2>2. QED
    BY <2>1 DEF CDiv
<1>2. CMod(a, b) \in Int
  <2>1. \A x \in Int : a - b * x \in Int
    OBVIOUS
  <2>2. QED
    BY <1>1, <2>1 DEF CMod
<1>3. ASSUME a >= 0
      PROVE  CDiv(a, b) = a \div b /\ CMod(a, b) = a % b
  <2>1. CDiv(a, b) = a \div b
    BY <1>3 DEF CDiv
  <2>2. a \in Nat
    BY <1>3
  <2>3. a = (a \div b) * b + (a % b) /\ a \div b \in Nat /\ a % b \in Nat
    BY <2>2, DivModTypes
  <2>4. \A q, r \in Nat : a = q * b + r => a - b * q = r
    OBVIOUS
  <2>5. a - b * (a \div b) = a % b
    BY <2>3, <2>4
  <2>6. QED
    BY <2>1, <2>5 DEF CMod
<1>4. QED
  BY <1>1, <1>2, <1>3

\* What the conversions return.
LEMMA DateTypes ==
    ASSUME NEW tv \in [seconds : Nat, useconds : Nat]
    PROVE  timeval2DateStamp(tv) \in [days : Int, minute : Int, tick : Int]
<1> DEFINE u == (tv.seconds + tv.useconds \div Micros) % Word
           seconds == Signed(u)
<1>1. tv.seconds \in Nat /\ tv.useconds \in Nat
  OBVIOUS
<1>2. tv.useconds \div Micros \in Nat
  BY <1>1, Constants, DivModTypes
<1>3. tv.seconds + tv.useconds \div Micros \in Nat
  BY <1>1, <1>2
<1>4. u \in Nat
  BY <1>3, Constants, DivModTypes
<1> HIDE DEF u
<1>5. seconds \in Int
  BY <1>4, Constants DEF Signed
<1> HIDE DEF seconds
<1>6. CDiv(seconds, SecondsPerDay) \in Int
  BY <1>5, Constants, CDivTypes
<1>7. CMod(seconds, SecondsPerDay) \in Int
  BY <1>5, Constants, CDivTypes
<1>8. CDiv(CMod(seconds, SecondsPerDay), SecondsPerMinute) \in Int
  BY <1>7, Constants, CDivTypes
<1>9. (tv.seconds % SecondsPerMinute) * TICKS_PER_SECOND
         + tv.useconds \div (Micros \div TICKS_PER_SECOND) \in Int
  <2>1. tv.seconds % SecondsPerMinute \in Nat
    BY <1>1, Constants, DivModTypes
  <2>2. Micros \div TICKS_PER_SECOND \in Nat /\ Micros \div TICKS_PER_SECOND > 0
    <3>1. /\ Micros \div TICKS_PER_SECOND \in Nat
          /\ Micros = (Micros \div TICKS_PER_SECOND) * TICKS_PER_SECOND + (Micros % TICKS_PER_SECOND)
      BY Constants, DivModTypes
    <3>2. Micros % TICKS_PER_SECOND = 0
      BY AttributesAssumption
    <3>3. \A q, t \in Nat : q * t + 0 > 0 => q > 0
      OBVIOUS
    <3>4. QED
      BY <3>1, <3>2, <3>3, Constants
  <2>3. tv.useconds \div (Micros \div TICKS_PER_SECOND) \in Nat
    BY <1>1, <2>2, DivModTypes
  <2>4. \A p, q, t \in Nat : p * t + q \in Int
    OBVIOUS
  <2>5. QED
    BY <2>1, <2>3, <2>4, Constants
<1>10. QED
  BY <1>6, <1>8, <1>9, Zenon DEF timeval2DateStamp, u, seconds

LEMMA IdTypes ==
    ASSUME NEW uid \in Nat
    PROVE  nfsuid2UID(uid) \in Nat /\ nfsgid2GID(uid) \in Nat
BY Constants DEF nfsuid2UID, nfsgid2GID

LEMMA TypeNames ==
    ASSUME NEW type
    PROVE  NFSType2EntryType(type) \in EntryTypes
<1>1. CASE type \in {"NFDIR", "NFREG", "NFLNK", "NFCHR"}
  BY <1>1, Zenon DEF NFSType2EntryType, EntryTypes
<1>2. CASE type \in {"NFBLK", "NFSOCK", "NFFIFO"}
  BY <1>2, Zenon DEF NFSType2EntryType, EntryTypes
<1>3. CASE type \notin {"NFDIR", "NFREG", "NFLNK", "NFCHR", "NFBLK", "NFSOCK", "NFFIFO"}
  BY <1>3, Zenon DEF NFSType2EntryType, EntryTypes
<1>4. QED
  BY <1>1, <1>2, <1>3

LEMMA ShownTypes ==
    ASSUME NEW a \in Attrs
    PROVE  FAttr2FIB(a) \in Shown /\ TagsOf(a) \in Shown
<1>1. /\ a.mode \in SUBSET ModeBits /\ a.uid \in Nat /\ a.gid \in Nat
      /\ a.mtime \in [seconds : Nat, useconds : Nat]
  BY DEF Attrs
<1>2. timeval2DateStamp(a.mtime) \in [days : Int, minute : Int, tick : Int]
  BY <1>1, DateTypes
<1>3. NFSMode2Protection(a.mode) \in SUBSET ProtectionBits
  BY Zenon DEF NFSMode2Protection
<1>4. <<nfsuid2UID(a.uid), nfsgid2GID(a.gid)>> \in Nat \X Nat /\ <<a.uid, a.gid>> \in Nat \X Nat
  BY <1>1, IdTypes
<1>5. NFSType2EntryType(a.type) \in EntryTypes
  BY TypeNames
<1>6. QED
  BY <1>2, <1>3, <1>4, <1>5 DEF Shown, FAttr2FIB, TagsOf

\* What a SET puts into an attribute.
LEMMA GivenTypes ==
    /\ \A v \in Masks : au_Protection2umode(v) \in SUBSET ModeBits
    /\ \A v \in Dates : DateStamp2timeval(v) \in [seconds : Nat, useconds : Nat]
    /\ \A v \in Owners : v[1] \in Nat /\ v[2] \in Nat
<1>1. ASSUME NEW v \in Masks
      PROVE  au_Protection2umode(v) \in SUBSET ModeBits
  BY Zenon DEF au_Protection2umode
<1>2. ASSUME NEW v \in Dates
      PROVE  DateStamp2timeval(v) \in [seconds : Nat, useconds : Nat]
  <2>1. v.days \in Nat /\ v.minute \in Nat /\ v.tick \in Nat
    BY AttributesAssumption DEF DateStamps
  <2>2. v.tick \div TICKS_PER_SECOND \in Nat /\ v.tick % TICKS_PER_SECOND \in Nat
    BY <2>1, Constants, DivModTypes
  <2>3. \A a, b, c, d, e \in Nat : (a * b + c) * d + e \in Nat /\ a * b \in Nat
    OBVIOUS
  <2>4. /\ (v.days * MinutesPerDay + v.minute) * SecondsPerMinute + v.tick \div TICKS_PER_SECOND \in Nat
        /\ (v.tick % TICKS_PER_SECOND) * Micros \in Nat
    BY <2>1, <2>2, <2>3, Constants
  <2>5. /\ ((v.days * MinutesPerDay + v.minute) * SecondsPerMinute
              + v.tick \div TICKS_PER_SECOND) % Word \in Nat
        /\ ((v.tick % TICKS_PER_SECOND) * Micros) \div TICKS_PER_SECOND \in Nat
    BY <2>4, Constants, DivModTypes
  <2>6. QED
    BY <2>5, Zenon DEF DateStamp2timeval
<1>3. ASSUME NEW v \in Owners
      PROVE  v[1] \in Nat /\ v[2] \in Nat
  BY AttributesAssumption
<1>4. QED
  BY <1>1, <1>2, <1>3

\* The three packets, one at a time.
LEMMA WithSetCases ==
    ASSUME NEW attr
    PROVE  /\ pkt.act = "SET_PROTECT" =>
                WithSet(attr) = [attr EXCEPT !.mode = au_Protection2umode(pkt.val)]
           /\ pkt.act = "SET_DATE" =>
                WithSet(attr) = [attr EXCEPT !.mtime = DateStamp2timeval(pkt.val)]
           /\ pkt.act = "SET_OWNER" =>
                WithSet(attr) = [attr EXCEPT !.uid = pkt.val[1], !.gid = pkt.val[2]]
<1>1. "SET_PROTECT" # "SET_DATE" /\ "SET_PROTECT" # "SET_OWNER" /\ "SET_DATE" # "SET_OWNER"
  OBVIOUS
<1>2. QED
  BY <1>1, Zenon DEF WithSet

LEMMA ValuesCases ==
    /\ Values("SET_PROTECT") = Masks
    /\ Values("SET_DATE") = Dates
    /\ Values("SET_OWNER") = Owners
    /\ \A act : act \notin Setters => Values(act) = {None}
<1>1. "SET_PROTECT" # "SET_DATE" /\ "SET_PROTECT" # "SET_OWNER" /\ "SET_DATE" # "SET_OWNER"
  OBVIOUS
<1>2. QED
  BY <1>1, Zenon DEF Values, Setters

LEMMA AssignmentCases ==
    ASSUME NEW act, NEW v, <<act, v>> \in Assignments
    PROVE  \/ act = "SET_PROTECT" /\ v \in Masks
           \/ act = "SET_DATE" /\ v \in Dates
           \/ act = "SET_OWNER" /\ v \in Owners
BY DEF Assignments

\* SETATTR changes what the packet is about, and nothing another SET gave.
LEMMA WithSetGives ==
    ASSUME NEW attr \in Attrs, <<pkt.act, pkt.val>> \in Assignments
    PROVE  /\ WithSet(attr) \in Attrs
           /\ Has(WithSet(attr), <<pkt.act, pkt.val>>)
           /\ \A s \in Assignments : s[1] # pkt.act /\ Has(attr, s) => Has(WithSet(attr), s)
<1>1. CASE pkt.act = "SET_PROTECT" /\ pkt.val \in Masks
  <2> DEFINE mode == au_Protection2umode(pkt.val)
  <2>1. mode \in SUBSET ModeBits
    BY <1>1, GivenTypes
  <2>2. WithSet(attr) = [attr EXCEPT !.mode = mode]
    BY <1>1, WithSetCases
  <2>3. <<pkt.act, pkt.val>>[1] = "SET_PROTECT" /\ <<pkt.act, pkt.val>>[2] = pkt.val
    BY <1>1
  <2> HIDE DEF mode
  <2>4. WithSet(attr) \in Attrs
    BY <2>1, <2>2 DEF Attrs
  <2>5. /\ WithSet(attr).mode = mode /\ WithSet(attr).mtime = attr.mtime
        /\ WithSet(attr).uid = attr.uid /\ WithSet(attr).gid = attr.gid
    BY <2>2 DEF Attrs
  <2>6. Has(WithSet(attr), <<pkt.act, pkt.val>>)
    BY <2>3, <2>5 DEF Has, mode
  <2>7. QED
    BY <1>1, <2>4, <2>5, <2>6 DEF Has
<1>2. CASE pkt.act = "SET_DATE" /\ pkt.val \in Dates
  <2> DEFINE mtime == DateStamp2timeval(pkt.val)
  <2>1. mtime \in [seconds : Nat, useconds : Nat]
    BY <1>2, GivenTypes
  <2>2. WithSet(attr) = [attr EXCEPT !.mtime = mtime]
    BY <1>2, WithSetCases
  <2>3. <<pkt.act, pkt.val>>[1] = "SET_DATE" /\ <<pkt.act, pkt.val>>[2] = pkt.val
    BY <1>2
  <2> HIDE DEF mtime
  <2>4. WithSet(attr) \in Attrs
    BY <2>1, <2>2 DEF Attrs
  <2>5. /\ WithSet(attr).mtime = mtime /\ WithSet(attr).mode = attr.mode
        /\ WithSet(attr).uid = attr.uid /\ WithSet(attr).gid = attr.gid
    BY <2>2 DEF Attrs
  <2>6. Has(WithSet(attr), <<pkt.act, pkt.val>>)
    BY <2>3, <2>5 DEF Has, mtime
  <2>7. QED
    BY <1>2, <2>4, <2>5, <2>6 DEF Has
<1>3. CASE pkt.act = "SET_OWNER" /\ pkt.val \in Owners
  <2>1. pkt.val[1] \in Nat /\ pkt.val[2] \in Nat
    BY <1>3, GivenTypes
  <2>2. WithSet(attr) = [attr EXCEPT !.uid = pkt.val[1], !.gid = pkt.val[2]]
    BY <1>3, WithSetCases
  <2>3. <<pkt.act, pkt.val>>[1] = "SET_OWNER" /\ <<pkt.act, pkt.val>>[2] = pkt.val
    BY <1>3
  <2>4. WithSet(attr) \in Attrs
    BY <2>1, <2>2 DEF Attrs
  <2>5. /\ WithSet(attr).uid = pkt.val[1] /\ WithSet(attr).gid = pkt.val[2]
        /\ WithSet(attr).mode = attr.mode /\ WithSet(attr).mtime = attr.mtime
    BY <2>2 DEF Attrs
  <2>6. Has(WithSet(attr), <<pkt.act, pkt.val>>)
    BY <2>3, <2>5 DEF Has
  <2>7. QED
    BY <1>3, <2>4, <2>5, <2>6 DEF Has
<1>4. QED
  BY <1>1, <1>2, <1>3, AssignmentCases

-----------------------------------------------------------------------------
\* Init and the steps all actions have in common.
LEMMA RootAttrTypes == RootAttr \in Attrs
<1>1. FirstAttr \in Attrs
  BY AttributesAssumption
<1>2. QED
  BY <1>1 DEF RootAttr, Attrs, ftype

LEMMA InitRight == Init => Inv
<1> SUFFICES ASSUME Init
             PROVE  Inv
  OBVIOUS
<1>1. PICK n \in Names, i \in Ids :
        /\ dir = [m \in Names |-> IF m = n THEN i ELSE None]
        /\ srv = [j \in Objects |->
                    IF j = RootId THEN [gen |-> 0, attr |-> RootAttr]
                    ELSE IF j = i THEN [gen |-> 1, attr |-> FirstAttr]
                    ELSE [gen |-> 0, attr |-> None]]
  BY DEF Init
<1>2. /\ cache = [j \in Objects |-> None] /\ dce = None /\ pkt = Idle /\ reply = None /\ ans = None
      /\ now = 0 /\ changes = 0 /\ changed = [j \in Objects |-> -1]
      /\ rebound = [m \in Names |-> -1] /\ lastSet = [j \in Objects |-> {}]
  BY DEF Init
<1>3. /\ FirstAttr \in Attrs /\ RootAttr \in Attrs /\ i # RootId /\ MaxChanges \in Nat
      /\ None \notin Objects
  BY AttributesAssumption, RootAttrTypes
<1>4. Typed
  <2>1. srv \in [Objects -> [gen : 0 .. MaxChanges + 1, attr : Attrs \cup {None}]]
    BY <1>1, <1>3
  <2>2. dir \in [Names -> Ids \cup {None}]
    BY <1>1
  <2>3. Idle \in Packets
    BY DEF Idle, Packets, Pcs, Locks
  <2>4. QED
    BY <1>2, <1>3, <2>1, <2>2, <2>3 DEF Typed
<1>5. pkt.pc = "idle"
  BY <1>2 DEF Idle
<1>6. Places
  BY <1>2, <1>5 DEF Places, Located, Calling
<1>7. Directory
  <2>1. \A m \in Names : dir[m] # None => m = n /\ srv[dir[m]].attr \in Attrs
    BY <1>1, <1>3 DEF Objects
  <2>2. \A j \in Objects : srv[j].gen <= changes + 1
    BY <1>1, <1>2
  <2>3. QED
    BY <2>1, <2>2 DEF Directory
<1>8. ServerRight /\ CacheRight /\ ReplyRight
  BY <1>2 DEF ServerRight, CacheRight, ReplyRight
<1>9. NamesRight
  BY <1>2, <1>5 DEF NamesRight
<1>10. AnswerRight
  BY <1>5 DEF AnswerRight, ShownCurrent, NameCurrent, Shows
<1>11. QED
  BY <1>4, <1>6, <1>7, <1>8, <1>9, <1>10 DEF Inv

\* A packet goes on.
LEMMA PacketTo ==
    ASSUME pkt \in Packets, NEW pc \in Pcs, pkt' = [pkt EXCEPT !.pc = pc]
    PROVE  /\ pkt' \in Packets
           /\ pkt'.pc = pc
           /\ pkt'.act = pkt.act /\ pkt'.name = pkt.name /\ pkt'.val = pkt.val
           /\ pkt'.lock = pkt.lock /\ pkt'.at = pkt.at /\ pkt'.obj = pkt.obj
BY DEF Packets

\* As long as nothing is shown, nothing wrong is.
LEMMA NothingShown ==
    /\ pkt.pc # "done" => AnswerRight
    /\ pkt'.pc # "done" => AnswerRight'
BY DEF AnswerRight, ShownCurrent, NameCurrent, Shows

LEMMA FailShowsNothing ==
    ASSUME pkt \in Packets, Fail
    PROVE  /\ pkt' \in Packets
           /\ pkt'.pc = "done"
           /\ pkt'.act = pkt.act /\ pkt'.at = pkt.at
           /\ ans' \in Answers
           /\ ans' # None
           /\ AnswerRight'
<1>1. ans' = [ok |-> FALSE] /\ pkt' = [pkt EXCEPT !.pc = "done"]
  BY DEF Fail, Answer
<1>2. ans' \in Answers /\ ans'.ok = FALSE
  BY <1>1 DEF Answers
<1>3. ans' # None
  BY <1>2, AttributesAssumption
<1>4. "done" \in Pcs
  BY DEF Pcs
<1>5. AnswerRight'
  BY <1>2 DEF AnswerRight, ShownCurrent, NameCurrent, Shows
<1>6. QED
  BY <1>1, <1>2, <1>3, <1>4, <1>5, PacketTo

\* Show: what is right and in time may be shown, under the name it was found by.
LEMMA ShowRight ==
    ASSUME Typed, NEW id \in Objects, NEW c, Show(c, id),
           c.gen \in Nat, c.attr \in Attrs, c.seen \in Int, c.birth \in Int,
           srv' = srv, dir' = dir, changed' = changed, rebound' = rebound, lastSet' = lastSet,
           c.seen >= 0 => Right(id, c) /\ c.birth >= now - AttrTTL,
           pkt.act = "GET_ATTRIBUTES" =>
             /\ dce # None /\ dce.birth >= pkt.at - DirTTL
             /\ dir[pkt.name] = id \/ rebound[pkt.name] >= dce.birth
    PROVE  /\ pkt' \in Packets
           /\ pkt'.pc = "done"
           /\ pkt'.act = pkt.act /\ pkt'.at = pkt.at
           /\ ans' \in Answers
           /\ ans' # None
           /\ AnswerRight'
<1>1. /\ ans' = [ok |-> TRUE, id |-> id, gen |-> c.gen, attr |-> c.attr, seen |-> c.seen,
                 birth |-> c.birth, dirBirth |-> IF dce = None THEN now ELSE dce.birth,
                 at |-> now, shown |-> Converted(c.attr)]
      /\ pkt' = [pkt EXCEPT !.pc = "done"]
  BY DEF Show, Answer, Converted
<1>2. "done" \in Pcs /\ pkt \in Packets /\ now \in Nat
  BY DEF Pcs, Typed
<1>3. /\ pkt' \in Packets /\ pkt'.pc = "done"
      /\ pkt'.act = pkt.act /\ pkt'.name = pkt.name /\ pkt'.at = pkt.at
  BY <1>1, <1>2, PacketTo
<1>4. /\ ans'.ok = TRUE /\ ans'.id = id /\ ans'.gen = c.gen /\ ans'.attr = c.attr
      /\ ans'.seen = c.seen /\ ans'.birth = c.birth /\ ans'.at = now
      /\ ans'.shown = Converted(c.attr)
      /\ ans'.dirBirth = IF dce = None THEN now ELSE dce.birth
  BY <1>1
<1>5. ans' \in Answers
  <2>1. Converted(c.attr) \in Shown
    BY ShownTypes DEF Converted
  <2>2. (IF dce = None THEN now ELSE dce.birth) \in Nat
    BY <1>2 DEF Typed, DirEntries
  <2>3. QED
    BY <1>1, <1>2, <2>1, <2>2 DEF Answers
<1>6. ans' # None
  BY <1>5, AttributesAssumption
<1>7. ShownCurrent'
  <2>1. c.seen >= 0 =>
          \/ srv[id].gen = c.gen /\ srv[id].attr = c.attr
          \/ changed[id] >= c.seen /\ c.birth >= now - AttrTTL
    BY DEF Right, Fresh
  <2>2. QED
    BY <1>4, <2>1 DEF ShownCurrent, Shows
<1>8. NameCurrent'
  <2>1. pkt.act = "GET_ATTRIBUTES" =>
          \/ dir[pkt.name] = id
          \/ rebound[pkt.name] >= ans'.dirBirth /\ ans'.dirBirth >= pkt.at - DirTTL
    BY <1>4
  <2>2. QED
    BY <1>3, <1>4, <2>1 DEF NameCurrent
<1>9. Shows' => /\ ans'.id \in Objects
                /\ ans'.shown = Converted(ans.attr)'
                /\ \A s \in lastSet'[ans'.id] : Has(ans'.attr, s)
  <2>1. c.seen >= 0 => \A s \in lastSet[id] : Has(c.attr, s)
    BY DEF Right
  <2>2. Converted(ans.attr)' = Converted(c.attr)
    BY <1>3, <1>4 DEF Converted
  <2>3. QED
    BY <1>4, <2>1, <2>2 DEF Shows
<1>10. QED
  BY <1>3, <1>5, <1>6, <1>7, <1>8, <1>9 DEF AnswerRight

\* attrs_Update and attrs_CreateAndInsert: the answer of a call goes into the
\* cache; a living entry keeps its time of birth.
LEMMA StoreRight ==
    ASSUME Inv, reply # None, reply.ok, Store
    PROVE  /\ reply.id \in Objects
           /\ cache' \in [Objects -> Entries \cup {None}]
           /\ \A i \in Objects : i # reply.id => cache'[i] = cache[i]
           /\ cache'[reply.id] \in Entries
           /\ InTime(cache'[reply.id])
           /\ Right(reply.id, cache'[reply.id])
<1> DEFINE birth == IF cache[reply.id] # None /\ ~IsDead(cache[reply.id], AttrTTL)
                      THEN cache[reply.id].birth ELSE now
           entry == [gen |-> reply.gen, attr |-> reply.attr, seen |-> reply.seen, birth |-> birth]
<1>1. /\ reply.id \in Objects /\ reply.gen \in Nat /\ reply.attr \in Attrs /\ reply.seen \in Nat
  BY DEF Inv, Typed, Replies
<1>2. now \in Nat /\ AttrTTL \in Nat /\ cache \in [Objects -> Entries \cup {None}]
  BY AttributesAssumption DEF Inv, Typed
<1>3. birth \in Nat /\ birth <= now /\ birth >= now - AttrTTL
  <2>1. CASE cache[reply.id] # None /\ ~IsDead(cache[reply.id], AttrTTL)
    <3>1. cache[reply.id].birth \in Nat
      BY <1>1, <1>2, <2>1 DEF Entries
    <3>2. InTime(cache[reply.id])
      BY <1>1, <2>1 DEF Inv, CacheRight
    <3>3. QED
      BY <2>1, <3>1, <3>2 DEF InTime
  <2>2. CASE ~(cache[reply.id] # None /\ ~IsDead(cache[reply.id], AttrTTL))
    BY <1>2, <2>2
  <2>3. QED
    BY <2>1, <2>2
<1>4. cache' = [cache EXCEPT ![reply.id] = entry]
  BY DEF Store, attrs_Update
<1> HIDE DEF birth
<1>5. entry \in Entries
  BY <1>1, <1>3 DEF Entries
<1>6. reply.seen <= now /\ Right(reply.id, reply)
  BY DEF Inv, ReplyRight
<1>7. InTime(entry) /\ Right(reply.id, entry)
  BY <1>3, <1>6 DEF InTime, Right, Fresh
<1> HIDE DEF entry
<1>8. cache' \in [Objects -> Entries \cup {None}] /\ cache'[reply.id] = entry
  BY <1>1, <1>2, <1>4, <1>5
<1>9. \A i \in Objects : i # reply.id => cache'[i] = cache[i]
  BY <1>2, <1>4
<1>10. QED
  BY <1>1, <1>5, <1>7, <1>8, <1>9

\* What a hit in the attribute cache has.
LEMMA HitRight ==
    ASSUME Inv, NEW id \in Objects, Cached(id), ~InWork(id)
    PROVE  /\ cache[id].gen \in Nat /\ cache[id].attr \in Attrs
           /\ cache[id].seen \in Int /\ cache[id].birth \in Int
           /\ Right(id, cache[id])
           /\ cache[id].birth >= now - AttrTTL
<1>1. cache[id] # None
  BY DEF Cached
<1>2. cache[id] \in Entries
  BY <1>1 DEF Inv, Typed
<1>3. InTime(cache[id]) /\ Right(id, cache[id])
  BY <1>1 DEF Inv, CacheRight
<1>4. QED
  BY <1>2, <1>3 DEF Entries, InTime

\* No dead entry is left for a lookup to find.
LEMMA AliveIsCached ==
    ASSUME Inv, NEW id \in Objects, ~Cached(id)
    PROVE  cache[id] = None
<1> SUFFICES ASSUME cache[id] # None
             PROVE  FALSE
  OBVIOUS
<1>1. cache[id] \in Entries /\ now \in Nat /\ AttrTTL \in Nat
  BY AttributesAssumption DEF Inv, Typed
<1>2. cache[id].birth >= now - AttrTTL
  BY DEF Inv, CacheRight, InTime
<1>3. ~IsDead(cache[id], AttrTTL)
  BY <1>1, <1>2 DEF IsDead, DeadAt, Entries
<1>4. QED
  BY <1>3 DEF Cached

\* What the server tells of an object that is there.
LEMMA AttributesRight ==
    ASSUME Inv, NEW id \in Objects, srv[id].attr \in Attrs
    PROVE  /\ Attributes(id) \in Replies
           /\ Attributes(id) # None
           /\ Attributes(id).ok = TRUE /\ Attributes(id).id = id /\ Attributes(id).seen = now
           /\ Attributes(id).gen = srv[id].gen /\ Attributes(id).attr = srv[id].attr
           /\ Right(id, Attributes(id))
<1>1. now \in Nat /\ srv[id].gen \in Nat
  BY AttributesAssumption DEF Inv, Typed
<1>2. Attributes(id) = [ok |-> TRUE, id |-> id, gen |-> srv[id].gen, attr |-> srv[id].attr, seen |-> now]
  BY DEF Attributes
<1>3. Attributes(id) \in Replies
  <2>1. Attributes(id) \in [ok : {TRUE}, id : Objects, gen : Nat, attr : Attrs, seen : Nat]
    BY <1>1, <1>2
  <2>2. QED
    BY <2>1 DEF Replies
<1>4. Attributes(id) # None
  BY <1>3, AttributesAssumption
<1>5. Right(id, Attributes(id))
  BY <1>2 DEF Right, Fresh, Inv, ServerRight
<1>6. QED
  BY <1>2, <1>3, <1>4, <1>5

LEMMA FailedTypes == Failed \in Replies /\ Failed # None /\ Failed.ok = FALSE
<1>1. Failed \in Replies /\ Failed.ok = FALSE
  BY DEF Failed, Replies
<1>2. QED
  BY <1>1, AttributesAssumption

\* GETATTR and LOOKUP: the answer is lost or right.
LEMMA GetAttrAnswer ==
    ASSUME Inv, NEW id \in Objects, NEW gen, GetAttrCall(id, gen)
    PROVE  /\ reply' \in Replies
           /\ reply' # None
           /\ reply'.ok => reply'.seen = now /\ reply'.id = id /\ Right(id, reply')
<1>1. reply' = Failed \/ (Valid(id, gen) /\ reply' = Attributes(id))
  BY DEF GetAttrCall, Ask
<1>2. CASE reply' = Failed
  BY <1>2, FailedTypes
<1>3. CASE Valid(id, gen) /\ reply' = Attributes(id)
  <2>1. srv[id].attr \in Attrs
    BY <1>3 DEF Valid, Exists, Inv, Typed
  <2>2. QED
    BY <1>3, <2>1, AttributesRight
<1>4. QED
  BY <1>1, <1>2, <1>3

LEMMA LookupAnswer ==
    ASSUME Inv, NEW name \in Names, LookupCall(name)
    PROVE  /\ reply' \in Replies
           /\ reply' # None
           /\ reply'.ok => /\ reply'.seen = now
                           /\ reply'.id = dir[name]
                           /\ reply'.id \in Objects
                           /\ Right(reply'.id, reply')
<1>1. reply' = Failed \/ (dir[name] # None /\ reply' = Attributes(dir[name]))
  BY DEF LookupCall, Ask
<1>2. CASE reply' = Failed
  BY <1>2, FailedTypes
<1>3. CASE dir[name] # None /\ reply' = Attributes(dir[name])
  <2>1. dir[name] \in Objects
    BY <1>3 DEF Inv, Typed, Objects
  <2>2. srv[dir[name]].attr \in Attrs
    BY <1>3 DEF Inv, Directory
  <2>3. QED
    BY <1>3, <2>1, <2>2, AttributesRight
<1>4. QED
  BY <1>1, <1>2, <1>3

\* What a step must show that leaves the server, the clock and the history
\* alone: of the cache, only what it puts there.
LEMMA QuietStep ==
    ASSUME Inv, UNCHANGED <<server, now, ghosts>>,
           cache' \in [Objects -> Entries \cup {None}],
           \A i \in Objects : \/ cache'[i] = None
                              \/ InTime(cache'[i]) /\ Right(i, cache'[i])
                              \/ cache'[i] = cache[i] /\ ~InWork(i),
           dce' \in DirEntries \cup {None}, pkt' \in Packets,
           reply' \in Replies \cup {None}, ans' \in Answers \cup {None},
           Places', ReplyRight', NamesRight', AnswerRight'
    PROVE  Inv'
<1>1. /\ srv' = srv /\ dir' = dir /\ now' = now /\ changes' = changes
      /\ changed' = changed /\ rebound' = rebound /\ lastSet' = lastSet
  BY DEF server, ghosts
<1>2. Typed'
  BY <1>1 DEF Inv, Typed
<1>3. Directory'
  BY <1>1 DEF Inv, Directory
<1>4. ServerRight'
  BY <1>1 DEF Inv, ServerRight
<1>5. CacheRight'
  <2> SUFFICES ASSUME NEW i \in Objects, cache'[i] # None
               PROVE  InTime(cache[i])' /\ Right(i, cache[i])'
    BY DEF CacheRight
  <2>1. InTime(cache'[i]) /\ Right(i, cache'[i])
    <3>1. CASE cache'[i] = cache[i] /\ ~InWork(i)
      BY <3>1 DEF Inv, CacheRight
    <3>2. QED
      BY <3>1
  <2>2. QED
    BY <1>1, <2>1 DEF InTime, Right, Fresh
<1>6. QED
  BY <1>2, <1>3, <1>4, <1>5 DEF Inv

\* The cache as it is, outside a SET.
LEMMA CacheKept ==
    ASSUME Inv, cache' = cache, pkt.pc # "set"
    PROVE  /\ cache' \in [Objects -> Entries \cup {None}]
           /\ \A i \in Objects : cache'[i] = cache[i] /\ ~InWork(i)
BY DEF Inv, Typed, InWork

LEMMA LocateDirRight ==
    ASSUME Inv, LocateDir
    PROVE  Inv'
<1>1. /\ pkt.pc = "dir" /\ UNCHANGED <<server, now, ghosts>> /\ cache' = cache /\ ans' = ans
      /\ pkt \in Packets /\ now \in Nat
  BY DEF LocateDir, Inv, Typed
<1>2. /\ reply = None /\ ans = None /\ pkt.act \in Setters \cup {"GET_ATTRIBUTES"} /\ pkt.name \in Names
      /\ pkt.act \in Setters => <<pkt.act, pkt.val>> \in Assignments
  BY <1>1 DEF Inv, Places, Calling, Located
<1>3. /\ srv' = srv /\ dir' = dir /\ now' = now /\ rebound' = rebound
      /\ changed' = changed /\ lastSet' = lastSet
  BY <1>1 DEF server, ghosts
<1>4. /\ cache' \in [Objects -> Entries \cup {None}]
      /\ \A i \in Objects : cache'[i] = cache[i] /\ ~InWork(i)
  BY <1>1, CacheKept
<1>5. pkt.at \in Nat /\ pkt.at <= now /\ DirTTL \in Nat
  BY <1>1, AttributesAssumption DEF Inv, NamesRight, Packets
<1>6. CASE DirAlive /\ To("find") /\ UNCHANGED <<dce, reply>>
  <2>1. "find" \in Pcs /\ pkt' = [pkt EXCEPT !.pc = "find"] /\ dce # None /\ dce' = dce /\ reply' = reply
    BY <1>6 DEF Pcs, To, DirAlive
  <2>2. /\ pkt' \in Packets /\ pkt'.pc = "find" /\ pkt'.act = pkt.act /\ pkt'.name = pkt.name
        /\ pkt'.at = pkt.at /\ pkt'.val = pkt.val
    BY <1>1, <2>1, PacketTo
  <2>3. Places'
    BY <1>1, <1>2, <2>1, <2>2 DEF Places, Calling, Located
  <2>4. ReplyRight' /\ AnswerRight'
    BY <1>2, <2>1, <2>2, NothingShown DEF ReplyRight
  <2>5. NamesRight'
    BY <1>1, <1>3, <1>5, <2>1, <2>2 DEF Inv, NamesRight
  <2>6. QED
    BY <1>1, <1>4, <2>1, <2>2, <2>3, <2>4, <2>5, QuietStep DEF Inv, Typed
<1>7. CASE dce' = NewDCE /\ To("find") /\ UNCHANGED reply
  <2>1. "find" \in Pcs /\ pkt' = [pkt EXCEPT !.pc = "find"] /\ reply' = reply
    BY <1>7 DEF Pcs, To
  <2>2. /\ pkt' \in Packets /\ pkt'.pc = "find" /\ pkt'.act = pkt.act /\ pkt'.name = pkt.name
        /\ pkt'.at = pkt.at /\ pkt'.val = pkt.val
    BY <1>1, <2>1, PacketTo
  <2>3. dce' \in DirEntries /\ dce' # None /\ dce'.birth = now /\ \A n \in Names : dce'.names[n] = None
    <3>1. dce' \in DirEntries /\ dce'.birth = now /\ \A n \in Names : dce'.names[n] = None
      BY <1>1, <1>7 DEF NewDCE, DirEntries
    <3>2. QED
      BY <3>1, AttributesAssumption
  <2>4. Places'
    BY <1>1, <1>2, <2>1, <2>2, <2>3 DEF Places, Calling, Located
  <2>5. ReplyRight' /\ AnswerRight'
    BY <1>2, <2>1, <2>2, NothingShown DEF ReplyRight
  <2>6. NamesRight'
    BY <1>1, <1>3, <1>5, <2>2, <2>3 DEF NamesRight
  <2>7. QED
    BY <1>1, <1>4, <2>1, <2>2, <2>3, <2>4, <2>5, <2>6, QuietStep DEF Inv, Typed
<1>8. CASE ~DirAlive /\ GetAttrCall(RootId, 0) /\ To("dirattr") /\ UNCHANGED dce
  <2>1. "dirattr" \in Pcs /\ pkt' = [pkt EXCEPT !.pc = "dirattr"] /\ dce' = dce /\ RootId \in Objects
    BY <1>8 DEF Pcs, To, Objects
  <2>2. /\ pkt' \in Packets /\ pkt'.pc = "dirattr" /\ pkt'.act = pkt.act /\ pkt'.name = pkt.name
        /\ pkt'.at = pkt.at /\ pkt'.val = pkt.val
    BY <1>1, <2>1, PacketTo
  <2>3. /\ reply' \in Replies /\ reply' # None
        /\ reply'.ok => reply'.seen = now /\ Right(reply'.id, reply')
    BY <1>8, <2>1, GetAttrAnswer
  <2>4. Places'
    BY <1>1, <1>2, <2>1, <2>2, <2>3 DEF Places, Calling, Located
  <2>5. ReplyRight'
    BY <1>1, <1>3, <2>3 DEF ReplyRight, Right, Fresh
  <2>6. AnswerRight'
    BY <2>2, NothingShown
  <2>7. NamesRight'
    BY <1>1, <1>3, <1>5, <2>1, <2>2 DEF Inv, NamesRight
  <2>8. QED
    BY <1>1, <1>4, <2>1, <2>2, <2>3, <2>4, <2>5, <2>6, <2>7, QuietStep DEF Inv, Typed
<1>9. QED
  BY <1>6, <1>7, <1>8 DEF LocateDir

\* The cache after the answer of a call was stored, outside a SET.
LEMMA CacheStored ==
    ASSUME Inv, reply # None, reply.ok, Store, pkt.pc # "set"
    PROVE  /\ cache' \in [Objects -> Entries \cup {None}]
           /\ \A i \in Objects : \/ InTime(cache'[i]) /\ Right(i, cache'[i])
                                 \/ cache'[i] = cache[i] /\ ~InWork(i)
<1>1. \A i \in Objects : ~InWork(i)
  BY DEF InWork
<1>2. QED
  BY <1>1, StoreRight

LEMMA DirAttrReplyRight ==
    ASSUME Inv, DirAttrReply
    PROVE  Inv'
<1>1. /\ pkt.pc = "dirattr" /\ UNCHANGED <<server, now, ghosts>> /\ reply' = None
      /\ pkt \in Packets /\ now \in Nat /\ dce \in DirEntries \cup {None} /\ ans \in Answers \cup {None}
  BY DEF DirAttrReply, Inv, Typed
<1>2. /\ reply # None /\ ans = None /\ pkt.act \in Setters \cup {"GET_ATTRIBUTES"} /\ pkt.name \in Names
      /\ pkt.act \in Setters => <<pkt.act, pkt.val>> \in Assignments
  BY <1>1 DEF Inv, Places, Calling, Located
<1>3. /\ srv' = srv /\ dir' = dir /\ now' = now /\ rebound' = rebound
      /\ changed' = changed /\ lastSet' = lastSet
  BY <1>1 DEF server, ghosts
<1>4. pkt.at \in Nat /\ pkt.at <= now /\ DirTTL \in Nat
  BY <1>1, AttributesAssumption DEF Inv, NamesRight, Packets
<1>5. ReplyRight'
  BY <1>1 DEF ReplyRight
<1>6. ASSUME Store \/ UNCHANGED cache, reply.ok \/ UNCHANGED cache
      PROVE  /\ cache' \in [Objects -> Entries \cup {None}]
             /\ \A i \in Objects : \/ InTime(cache'[i]) /\ Right(i, cache'[i])
                                   \/ cache'[i] = cache[i] /\ ~InWork(i)
  <2>1. CASE UNCHANGED cache
    BY <1>1, <2>1, CacheKept
  <2>2. CASE Store /\ reply.ok
    BY <1>1, <1>2, <2>2, CacheStored
  <2>3. QED
    BY <1>6, <2>1, <2>2
<1>7. CASE Fail /\ UNCHANGED dce /\ (Store \/ UNCHANGED cache) /\ (reply.ok \/ UNCHANGED cache)
  <2>1. /\ pkt' \in Packets /\ pkt'.pc = "done" /\ pkt'.act = pkt.act /\ pkt'.at = pkt.at
        /\ ans' \in Answers /\ ans' # None /\ AnswerRight'
    BY <1>1, <1>7, FailShowsNothing
  <2>2. Places'
    BY <1>1, <2>1 DEF Places, Calling, Located
  <2>3. NamesRight'
    BY <1>1, <1>3, <1>4, <1>7, <2>1 DEF Inv, NamesRight
  <2>4. QED
    BY <1>1, <1>5, <1>6, <1>7, <2>1, <2>2, <2>3, QuietStep
<1>8. CASE reply.ok /\ Store /\ dce' = NewDCE /\ To("find") /\ UNCHANGED ans
  <2>1. "find" \in Pcs /\ pkt' = [pkt EXCEPT !.pc = "find"] /\ ans' = ans
    BY <1>8 DEF Pcs, To
  <2>2. /\ pkt' \in Packets /\ pkt'.pc = "find" /\ pkt'.act = pkt.act /\ pkt'.name = pkt.name
        /\ pkt'.at = pkt.at /\ pkt'.val = pkt.val
    BY <1>1, <2>1, PacketTo
  <2>3. dce' \in DirEntries /\ dce' # None /\ dce'.birth = now /\ \A n \in Names : dce'.names[n] = None
    <3>1. dce' \in DirEntries /\ dce'.birth = now /\ \A n \in Names : dce'.names[n] = None
      BY <1>1, <1>8 DEF NewDCE, DirEntries
    <3>2. QED
      BY <3>1, AttributesAssumption
  <2>4. Places'
    BY <1>1, <1>2, <2>1, <2>2, <2>3 DEF Places, Calling, Located
  <2>5. AnswerRight'
    BY <2>2, NothingShown
  <2>6. NamesRight'
    BY <1>1, <1>3, <1>4, <2>2, <2>3 DEF NamesRight
  <2>7. QED
    BY <1>1, <1>5, <1>6, <1>8, <2>1, <2>2, <2>3, <2>4, <2>5, <2>6, QuietStep
<1>9. QED
  BY <1>7, <1>8 DEF DirAttrReply

LEMMA FindRight ==
    ASSUME Inv, Find
    PROVE  Inv'
<1>1. /\ pkt.pc = "find" /\ UNCHANGED <<server, now, ghosts>> /\ cache' = cache /\ dce' = dce
      /\ pkt \in Packets /\ now \in Nat /\ dce \in DirEntries \cup {None}
  BY DEF Find, Inv, Typed
<1>2. /\ reply = None /\ ans = None /\ pkt.act \in Setters \cup {"GET_ATTRIBUTES"} /\ pkt.name \in Names
      /\ pkt.act \in Setters => <<pkt.act, pkt.val>> \in Assignments
      /\ dce # None
  BY <1>1 DEF Inv, Places, Calling, Located
<1>3. /\ srv' = srv /\ dir' = dir /\ now' = now /\ rebound' = rebound
      /\ changed' = changed /\ lastSet' = lastSet
  BY <1>1 DEF server, ghosts
<1>4. /\ cache' \in [Objects -> Entries \cup {None}]
      /\ \A i \in Objects : cache'[i] = cache[i] /\ ~InWork(i)
  BY <1>1, CacheKept
<1>5. /\ dce.birth \in Nat /\ dce.birth <= now /\ dce.birth >= pkt.at - DirTTL
      /\ dce.names \in [Names -> Objects \cup {None}]
      /\ \A n \in Names : dce.names[n] # None => dir[n] = dce.names[n] \/ rebound[n] >= dce.birth
  BY <1>1, <1>2 DEF Inv, NamesRight, DirEntries
<1>6. CASE /\ pkt.act = "GET_ATTRIBUTES" /\ dce.names[pkt.name] # None /\ Cached(dce.names[pkt.name])
           /\ Show(cache[dce.names[pkt.name]], dce.names[pkt.name]) /\ UNCHANGED reply
  <2> DEFINE id == dce.names[pkt.name]
  <2>1. id \in Objects /\ ~InWork(id) /\ Cached(id) /\ Show(cache[id], id)
    BY <1>2, <1>4, <1>5, <1>6
  <2>2. dir[pkt.name] = id \/ rebound[pkt.name] >= dce.birth
    BY <1>2, <1>5, <1>6
  <2> HIDE DEF id
  <2>3. /\ cache[id].gen \in Nat /\ cache[id].attr \in Attrs
        /\ cache[id].seen \in Int /\ cache[id].birth \in Int
        /\ Right(id, cache[id]) /\ cache[id].birth >= now - AttrTTL
    BY <2>1, HitRight
  <2>4. /\ pkt' \in Packets /\ pkt'.pc = "done" /\ pkt'.act = pkt.act /\ pkt'.at = pkt.at
        /\ ans' \in Answers /\ ans' # None /\ AnswerRight'
    BY <1>2, <1>3, <1>5, <2>1, <2>2, <2>3, ShowRight DEF Inv
  <2>5. reply' = reply
    BY <1>6
  <2>6. Places' /\ ReplyRight'
    BY <1>1, <1>2, <2>4, <2>5 DEF Places, Calling, Located, ReplyRight
  <2>7. NamesRight'
    BY <1>1, <1>3, <2>4 DEF Inv, NamesRight
  <2>8. QED
    BY <1>1, <1>2, <1>4, <2>4, <2>5, <2>6, <2>7, QuietStep
<1>7. CASE LookupCall(pkt.name) /\ To("lookup") /\ UNCHANGED ans
  <2>1. "lookup" \in Pcs /\ pkt' = [pkt EXCEPT !.pc = "lookup"] /\ ans' = ans
    BY <1>7 DEF Pcs, To
  <2>2. /\ pkt' \in Packets /\ pkt'.pc = "lookup" /\ pkt'.act = pkt.act /\ pkt'.name = pkt.name
        /\ pkt'.at = pkt.at /\ pkt'.val = pkt.val
    BY <1>1, <2>1, PacketTo
  <2>3. /\ reply' \in Replies /\ reply' # None
        /\ reply'.ok => /\ reply'.seen = now /\ reply'.id = dir[pkt.name] /\ reply'.id \in Objects
                        /\ Right(reply'.id, reply')
    BY <1>2, <1>7, LookupAnswer
  <2>4. Places'
    BY <1>1, <1>2, <2>1, <2>2, <2>3 DEF Places, Calling, Located
  <2>5. ReplyRight'
    BY <1>1, <1>3, <2>3 DEF ReplyRight, Right, Fresh
  <2>6. AnswerRight'
    BY <2>2, NothingShown
  <2>7. NamesRight'
    BY <1>1, <1>3, <1>5, <2>1, <2>2, <2>3 DEF Inv, NamesRight
  <2>8. QED
    BY <1>1, <1>2, <1>4, <2>1, <2>2, <2>3, <2>4, <2>5, <2>6, <2>7, QuietStep
<1>8. QED
  BY <1>6, <1>7 DEF Find

LEMMA GetLookupReplyRight ==
    ASSUME Inv, GetLookupReply
    PROVE  Inv'
<1>1. /\ pkt.pc = "lookup" /\ pkt.act = "GET_ATTRIBUTES"
      /\ UNCHANGED <<server, now, ghosts>> /\ reply' = None
      /\ pkt \in Packets /\ now \in Nat /\ dce \in DirEntries \cup {None}
  BY DEF GetLookupReply, Inv, Typed
<1>2. reply # None /\ ans = None /\ pkt.name \in Names /\ dce # None
  BY <1>1 DEF Inv, Places, Calling, Located
<1>3. /\ srv' = srv /\ dir' = dir /\ now' = now /\ rebound' = rebound
      /\ changed' = changed /\ lastSet' = lastSet
  BY <1>1 DEF server, ghosts
<1>4. /\ dce.birth \in Nat /\ dce.birth <= now /\ dce.birth >= pkt.at - DirTTL
      /\ dce.names \in [Names -> Objects \cup {None}]
      /\ \A n \in Names : dce.names[n] # None => dir[n] = dce.names[n] \/ rebound[n] >= dce.birth
      /\ pkt.at <= now
      /\ reply.ok => /\ dce.birth <= reply.seen
                     /\ dir[pkt.name] = reply.id \/ rebound[pkt.name] >= reply.seen
  BY <1>1, <1>2 DEF Inv, NamesRight, DirEntries
<1>5. ReplyRight'
  BY <1>1 DEF ReplyRight
<1>6. CASE Fail /\ UNCHANGED dce /\ (UNCHANGED cache \/ (reply.ok /\ Store))
  <2>1. /\ pkt' \in Packets /\ pkt'.pc = "done" /\ pkt'.act = pkt.act /\ pkt'.at = pkt.at
        /\ ans' \in Answers /\ ans' # None /\ AnswerRight'
    BY <1>1, <1>6, FailShowsNothing
  <2>2. Places'
    BY <1>1, <2>1 DEF Places, Calling, Located
  <2>3. NamesRight'
    BY <1>1, <1>3, <1>4, <1>6, <2>1 DEF NamesRight
  <2>4. /\ cache' \in [Objects -> Entries \cup {None}]
        /\ \A i \in Objects : \/ InTime(cache'[i]) /\ Right(i, cache'[i])
                              \/ cache'[i] = cache[i] /\ ~InWork(i)
    BY <1>1, <1>2, <1>6, CacheKept, CacheStored
  <2>5. QED
    BY <1>1, <1>5, <1>6, <2>1, <2>2, <2>3, <2>4, QuietStep
<1>7. CASE /\ reply.ok /\ Store
           /\ dce' = [dce EXCEPT !.names[pkt.name] = reply.id]
           /\ Show(cache'[reply.id], reply.id)
  <2>1. /\ reply.id \in Objects /\ cache'[reply.id] \in Entries
        /\ InTime(cache'[reply.id]) /\ Right(reply.id, cache'[reply.id])
    BY <1>2, <1>7, StoreRight
  <2>2. dir[pkt.name] = reply.id \/ rebound[pkt.name] >= dce.birth
    <3>1. reply.seen \in Nat /\ rebound[pkt.name] \in Int
      BY <1>2, <1>7 DEF Inv, Typed, Replies
    <3>2. QED
      BY <1>4, <1>7, <3>1
  <2>3. /\ cache'[reply.id].gen \in Nat /\ cache'[reply.id].attr \in Attrs
        /\ cache'[reply.id].seen \in Int /\ cache'[reply.id].birth \in Int
        /\ cache'[reply.id].birth >= now - AttrTTL
    BY <2>1 DEF Entries, InTime
  <2>4. /\ pkt' \in Packets /\ pkt'.pc = "done" /\ pkt'.act = pkt.act /\ pkt'.at = pkt.at
        /\ ans' \in Answers /\ ans' # None /\ AnswerRight'
    <3> DEFINE c == cache'[reply.id]
    <3>1. /\ c.gen \in Nat /\ c.attr \in Attrs /\ c.seen \in Int /\ c.birth \in Int
          /\ c.birth >= now - AttrTTL /\ Right(reply.id, c) /\ Show(c, reply.id)
      BY <1>7, <2>1, <2>3
    <3> HIDE DEF c
    <3>2. QED
      BY <1>2, <1>3, <1>4, <2>1, <2>2, <3>1, ShowRight DEF Inv
  <2>5. /\ dce' \in DirEntries /\ dce' # None /\ dce'.birth = dce.birth
        /\ \A n \in Names : dce'.names[n] = IF n = pkt.name THEN reply.id ELSE dce.names[n]
    <3>1. dce \in DirEntries
      BY <1>1, <1>2
    <3>2. dce'.birth = dce.birth /\ dce'.names = [dce.names EXCEPT ![pkt.name] = reply.id]
      BY <1>7, <3>1 DEF DirEntries
    <3>3. dce' \in DirEntries
      BY <1>2, <1>7, <2>1, <3>1 DEF DirEntries
    <3>4. QED
      BY <1>2, <1>4, <3>2, <3>3, AttributesAssumption
  <2>6. Places'
    BY <1>1, <2>4 DEF Places, Calling, Located
  <2>7. NamesRight'
    BY <1>1, <1>3, <1>4, <2>2, <2>4, <2>5 DEF NamesRight
  <2>8. /\ cache' \in [Objects -> Entries \cup {None}]
        /\ \A i \in Objects : \/ InTime(cache'[i]) /\ Right(i, cache'[i])
                              \/ cache'[i] = cache[i] /\ ~InWork(i)
    BY <1>1, <1>2, <1>7, CacheStored
  <2>9. QED
    BY <1>1, <1>5, <2>4, <2>5, <2>6, <2>7, <2>8, QuietStep
<1>8. QED
  BY <1>6, <1>7 DEF GetLookupReply

LEMMA SetLookupReplyRight ==
    ASSUME Inv, SetLookupReply
    PROVE  Inv'
<1>1. /\ pkt.pc = "lookup" /\ pkt.act \in Setters
      /\ dir' = dir /\ dce' = dce /\ now' = now /\ changes' = changes /\ sets' = sets
      /\ changed' = changed /\ rebound' = rebound
      /\ pkt \in Packets /\ now \in Nat /\ dce \in DirEntries \cup {None} /\ ans \in Answers \cup {None}
  BY DEF SetLookupReply, Inv, Typed
<1>2. reply # None /\ ans = None /\ pkt.name \in Names /\ <<pkt.act, pkt.val>> \in Assignments
  BY <1>1 DEF Inv, Places, Calling, Located
<1>3. \A i \in Objects : ~InWork(i)
  BY <1>1 DEF InWork
<1>4. cache \in [Objects -> Entries \cup {None}]
  BY DEF Inv, Typed
<1>5. CASE ~reply.ok /\ Fail /\ reply' = None /\ cache' = attrs_Delete(cache, RootId)
           /\ UNCHANGED <<srv, lastSet>>
  <2>1. /\ pkt' \in Packets /\ pkt'.pc = "done" /\ pkt'.act = pkt.act /\ pkt'.at = pkt.at
        /\ ans' \in Answers /\ ans' # None /\ AnswerRight'
    BY <1>1, <1>5, FailShowsNothing
  <2>2. UNCHANGED <<server, now, ghosts>>
    BY <1>1, <1>5 DEF server, ghosts
  <2>3. Places' /\ ReplyRight'
    BY <1>1, <1>5, <2>1 DEF Places, Calling, Located, ReplyRight
  <2>4. NamesRight'
    BY <1>1, <2>1 DEF Inv, NamesRight
  <2>5. cache' = [cache EXCEPT ![RootId] = None]
    BY <1>5 DEF attrs_Delete
  <2>6. /\ cache' \in [Objects -> Entries \cup {None}]
        /\ \A i \in Objects : cache'[i] = None \/ cache'[i] = cache[i]
    BY <1>4, <2>5
  <2>7. QED
    BY <1>1, <1>3, <1>5, <2>1, <2>2, <2>3, <2>4, <2>6, QuietStep
<1>6. CASE /\ reply.ok /\ SetAttrCall(reply.id, reply.gen)
           /\ pkt' = [pkt EXCEPT !.pc = "set", !.obj = reply.id]
           /\ UNCHANGED <<cache, ans>>
  <2>1. reply.id \in Objects
    BY <1>2, <1>6 DEF Inv, Typed, Replies
  <2>2. /\ pkt' \in Packets /\ pkt'.pc = "set" /\ pkt'.obj = reply.id
        /\ pkt'.act = pkt.act /\ pkt'.at = pkt.at
    BY <1>1, <1>6, <2>1 DEF Packets, Pcs
  <2>3. AnswerRight'
    BY <2>2, NothingShown
  <2>4. NamesRight'
    BY <1>1, <2>2 DEF Inv, NamesRight
  <2>5. CASE reply' = Failed /\ UNCHANGED <<srv, lastSet>>
    <3>1. UNCHANGED <<server, now, ghosts>>
      BY <1>1, <2>5 DEF server, ghosts
    <3>2. Places' /\ ReplyRight'
      BY <1>1, <1>2, <1>6, <2>1, <2>2, <2>5, FailedTypes DEF Places, Calling, Located, ReplyRight
    <3>3. QED
      BY <1>1, <1>3, <1>4, <1>6, <2>2, <2>3, <2>4, <2>5, <3>1, <3>2, FailedTypes, QuietStep
  <2>6. CASE /\ Valid(reply.id, reply.gen)
             /\ srv' = [srv EXCEPT ![reply.id].attr = WithSet(@)]
             /\ lastSet' = [lastSet EXCEPT ![reply.id] =
                              {s \in @ : s[1] # pkt.act} \cup {<<pkt.act, pkt.val>>}]
             /\ reply' \in {Failed, [Attributes(reply.id) EXCEPT !.attr = WithSet(@)]}
    <3>1. PICK id \in Objects : id = reply.id
      BY <2>1
    <3>2. PICK attr \in Attrs : attr = srv[id].attr
      BY <2>6, <3>1 DEF Valid, Exists, Inv, Typed
    <3>3. PICK new : new = WithSet(attr)
      OBVIOUS
    <3>4. /\ new \in Attrs /\ Has(new, <<pkt.act, pkt.val>>)
          /\ \A s \in Assignments : s[1] # pkt.act /\ Has(attr, s) => Has(new, s)
      BY <1>2, <3>2, <3>3, WithSetGives
    <3>5. /\ srv \in [Objects -> [gen : 0 .. MaxChanges + 1, attr : Attrs \cup {None}]]
          /\ lastSet \in [Objects -> SUBSET Assignments]
      BY DEF Inv, Typed
    <3>6. srv' = [srv EXCEPT ![id] = [srv[id] EXCEPT !.attr = new]]
      BY <2>6, <3>1, <3>2, <3>3, <3>5, Zenon
    <3>7. /\ srv' \in [Objects -> [gen : 0 .. MaxChanges + 1, attr : Attrs \cup {None}]]
          /\ srv'[id].attr = new /\ srv'[id].gen = srv[id].gen
          /\ \A i \in Objects : i # id => srv'[i] = srv[i]
      BY <3>1, <3>4, <3>5, <3>6
    <3>8. /\ lastSet' \in [Objects -> SUBSET Assignments]
          /\ \A s \in lastSet'[id] : s = <<pkt.act, pkt.val>> \/ (s \in lastSet[id] /\ s[1] # pkt.act)
          /\ \A i \in Objects : i # id => lastSet'[i] = lastSet[i]
      <4>1. PICK more \in SUBSET Assignments :
              more = {s \in lastSet[id] : s[1] # pkt.act} \cup {<<pkt.act, pkt.val>>}
        BY <1>2, <3>5
      <4>2. lastSet' = [lastSet EXCEPT ![id] = more]
        BY <2>6, <3>1, <3>5, <4>1, Zenon
      <4>3. QED
        BY <3>1, <3>5, <4>1, <4>2
    <3>9. \A s \in lastSet'[id] : Has(new, s)
      <4>1. \A s \in lastSet[id] : s \in Assignments /\ Has(attr, s)
        BY <3>1, <3>2, <3>5 DEF Inv, ServerRight
      <4>2. QED
        BY <3>4, <3>8, <4>1
    <3>10. reply' = Failed \/ reply' = [Attributes(id) EXCEPT !.attr = new]
      BY <2>6, <3>1, <3>2, <3>3 DEF Attributes
    <3>11. /\ reply' \in Replies /\ reply' # None
           /\ reply'.ok => /\ reply'.id = id /\ reply'.seen = now
                           /\ reply'.gen = srv[id].gen /\ reply'.attr = new
      <4>1. CASE reply' = Failed
        BY <4>1, FailedTypes
      <4>2. CASE reply' = [Attributes(id) EXCEPT !.attr = new]
        <5>1. /\ reply' = [ok |-> TRUE, id |-> id, gen |-> srv[id].gen, attr |-> new, seen |-> now]
          BY <4>2 DEF Attributes
        <5>2. srv[id].gen \in Nat
          BY <3>5, AttributesAssumption
        <5>3. reply' \in [ok : {TRUE}, id : Objects, gen : Nat, attr : Attrs, seen : Nat]
          BY <1>1, <3>1, <3>4, <5>1, <5>2
        <5>4. reply' \in Replies
          BY <5>3 DEF Replies
        <5>5. QED
          BY <5>1, <5>4, AttributesAssumption
      <4>3. QED
        BY <3>10, <4>1, <4>2
    <3>12. Typed'
      BY <1>1, <1>6, <2>2, <3>7, <3>8, <3>11 DEF Inv, Typed
    <3>13. Places'
      BY <1>1, <1>2, <1>6, <2>1, <2>2, <3>1, <3>11 DEF Places, Calling, Located
    <3>14. Directory'
      BY <1>1, <3>4, <3>7 DEF Inv, Directory, Typed, Objects
    <3>15. ServerRight'
      <4> SUFFICES ASSUME NEW i \in Objects, NEW s \in lastSet'[i]
                   PROVE  Has(srv'[i].attr, s)
        BY DEF ServerRight
      <4>1. CASE i = id
        BY <3>7, <3>9, <4>1
      <4>2. CASE i # id
        BY <3>7, <3>8, <4>2 DEF Inv, ServerRight
      <4>3. QED
        BY <4>1, <4>2
    <3>16. CacheRight'
      <4> SUFFICES ASSUME NEW i \in Objects, cache'[i] # None
                   PROVE  InTime(cache[i])' /\ (InWork(i)' \/ Right(i, cache[i])')
        BY DEF CacheRight
      <4>1. cache' = cache
        BY <1>6
      <4>2. InTime(cache[i]) /\ Right(i, cache[i])
        BY <1>3, <4>1 DEF Inv, CacheRight
      <4>3. InTime(cache[i])'
        BY <1>1, <4>1, <4>2 DEF InTime
      <4>4. CASE i = id
        BY <2>2, <3>1, <4>3, <4>4 DEF InWork
      <4>5. CASE i # id
        BY <1>1, <3>7, <3>8, <4>1, <4>2, <4>3, <4>5 DEF Right, Fresh
      <4>6. QED
        BY <4>4, <4>5
    <3>17. ReplyRight'
      BY <1>1, <3>7, <3>9, <3>11 DEF ReplyRight, Right, Fresh
    <3>18. QED
      BY <2>3, <2>4, <3>12, <3>13, <3>14, <3>15, <3>16, <3>17 DEF Inv
  <2>7. QED
    BY <1>6, <2>5, <2>6 DEF SetAttrCall
<1>7. QED
  BY <1>5, <1>6 DEF SetLookupReply

LEMMA SetReplyRight ==
    ASSUME Inv, SetReply
    PROVE  Inv'
<1>1. /\ pkt.pc = "set" /\ UNCHANGED <<server, now, ghosts>> /\ reply' = None /\ dce' = dce
      /\ pkt \in Packets /\ dce \in DirEntries \cup {None}
  BY DEF SetReply, Inv, Typed
<1>2. reply # None /\ ans = None /\ pkt.obj \in Objects /\ (reply.ok => reply.id = pkt.obj)
  BY <1>1 DEF Inv, Places, Calling
<1>3. /\ srv' = srv /\ dir' = dir /\ now' = now /\ rebound' = rebound
      /\ changed' = changed /\ lastSet' = lastSet
  BY <1>1 DEF server, ghosts
<1>4. cache \in [Objects -> Entries \cup {None}] /\ \A i \in Objects : i # pkt.obj => ~InWork(i)
  BY DEF Inv, Typed, InWork
<1>5. ReplyRight'
  BY <1>1 DEF ReplyRight
<1>6. CASE reply.ok /\ (Store \/ (~Cached(reply.id) /\ UNCHANGED cache)) /\ Answer([ok |-> TRUE])
  <2>1. ans' = [ok |-> TRUE] /\ pkt' = [pkt EXCEPT !.pc = "done"] /\ "done" \in Pcs
    BY <1>6 DEF Answer, Pcs
  <2>2. /\ pkt' \in Packets /\ pkt'.pc = "done" /\ pkt'.act = pkt.act /\ pkt'.at = pkt.at
    BY <1>1, <2>1, PacketTo
  <2>3. ans' \in Answers /\ ans' # None
    <3>1. ans' \in [ok : BOOLEAN]
      BY <2>1
    <3>2. QED
      BY <3>1, AttributesAssumption DEF Answers
  <2>4. pkt.act \notin {"EXAMINE_OBJECT", "GET_ATTRIBUTES"}
    BY <1>1 DEF Inv, Places, Setters
  <2>5. AnswerRight'
    BY <2>2, <2>4 DEF AnswerRight, ShownCurrent, NameCurrent, Shows
  <2>6. Places' /\ NamesRight'
    BY <1>1, <1>3, <2>2, <2>3 DEF Inv, Places, NamesRight, Calling, Located
  <2>7. /\ cache' \in [Objects -> Entries \cup {None}]
        /\ \A i \in Objects : \/ cache'[i] = None
                              \/ InTime(cache'[i]) /\ Right(i, cache'[i])
                              \/ cache'[i] = cache[i] /\ ~InWork(i)
    <3>1. CASE Store
      BY <1>2, <1>4, <1>6, <3>1, StoreRight
    <3>2. CASE ~Cached(reply.id) /\ UNCHANGED cache
      BY <1>2, <1>4, <1>6, <3>2, AliveIsCached
    <3>3. QED
      BY <1>6, <3>1, <3>2
  <2>8. QED
    BY <1>1, <1>5, <2>2, <2>3, <2>5, <2>6, <2>7, QuietStep
<1>7. CASE ~reply.ok /\ Fail /\ cache' = attrs_Delete(cache, pkt.obj)
  <2>1. /\ pkt' \in Packets /\ pkt'.pc = "done" /\ pkt'.act = pkt.act /\ pkt'.at = pkt.at
        /\ ans' \in Answers /\ ans' # None /\ AnswerRight'
    BY <1>1, <1>7, FailShowsNothing
  <2>2. Places' /\ NamesRight'
    BY <1>1, <1>3, <2>1 DEF Inv, Places, NamesRight, Calling, Located
  <2>3. cache' = [cache EXCEPT ![pkt.obj] = None]
    BY <1>7 DEF attrs_Delete
  <2>4. /\ cache' \in [Objects -> Entries \cup {None}]
        /\ \A i \in Objects : cache'[i] = None \/ (cache'[i] = cache[i] /\ ~InWork(i))
    BY <1>2, <1>4, <2>3
  <2>5. QED
    BY <1>1, <1>5, <2>1, <2>2, <2>4, QuietStep
<1>8. QED
  BY <1>6, <1>7 DEF SetReply

LEMMA LockIdTypes ==
    ASSUME Inv, pkt.lock # None
    PROVE  LockId \in Objects
<1>1. pkt.lock \in Locks
  BY DEF Inv, Typed, Packets
<1>2. CASE pkt.lock = <<>>
  BY <1>2 DEF LockId, Objects
<1>3. CASE pkt.lock # <<>>
  <2>1. pkt.lock \in Ids \X (1 .. MaxChanges + 1)
    BY <1>1, <1>3 DEF Locks
  <2>2. QED
    BY <1>3, <2>1 DEF LockId, Objects
<1>4. QED
  BY <1>2, <1>3

LEMMA ExamineObjectRight ==
    ASSUME Inv, act_EXAMINE_OBJECT
    PROVE  Inv'
<1>1. /\ pkt.pc = "locked" /\ pkt.act = "EXAMINE_OBJECT"
      /\ UNCHANGED <<server, now, ghosts>> /\ cache' = cache /\ dce' = dce
      /\ pkt \in Packets /\ dce \in DirEntries \cup {None} /\ now \in Nat
  BY DEF act_EXAMINE_OBJECT, Inv, Typed
<1>2. reply = None /\ ans = None
  BY <1>1 DEF Inv, Places, Calling
<1>3. /\ srv' = srv /\ dir' = dir /\ now' = now /\ rebound' = rebound
      /\ changed' = changed /\ lastSet' = lastSet
  BY <1>1 DEF server, ghosts
<1>4. /\ cache' \in [Objects -> Entries \cup {None}]
      /\ \A i \in Objects : cache'[i] = cache[i] /\ ~InWork(i)
  BY <1>1, CacheKept
<1>5. ASSUME /\ pkt' \in Packets /\ pkt'.pc = "done" /\ pkt'.act = pkt.act /\ pkt'.at = pkt.at
             /\ ans' \in Answers /\ ans' # None /\ AnswerRight' /\ UNCHANGED reply
      PROVE  Inv'
  <2>1. Places' /\ NamesRight' /\ ReplyRight'
    BY <1>1, <1>2, <1>3, <1>5 DEF Inv, Places, NamesRight, ReplyRight, Calling, Located
  <2>2. QED
    BY <1>1, <1>2, <1>4, <1>5, <2>1, QuietStep
<1>6. CASE pkt.lock = None /\ Fail /\ UNCHANGED reply
  BY <1>1, <1>5, <1>6, FailShowsNothing
<1>7. CASE pkt.lock # None /\ Cached(LockId) /\ Show(cache[LockId], LockId) /\ UNCHANGED reply
  <2>1. PICK id \in Objects : id = LockId
    BY <1>7, LockIdTypes
  <2>2. ~InWork(id) /\ Cached(id) /\ Show(cache[id], id)
    BY <1>4, <1>7, <2>1
  <2>3. /\ cache[id].gen \in Nat /\ cache[id].attr \in Attrs
        /\ cache[id].seen \in Int /\ cache[id].birth \in Int
        /\ Right(id, cache[id]) /\ cache[id].birth >= now - AttrTTL
    BY <2>2, HitRight
  <2>4. pkt.act # "GET_ATTRIBUTES"
    BY <1>1
  <2>5. /\ pkt' \in Packets /\ pkt'.pc = "done" /\ pkt'.act = pkt.act /\ pkt'.at = pkt.at
        /\ ans' \in Answers /\ ans' # None /\ AnswerRight'
    BY <1>3, <2>2, <2>3, <2>4, ShowRight DEF Inv
  <2>6. QED
    BY <1>5, <1>7, <2>5
<1>8. CASE pkt.lock # None /\ GetAttrCall(LockId, LockGen) /\ To("getattr") /\ UNCHANGED ans
  <2>1. "getattr" \in Pcs /\ pkt' = [pkt EXCEPT !.pc = "getattr"] /\ ans' = ans
    BY <1>8 DEF Pcs, To
  <2>2. /\ pkt' \in Packets /\ pkt'.pc = "getattr" /\ pkt'.act = pkt.act /\ pkt'.name = pkt.name
        /\ pkt'.at = pkt.at /\ pkt'.val = pkt.val
    BY <1>1, <2>1, PacketTo
  <2>3. /\ reply' \in Replies /\ reply' # None
        /\ reply'.ok => reply'.seen = now /\ Right(reply'.id, reply')
    BY <1>8, LockIdTypes, GetAttrAnswer
  <2>4. Places' /\ NamesRight' /\ AnswerRight'
    BY <1>1, <1>2, <1>3, <2>1, <2>2, <2>3, NothingShown DEF Inv, Places, NamesRight, Calling, Located
  <2>5. ReplyRight'
    BY <1>1, <1>3, <2>3 DEF ReplyRight, Right, Fresh
  <2>6. QED
    BY <1>1, <1>2, <1>4, <2>1, <2>2, <2>3, <2>4, <2>5, QuietStep
<1>9. QED
  BY <1>6, <1>7, <1>8 DEF act_EXAMINE_OBJECT

LEMMA GetAttrReplyRight ==
    ASSUME Inv, GetAttrReply
    PROVE  Inv'
<1>1. /\ pkt.pc = "getattr" /\ UNCHANGED <<server, now, ghosts>> /\ reply' = None /\ dce' = dce
      /\ pkt \in Packets /\ dce \in DirEntries \cup {None} /\ now \in Nat
  BY DEF GetAttrReply, Inv, Typed
<1>2. reply # None /\ pkt.act # "GET_ATTRIBUTES"
  BY <1>1 DEF Inv, Places, Calling
<1>3. /\ srv' = srv /\ dir' = dir /\ now' = now /\ rebound' = rebound
      /\ changed' = changed /\ lastSet' = lastSet
  BY <1>1 DEF server, ghosts
<1>4. ASSUME /\ pkt' \in Packets /\ pkt'.pc = "done" /\ pkt'.act = pkt.act /\ pkt'.at = pkt.at
             /\ ans' \in Answers /\ ans' # None /\ AnswerRight'
             /\ (UNCHANGED cache \/ (reply.ok /\ Store))
      PROVE  Inv'
  <2>1. Places' /\ NamesRight' /\ ReplyRight'
    BY <1>1, <1>3, <1>4 DEF Inv, Places, NamesRight, ReplyRight, Calling, Located
  <2>2. /\ cache' \in [Objects -> Entries \cup {None}]
        /\ \A i \in Objects : \/ InTime(cache'[i]) /\ Right(i, cache'[i])
                              \/ cache'[i] = cache[i] /\ ~InWork(i)
    BY <1>1, <1>2, <1>4, CacheKept, CacheStored
  <2>3. QED
    BY <1>1, <1>4, <2>1, <2>2, QuietStep
<1>5. CASE reply.ok /\ Store /\ Show(cache'[reply.id], reply.id)
  <2>1. PICK id \in Objects : id = reply.id
    BY <1>2, <1>5, StoreRight
  <2>2. PICK c \in Entries : c = cache'[reply.id]
    BY <1>2, <1>5, StoreRight
  <2>3. InTime(c) /\ Right(id, c) /\ Show(c, id)
    BY <1>2, <1>5, <2>1, <2>2, StoreRight
  <2>4. /\ c.gen \in Nat /\ c.attr \in Attrs /\ c.seen \in Int /\ c.birth \in Int
        /\ c.birth >= now - AttrTTL
    BY <2>3 DEF Entries, InTime
  <2>5. /\ pkt' \in Packets /\ pkt'.pc = "done" /\ pkt'.act = pkt.act /\ pkt'.at = pkt.at
        /\ ans' \in Answers /\ ans' # None /\ AnswerRight'
    BY <1>2, <1>3, <2>3, <2>4, ShowRight DEF Inv
  <2>6. QED
    BY <1>4, <1>5, <2>5
<1>6. CASE FallsBack /\ UNCHANGED cache
  <2>1. PICK c : c = MntAttr
    OBVIOUS
  <2>2. /\ c.gen \in Nat /\ c.attr \in Attrs /\ c.seen \in Int /\ c.birth \in Int
        /\ ~(c.seen >= 0) /\ RootId \in Objects /\ Show(c, RootId)
    BY <1>6, <2>1, RootAttrTypes DEF MntAttr, FallsBack, Objects
  <2>3. /\ pkt' \in Packets /\ pkt'.pc = "done" /\ pkt'.act = pkt.act /\ pkt'.at = pkt.at
        /\ ans' \in Answers /\ ans' # None /\ AnswerRight'
    BY <1>2, <1>3, <2>2, ShowRight DEF Inv
  <2>4. QED
    BY <1>4, <1>6, <2>3
<1>7. CASE Fail /\ UNCHANGED cache
  BY <1>1, <1>4, <1>7, FailShowsNothing
<1>8. QED
  BY <1>5, <1>6, <1>7 DEF GetAttrReply

LEMMA InfoRight ==
    ASSUME Inv, act_INFO
    PROVE  Inv'
<1>1. /\ pkt.pc = "locked" /\ pkt.act = "INFO" /\ UNCHANGED <<server, now, ghosts>>
      /\ cache' = cache /\ dce' = dce /\ reply' = reply
      /\ pkt \in Packets /\ dce \in DirEntries \cup {None} /\ now \in Nat
  BY DEF act_INFO, Inv, Typed
<1>2. reply = None
  BY <1>1 DEF Inv, Places, Calling
<1>3. /\ srv' = srv /\ dir' = dir /\ now' = now /\ rebound' = rebound
      /\ changed' = changed /\ lastSet' = lastSet
  BY <1>1 DEF server, ghosts
<1>4. /\ cache' \in [Objects -> Entries \cup {None}]
      /\ \A i \in Objects : cache'[i] = cache[i] /\ ~InWork(i)
  BY <1>1, CacheKept
<1>5. /\ pkt' \in Packets /\ pkt'.pc = "done" /\ pkt'.act = pkt.act /\ pkt'.at = pkt.at
      /\ ans' \in Answers /\ ans' # None /\ AnswerRight'
  <2>1. CASE Fail
    BY <1>1, <2>1, FailShowsNothing
  <2>2. CASE \E blocks, bavail \in 0 .. 1 :
               Answer([ok |-> TRUE, blocks |-> blocks, used |-> (blocks - bavail) % Word])
    <3>1. PICK blocks \in 0 .. 1, bavail \in 0 .. 1 :
            Answer([ok |-> TRUE, blocks |-> blocks, used |-> (blocks - bavail) % Word])
      BY <2>2
    <3>2. PICK used \in Nat : used = (blocks - bavail) % Word
      <4>1. \A a \in Int, b \in Nat : b > 0 => a % b \in Nat
        OBVIOUS
      <4>2. blocks - bavail \in Int
        OBVIOUS
      <4>3. QED
        BY <4>1, <4>2, Constants
    <3>3. ans' = [ok |-> TRUE, blocks |-> blocks, used |-> used]
      BY <3>1, <3>2 DEF Answer
    <3>4. ans' \in [ok : {TRUE}, blocks : Nat, used : Nat]
      BY <3>3
    <3>5. ans' \in Answers /\ ans' # None
      BY <3>4, AttributesAssumption DEF Answers
    <3>6. pkt' = [pkt EXCEPT !.pc = "done"] /\ "done" \in Pcs
      BY <3>1 DEF Answer, Pcs
    <3>7. /\ pkt' \in Packets /\ pkt'.pc = "done" /\ pkt'.act = pkt.act /\ pkt'.at = pkt.at
      BY <1>1, <3>6, PacketTo
    <3>8. AnswerRight'
      BY <1>1, <3>7 DEF AnswerRight, ShownCurrent, NameCurrent, Shows
    <3>9. QED
      BY <3>5, <3>7, <3>8
  <2>3. QED
    BY <2>1, <2>2 DEF act_INFO
<1>6. Places' /\ NamesRight' /\ ReplyRight'
  BY <1>1, <1>2, <1>3, <1>5 DEF Inv, Places, NamesRight, ReplyRight, Calling, Located
<1>7. QED
  BY <1>1, <1>2, <1>4, <1>5, <1>6, QuietStep

\* attrs_UnLockAll, dc_UnLockAll.
LEMMA EndPacketRight ==
    ASSUME Inv, EndPacket
    PROVE  Inv'
<1>1. /\ pkt.pc = "done" /\ pkt' = Idle /\ ans' = None /\ dce' = dc_Bury(now)
      /\ UNCHANGED <<server, now, ghosts>> /\ reply' = reply
      /\ dce \in DirEntries \cup {None} /\ now \in Nat /\ DirTTL \in Nat
      /\ cache \in [Objects -> Entries \cup {None}]
  BY AttributesAssumption DEF EndPacket, Inv, Typed
<1>2. reply = None
  BY <1>1 DEF Inv, Places, Calling
<1>3. /\ srv' = srv /\ dir' = dir /\ now' = now /\ rebound' = rebound
      /\ changed' = changed /\ lastSet' = lastSet
  BY <1>1 DEF server, ghosts
<1>4. pkt' \in Packets /\ pkt'.pc = "idle"
  BY <1>1 DEF Idle, Packets, Pcs, Locks
<1>5. /\ dce' \in DirEntries \cup {None}
      /\ dce' # None => dce' = dce /\ dce.birth >= now - DirTTL
  <2>1. dce # None => dce.birth \in Nat
    BY <1>1 DEF DirEntries
  <2>2. QED
    BY <1>1, <2>1 DEF dc_Bury, DeadAt
<1>6. Places' /\ ReplyRight' /\ AnswerRight'
  BY <1>1, <1>2, <1>4, NothingShown DEF Places, ReplyRight, Calling, Located
<1>7. NamesRight'
  BY <1>1, <1>2, <1>3, <1>4, <1>5 DEF Inv, NamesRight
<1>8. /\ cache' \in [Objects -> Entries \cup {None}]
      /\ \A i \in Objects : cache'[i] = None \/ (cache'[i] = cache[i] /\ ~InWork(i))
  <2>1. PICK S : cache' = [i \in Objects |-> IF i \in S THEN None ELSE cache[i]]
    BY DEF EndPacket
  <2>2. QED
    BY <1>1, <2>1 DEF InWork
<1>9. QED
  BY <1>1, <1>2, <1>4, <1>5, <1>6, <1>7, <1>8, QuietStep

LEMMA StartRight ==
    ASSUME Inv, Start
    PROVE  Inv'
<1>1. /\ pkt.pc = "idle" /\ srv' = srv /\ dir' = dir /\ cache' = cache /\ dce' = dce
      /\ reply' = reply /\ ans' = ans /\ now' = now /\ changes' = changes
      /\ changed' = changed /\ rebound' = rebound /\ lastSet' = lastSet
      /\ now \in Nat
  BY DEF Start, server, Inv, Typed
<1>2. reply = None /\ ans = None
  BY <1>1 DEF Inv, Places, Calling
<1>3. ASSUME pkt' \in Packets, pkt'.pc \in {"dir", "locked"}, pkt'.at = now,
             pkt'.pc = "dir" =>
               /\ pkt'.act \in Setters \cup {"GET_ATTRIBUTES"} /\ pkt'.name \in Names
               /\ pkt'.act \in Setters => <<pkt'.act, pkt'.val>> \in Assignments,
             pkt'.pc = "locked" => pkt'.act \in {"EXAMINE_OBJECT", "INFO"}
      PROVE  Inv'
  <2>1. Typed'
    BY <1>1, <1>3 DEF Inv, Typed
  <2>2. Places'
    BY <1>1, <1>2, <1>3 DEF Places, Calling, Located
  <2>3. Directory' /\ ServerRight' /\ ReplyRight'
    BY <1>1, <1>2 DEF Inv, Directory, ServerRight, ReplyRight
  <2>4. CacheRight'
    BY <1>1 DEF Inv, CacheRight, InTime, InWork, Right, Fresh
  <2>5. NamesRight'
    BY <1>1, <1>3 DEF Inv, NamesRight
  <2>6. AnswerRight'
    BY <1>3, NothingShown
  <2>7. QED
    BY <2>1, <2>2, <2>3, <2>4, <2>5, <2>6 DEF Inv
<1>4. CASE \E act \in Setters \cup {"GET_ATTRIBUTES"}, n \in Names : \E v \in Values(act) :
             pkt' = [Idle EXCEPT !.pc = "dir", !.act = act, !.name = n, !.val = v, !.at = now]
  <2>1. PICK act \in Setters \cup {"GET_ATTRIBUTES"}, n \in Names :
          \E v \in Values(act) :
             pkt' = [Idle EXCEPT !.pc = "dir", !.act = act, !.name = n, !.val = v, !.at = now]
    BY <1>4
  <2>2. PICK v \in Values(act) :
          pkt' = [Idle EXCEPT !.pc = "dir", !.act = act, !.name = n, !.val = v, !.at = now]
    BY <2>1
  <2>3. /\ v \in Masks \cup Dates \cup Owners \cup {None}
        /\ act \in Setters => <<act, v>> \in Assignments
    <3>1. CASE act \in Setters
      BY <3>1, ValuesCases DEF Setters, Assignments
    <3>2. CASE act \notin Setters
      BY <3>2, ValuesCases
    <3>3. QED
      BY <3>1, <3>2
  <2>4. act \in Acts
    BY DEF Acts, Setters
  <2>5. pkt' = [pc |-> "dir", act |-> act, name |-> n, val |-> v, lock |-> None, at |-> now, obj |-> None]
    BY <2>2 DEF Idle
  <2>6. pkt' \in Packets
    BY <1>1, <2>3, <2>4, <2>5 DEF Packets, Pcs, Locks
  <2>7. QED
    BY <1>3, <2>3, <2>5, <2>6
<1>5. CASE \E l \in LocksHeld \cup {<<>>, None}, act \in {"EXAMINE_OBJECT", "INFO"} :
             pkt' = [Idle EXCEPT !.pc = "locked", !.act = act, !.lock = l, !.at = now]
  <2>1. PICK l \in LocksHeld \cup {<<>>, None}, act \in {"EXAMINE_OBJECT", "INFO"} :
             pkt' = [Idle EXCEPT !.pc = "locked", !.act = act, !.lock = l, !.at = now]
    BY <1>5
  <2>2. l \in Locks /\ act \in Acts
    BY DEF LocksHeld, Locks, Acts
  <2>3. pkt' = [pc |-> "locked", act |-> act, name |-> None, val |-> None,
                  lock |-> l, at |-> now, obj |-> None]
    BY <2>1 DEF Idle
  <2>4. pkt' \in Packets
    BY <1>1, <2>2, <2>3 DEF Packets, Pcs
  <2>5. QED
    BY <1>3, <2>3, <2>4
<1>6. QED
  BY <1>4, <1>5 DEF Start

\* Others act between two calls of the handler: what they change is younger
\* than all the handler knows.
LEMMA OthersRight ==
    ASSUME Inv, Waits, NEW ids, Touch(ids),
           srv' \in [Objects -> [gen : 0 .. MaxChanges + 1, attr : Attrs \cup {None}]],
           dir' \in [Names -> Ids \cup {None}], rebound' \in [Names -> Int],
           \A i \in Objects : i \notin ids => srv'[i] = srv[i],
           \A n \in Names : IF dir'[n] = dir[n] THEN rebound'[n] = rebound[n] ELSE rebound'[n] = now,
           Directory'
    PROVE  Inv'
<1>1. /\ changes' = changes + 1 /\ changes < MaxChanges
      /\ changed' = [i \in Objects |-> IF i \in ids THEN now ELSE changed[i]]
      /\ lastSet' = [i \in Objects |-> IF i \in ids THEN {} ELSE lastSet[i]]
      /\ cache' = cache /\ dce' = dce /\ pkt' = pkt /\ reply' = reply /\ ans' = ans /\ now' = now
  BY DEF Touch
<1>2. /\ now \in Nat /\ changes \in 0 .. MaxChanges /\ MaxChanges \in Nat
      /\ changed \in [Objects -> Int] /\ lastSet \in [Objects -> SUBSET Assignments]
      /\ cache \in [Objects -> Entries \cup {None}] /\ dce \in DirEntries \cup {None}
      /\ pkt \in Packets /\ reply \in Replies \cup {None}
  BY AttributesAssumption DEF Inv, Typed
<1>3. Typed'
  <2>1. changes' \in 0 .. MaxChanges
    BY <1>1, <1>2
  <2>2. changed' \in [Objects -> Int]
    BY <1>1, <1>2
  <2>3. lastSet' \in [Objects -> SUBSET Assignments]
    BY <1>1, <1>2
  <2>4. QED
    BY <1>1, <2>1, <2>2, <2>3 DEF Inv, Typed
<1>4. Places'
  BY <1>1 DEF Inv, Places
<1>5. ServerRight'
  BY <1>1, <1>2 DEF Inv, ServerRight
<1>6. ASSUME NEW i \in Objects, NEW c, Right(i, c), c.seen \in Nat, c.seen <= now
      PROVE  /\ \/ srv'[i].gen = c.gen /\ srv'[i].attr = c.attr
                \/ changed'[i] >= c.seen
             /\ \A s \in lastSet'[i] : Has(c.attr, s)
  <2>1. CASE i \in ids
    BY <1>1, <1>2, <1>6, <2>1
  <2>2. CASE i \notin ids
    BY <1>1, <1>6, <2>2 DEF Right, Fresh
  <2>3. QED
    BY <2>1, <2>2
<1>7. CacheRight'
  <2> SUFFICES ASSUME NEW i \in Objects, cache'[i] # None
               PROVE  InTime(cache[i])' /\ (InWork(i)' \/ Right(i, cache[i])')
    BY DEF CacheRight
  <2>1. PICK c \in Entries : c = cache[i]
    BY <1>1, <1>2
  <2>2. c.seen \in Nat /\ InTime(c) /\ (InWork(i) \/ Right(i, c))
    BY <1>1, <2>1 DEF Inv, CacheRight, Entries
  <2>3. InTime(cache[i])' /\ (InWork(i) => InWork(i)')
    BY <1>1, <2>1, <2>2 DEF InTime, InWork
  <2>4. Right(i, c) => Right(i, cache[i])'
    BY <1>1, <1>6, <2>1, <2>2 DEF Right, Fresh, InTime
  <2>5. QED
    BY <2>2, <2>3, <2>4
<1>8. ReplyRight'
  <2> SUFFICES ASSUME reply # None, reply.ok
               PROVE  reply.seen <= now /\ Right(reply.id, reply)'
    BY <1>1 DEF ReplyRight
  <2>1. reply.id \in Objects /\ reply.seen \in Nat /\ reply.seen <= now /\ Right(reply.id, reply)
    BY <1>2 DEF Inv, ReplyRight, Replies
  <2>2. PICK c : c = reply
    OBVIOUS
  <2>3. PICK i \in Objects : i = reply.id
    BY <2>1
  <2>4. Right(i, c) /\ c.seen \in Nat /\ c.seen <= now
    BY <2>1, <2>2, <2>3
  <2>5. QED
    BY <1>1, <1>6, <2>1, <2>2, <2>3, <2>4 DEF Right, Fresh
<1>9. NamesRight'
  <2>1. ASSUME NEW n \in Names, NEW id, NEW t \in Nat, t <= now, dir[n] = id \/ rebound[n] >= t
        PROVE  dir'[n] = id \/ rebound'[n] >= t
    BY <1>2, <2>1
  <2>2. dce # None => dce.birth \in Nat /\ dce.birth <= now
    BY <1>2 DEF Inv, NamesRight, DirEntries
  <2>3. pkt.pc = "lookup" /\ reply.ok =>
          reply.seen \in Nat /\ reply.seen <= now /\ pkt.name \in Names
    BY <1>2 DEF Inv, Places, Calling, Located, Replies, ReplyRight
  <2>4. dce # None => \A n \in Names : dce.names[n] # None =>
          dir'[n] = dce.names[n] \/ rebound'[n] >= dce.birth
    BY <2>1, <2>2 DEF Inv, NamesRight
  <2>5. pkt.pc = "lookup" /\ reply.ok =>
          dir'[pkt.name] = reply.id \/ rebound'[pkt.name] >= reply.seen
    BY <2>1, <2>3 DEF Inv, NamesRight
  <2>6. QED
    BY <1>1, <2>4, <2>5 DEF Inv, NamesRight
<1>10. AnswerRight'
  <2>1. pkt.pc # "done"
    BY DEF Waits, Inv, Places, Calling
  <2>2. QED
    BY <1>1, <2>1, NothingShown
<1>11. QED
  BY <1>3, <1>4, <1>5, <1>7, <1>8, <1>9, <1>10 DEF Inv

LEMMA ModifyRight ==
    ASSUME Inv, Modify
    PROVE  Inv'
<1>1. PICK i \in Objects, a \in OtherAttrs :
        /\ Exists(i)
        /\ srv' = [srv EXCEPT ![i].attr = [a EXCEPT !.type = srv[i].attr.type]]
        /\ Touch({i})
  BY DEF Modify
<1>2. /\ srv \in [Objects -> [gen : 0 .. MaxChanges + 1, attr : Attrs \cup {None}]]
      /\ dir \in [Names -> Ids \cup {None}] /\ rebound \in [Names -> Int]
      /\ dir' = dir /\ rebound' = rebound /\ Waits /\ changes' = changes + 1
      /\ changes \in 0 .. MaxChanges
  BY <1>1 DEF Inv, Typed, Modify, Touch
<1>3. PICK new \in Attrs : new = [a EXCEPT !.type = srv[i].attr.type]
  <2>1. srv[i].attr \in Attrs /\ a \in Attrs
    BY <1>1, <1>2, AttributesAssumption DEF Exists
  <2>2. QED
    BY <2>1 DEF Attrs
<1>4. srv' = [srv EXCEPT ![i] = [srv[i] EXCEPT !.attr = new]]
  BY <1>1, <1>2, <1>3, Zenon
<1>5. /\ srv' \in [Objects -> [gen : 0 .. MaxChanges + 1, attr : Attrs \cup {None}]]
      /\ srv'[i].attr = new /\ srv'[i].gen = srv[i].gen
      /\ \A j \in Objects : j # i => srv'[j] = srv[j]
  BY <1>2, <1>3, <1>4
<1>6. Directory'
  <2>1. \A n \in Names : dir[n] # None => dir[n] \in Objects /\ srv[dir[n]].attr \in Attrs
    BY <1>2 DEF Inv, Directory, Objects
  <2>2. \A n \in Names : dir'[n] # None => srv'[dir'[n]].attr \in Attrs
    BY <1>2, <1>3, <1>5, <2>1
  <2>3. \A j \in Objects : srv[j].gen \in Nat /\ srv[j].gen <= changes + 1
    BY <1>2, AttributesAssumption DEF Inv, Directory
  <2>4. \A j \in Objects : srv'[j].gen <= changes' + 1
    BY <1>2, <1>5, <2>3
  <2>5. QED
    BY <1>2, <2>2, <2>4 DEF Inv, Directory
<1>7. QED
  BY <1>1, <1>2, <1>5, <1>6, OthersRight

\* A name is given to another object.
LEMMA RebindRight ==
    ASSUME Inv, NEW n \in Names, NEW to \in Ids, Rebind(n, to)
    PROVE  /\ dir' \in [Names -> Ids \cup {None}]
           /\ rebound' \in [Names -> Int]
           /\ dir'[n] = to
           /\ \A m \in Names : m # n /\ dir'[m] # None => dir'[m] = dir[m] /\ dir[m] # to
           /\ \A m \in Names : IF dir'[m] = dir[m] THEN rebound'[m] = rebound[m] ELSE rebound'[m] = now
<1>1. /\ dir' = [m \in Names |-> IF m = n THEN to ELSE IF dir[m] = to THEN None ELSE dir[m]]
      /\ rebound' = [m \in Names |-> IF dir'[m] # dir[m] THEN now ELSE rebound[m]]
  BY DEF Rebind
<1>2. dir \in [Names -> Ids \cup {None}] /\ rebound \in [Names -> Int] /\ now \in Int
  BY DEF Inv, Typed
<1>3. dir' \in [Names -> Ids \cup {None}] /\ dir'[n] = to
  BY <1>1, <1>2
<1>4. rebound' \in [Names -> Int]
  BY <1>1, <1>2
<1>5. \A m \in Names : m # n /\ dir'[m] # None => dir'[m] = dir[m] /\ dir[m] # to
  BY <1>1, <1>2
<1>6. \A m \in Names : IF dir'[m] = dir[m] THEN rebound'[m] = rebound[m] ELSE rebound'[m] = now
  BY <1>1
<1>7. QED
  BY <1>3, <1>4, <1>5, <1>6

LEMMA ReplaceRight ==
    ASSUME Inv, Replace
    PROVE  Inv'
<1>1. PICK n \in Names, i \in Ids :
        /\ i \notin {dir[m] : m \in Names} \ {dir[n]}
        /\ Rebind(n, i)
        /\ srv' = [j \in Objects |->
                     IF j = i THEN [gen |-> srv[i].gen + 1, attr |-> FirstAttr]
                     ELSE IF j = dir[n] THEN [srv[j] EXCEPT !.attr = None] ELSE srv[j]]
        /\ Touch({i} \cup (IF dir[n] = None THEN {} ELSE {dir[n]}))
  BY DEF Replace
<1>2. /\ srv \in [Objects -> [gen : 0 .. MaxChanges + 1, attr : Attrs \cup {None}]]
      /\ dir \in [Names -> Ids \cup {None}]
      /\ Waits /\ changes' = changes + 1 /\ changes < MaxChanges /\ changes \in 0 .. MaxChanges
      /\ MaxChanges \in Nat /\ FirstAttr \in Attrs /\ i \in Objects /\ None \notin Objects
  BY <1>1, AttributesAssumption DEF Inv, Typed, Touch, Objects
<1>3. /\ dir' \in [Names -> Ids \cup {None}] /\ rebound' \in [Names -> Int] /\ dir'[n] = i
      /\ \A m \in Names : m # n /\ dir'[m] # None => dir'[m] = dir[m] /\ dir[m] # i
      /\ \A m \in Names : IF dir'[m] = dir[m] THEN rebound'[m] = rebound[m] ELSE rebound'[m] = now
  BY <1>1, RebindRight
<1>4. \A j \in Objects : srv[j].gen \in Nat /\ srv[j].gen <= changes + 1
  BY <1>2 DEF Inv, Directory
<1>5. [gen |-> srv[i].gen + 1, attr |-> FirstAttr] \in [gen : 0 .. MaxChanges + 1, attr : Attrs \cup {None}]
  BY <1>2, <1>4
<1>6. /\ srv' \in [Objects -> [gen : 0 .. MaxChanges + 1, attr : Attrs \cup {None}]]
      /\ srv'[i].attr = FirstAttr /\ srv'[i].gen = srv[i].gen + 1
      /\ \A j \in Objects : j # i => srv'[j].gen = srv[j].gen
      /\ \A j \in Objects : j # i /\ j # dir[n] => srv'[j] = srv[j]
  <2>1. \A j \in Objects : j # i => srv'[j] = IF j = dir[n] THEN [srv[j] EXCEPT !.attr = None] ELSE srv[j]
    BY <1>1
  <2>2. \A r \in [gen : 0 .. MaxChanges + 1, attr : Attrs \cup {None}] :
          /\ [r EXCEPT !.attr = None] \in [gen : 0 .. MaxChanges + 1, attr : Attrs \cup {None}]
          /\ [r EXCEPT !.attr = None].gen = r.gen
    OBVIOUS
  <2>3. srv'[i] = [gen |-> srv[i].gen + 1, attr |-> FirstAttr]
    BY <1>1, <1>2
  <2>4. \A j \in Objects : srv'[j] \in [gen : 0 .. MaxChanges + 1, attr : Attrs \cup {None}]
    BY <1>2, <1>5, <2>1, <2>2, <2>3
  <2>5. srv' \in [Objects -> [gen : 0 .. MaxChanges + 1, attr : Attrs \cup {None}]]
    BY <1>1, <2>4
  <2>6. QED
    BY <1>2, <2>1, <2>2, <2>3, <2>5
<1>7. \A j \in Objects : j \notin {i} \cup (IF dir[n] = None THEN {} ELSE {dir[n]}) => srv'[j] = srv[j]
  BY <1>2, <1>6
<1>8. Directory'
  <2>1. \A m \in Names : dir'[m] # None => srv'[dir'[m]].attr \in Attrs
    <3> SUFFICES ASSUME NEW m \in Names, dir'[m] # None
                 PROVE  srv'[dir'[m]].attr \in Attrs
      OBVIOUS
    <3>1. CASE m = n
      BY <1>2, <1>3, <1>6, <3>1
    <3>2. CASE m # n
      <4>1. dir'[m] = dir[m] /\ dir[m] # i /\ dir[m] # None /\ dir[m] \in Objects
        BY <1>2, <1>3, <3>2 DEF Objects
      <4>2. dir[m] # dir[n] /\ srv[dir[m]].attr \in Attrs
        BY <3>2, <4>1 DEF Inv, Directory
      <4>3. QED
        BY <1>6, <4>1, <4>2
    <3>3. QED
      BY <3>1, <3>2
  <2>2. \A l, m \in Names : dir'[l] # None /\ dir'[l] = dir'[m] => l = m
    BY <1>3 DEF Inv, Directory
  <2>3. \A j \in Objects : srv'[j].gen <= changes' + 1
    BY <1>2, <1>4, <1>6
  <2>4. QED
    BY <2>1, <2>2, <2>3 DEF Directory
<1>9. QED
  BY <1>1, <1>2, <1>3, <1>6, <1>7, <1>8, OthersRight

LEMMA MoveRight ==
    ASSUME Inv, Move
    PROVE  Inv'
<1>1. PICK n \in Names, m \in Names :
        /\ n # m /\ dir[n] # None
        /\ Rebind(m, dir[n])
        /\ srv' = [j \in Objects |-> IF j = dir[m] THEN [srv[j] EXCEPT !.attr = None] ELSE srv[j]]
        /\ Touch(IF dir[m] = None THEN {} ELSE {dir[m]})
  BY DEF Move
<1>2. /\ srv \in [Objects -> [gen : 0 .. MaxChanges + 1, attr : Attrs \cup {None}]]
      /\ dir \in [Names -> Ids \cup {None}]
      /\ Waits /\ changes' = changes + 1 /\ changes \in 0 .. MaxChanges /\ MaxChanges \in Nat
      /\ dir[n] \in Ids /\ dir[n] \in Objects /\ None \notin Objects
  BY <1>1, AttributesAssumption DEF Inv, Typed, Touch, Objects
<1>3. /\ dir' \in [Names -> Ids \cup {None}] /\ rebound' \in [Names -> Int] /\ dir'[m] = dir[n]
      /\ \A k \in Names : k # m /\ dir'[k] # None => dir'[k] = dir[k] /\ dir[k] # dir[n]
      /\ \A k \in Names : IF dir'[k] = dir[k] THEN rebound'[k] = rebound[k] ELSE rebound'[k] = now
  BY <1>1, <1>2, RebindRight
<1>4. \A j \in Objects : srv[j].gen \in Nat /\ srv[j].gen <= changes + 1
  BY <1>2 DEF Inv, Directory
<1>5. /\ srv' \in [Objects -> [gen : 0 .. MaxChanges + 1, attr : Attrs \cup {None}]]
      /\ \A j \in Objects : srv'[j].gen = srv[j].gen
      /\ \A j \in Objects : j # dir[m] => srv'[j] = srv[j]
  <2>1. \A j \in Objects : srv'[j] = IF j = dir[m] THEN [srv[j] EXCEPT !.attr = None] ELSE srv[j]
    BY <1>1
  <2>2. \A r \in [gen : 0 .. MaxChanges + 1, attr : Attrs \cup {None}] :
          /\ [r EXCEPT !.attr = None] \in [gen : 0 .. MaxChanges + 1, attr : Attrs \cup {None}]
          /\ [r EXCEPT !.attr = None].gen = r.gen
    OBVIOUS
  <2>3. \A j \in Objects : srv'[j] \in [gen : 0 .. MaxChanges + 1, attr : Attrs \cup {None}]
    BY <1>2, <2>1, <2>2
  <2>4. srv' \in [Objects -> [gen : 0 .. MaxChanges + 1, attr : Attrs \cup {None}]]
    BY <1>1, <2>3
  <2>5. QED
    BY <1>2, <2>1, <2>2, <2>4
<1>6. \A j \in Objects : j \notin (IF dir[m] = None THEN {} ELSE {dir[m]}) => srv'[j] = srv[j]
  BY <1>2, <1>5
<1>7. Directory'
  <2>1. \A k \in Names : dir'[k] # None => srv'[dir'[k]].attr \in Attrs
    <3> SUFFICES ASSUME NEW k \in Names, dir'[k] # None
                 PROVE  srv'[dir'[k]].attr \in Attrs
      OBVIOUS
    <3>1. CASE k = m
      <4>1. dir[n] # dir[m] /\ srv[dir[n]].attr \in Attrs
        BY <1>1 DEF Inv, Directory
      <4>2. QED
        BY <1>2, <1>3, <1>5, <3>1, <4>1
    <3>2. CASE k # m
      <4>1. dir'[k] = dir[k] /\ dir[k] # None /\ dir[k] \in Objects
        BY <1>2, <1>3, <3>2 DEF Objects
      <4>2. dir[k] # dir[m] /\ srv[dir[k]].attr \in Attrs
        BY <3>2, <4>1 DEF Inv, Directory
      <4>3. QED
        BY <1>5, <4>1, <4>2
    <3>3. QED
      BY <3>1, <3>2
  <2>2. \A k, l \in Names : dir'[k] # None /\ dir'[k] = dir'[l] => k = l
    BY <1>3 DEF Inv, Directory
  <2>3. \A j \in Objects : srv'[j].gen <= changes' + 1
    BY <1>2, <1>4, <1>5
  <2>4. QED
    BY <2>1, <2>2, <2>3 DEF Directory
<1>8. QED
  BY <1>1, <1>2, <1>3, <1>5, <1>6, <1>7, OthersRight

\* The clock: what dies is removed, the directory's entry only between packets.
LEMMA TickRight ==
    ASSUME Inv, Tick
    PROVE  Inv'
<1>1. /\ Waits /\ now' = now + 1 /\ cache' = attrs_Bury(now')
      /\ dce' = (IF pkt.pc = "idle" THEN dc_Bury(now') ELSE dce)
      /\ UNCHANGED <<server, pkt, reply, ans, ghosts>>
  BY DEF Tick
<1>2. /\ srv' = srv /\ dir' = dir /\ changes' = changes /\ changed' = changed
      /\ rebound' = rebound /\ lastSet' = lastSet /\ pkt' = pkt /\ reply' = reply /\ ans' = ans
  BY <1>1 DEF server, ghosts
<1>3. /\ now \in Nat /\ now' \in Nat /\ cache \in [Objects -> Entries \cup {None}]
      /\ dce \in DirEntries \cup {None} /\ pkt \in Packets /\ reply \in Replies \cup {None}
      /\ AttrTTL \in Nat /\ DirTTL \in Nat
  BY <1>1, AttributesAssumption DEF Inv, Typed
<1>4. \A i \in Objects :
        \/ cache'[i] = None
        \/ cache'[i] = cache[i] /\ cache[i] \in Entries /\ cache[i].birth >= now' - AttrTTL
  <2> SUFFICES ASSUME NEW i \in Objects, cache'[i] # None
               PROVE  cache'[i] = cache[i] /\ cache[i] \in Entries /\ cache[i].birth >= now' - AttrTTL
    OBVIOUS
  <2>1. cache'[i] = cache[i] /\ cache[i] # None /\ ~DeadAt(cache[i], AttrTTL, now')
    BY <1>1 DEF attrs_Bury
  <2>2. cache[i] \in Entries
    BY <1>3, <2>1
  <2>3. QED
    BY <1>3, <2>1, <2>2 DEF DeadAt, Entries
<1>5. cache' \in [Objects -> Entries \cup {None}]
  <2>1. cache' = [i \in Objects |-> cache'[i]]
    BY <1>1 DEF attrs_Bury
  <2>2. QED
    BY <1>4, <2>1
<1>6. /\ dce' \in DirEntries \cup {None}
      /\ dce' # None => dce' = dce /\ (pkt.pc = "idle" => dce.birth >= now' - DirTTL)
  <2>1. dce # None => dce.birth \in Nat
    BY <1>3 DEF DirEntries
  <2>2. QED
    BY <1>1, <1>3, <2>1 DEF dc_Bury, DeadAt
<1>7. Typed'
  BY <1>2, <1>3, <1>5, <1>6 DEF Inv, Typed
<1>8. Places'
  BY <1>1, <1>2 DEF Inv, Places
<1>9. Directory' /\ ServerRight'
  BY <1>2 DEF Inv, Directory, ServerRight
<1>10. CacheRight'
  <2> SUFFICES ASSUME NEW i \in Objects, cache'[i] # None
               PROVE  InTime(cache[i])' /\ (InWork(i)' \/ Right(i, cache[i])')
    BY DEF CacheRight
  <2>1. cache'[i] = cache[i] /\ cache[i] \in Entries /\ cache[i].birth >= now' - AttrTTL
    BY <1>4
  <2>2. InTime(cache[i]) /\ (InWork(i) \/ Right(i, cache[i]))
    BY <2>1 DEF Inv, CacheRight
  <2>3. InTime(cache[i])'
    BY <1>1, <1>3, <2>1, <2>2 DEF InTime, Entries
  <2>4. QED
    BY <1>2, <2>1, <2>2, <2>3 DEF InWork, Right, Fresh
<1>11. ReplyRight'
  <2>1. reply # None /\ reply.ok => reply.seen \in Nat
    BY <1>3 DEF Replies
  <2>2. QED
    BY <1>1, <1>2, <1>3, <2>1 DEF Inv, ReplyRight, Right, Fresh
<1>12. NamesRight'
  <2>1. dce # None => dce.birth \in Nat
    BY <1>3 DEF DirEntries
  <2>2. pkt.at \in Nat
    BY <1>3 DEF Packets
  <2>3. pkt.pc = "lookup" => dce' = dce
    BY <1>1
  <2>4. QED
    BY <1>1, <1>2, <1>3, <1>6, <2>1, <2>2, <2>3 DEF Inv, NamesRight
<1>13. AnswerRight'
  <2>1. pkt.pc # "done"
    BY <1>1 DEF Waits, Inv, Places, Calling
  <2>2. QED
    BY <1>2, <2>1, NothingShown
<1>14. QED
  BY <1>7, <1>8, <1>9, <1>10, <1>11, <1>12, <1>13 DEF Inv

LEMMA StepRight ==
    ASSUME Inv, [Next]_vars
    PROVE  Inv'
<1>1. CASE Start
  BY <1>1, StartRight
<1>2. CASE Handler
  BY <1>2, LocateDirRight, DirAttrReplyRight, FindRight, GetLookupReplyRight, SetLookupReplyRight,
     SetReplyRight, ExamineObjectRight, GetAttrReplyRight, InfoRight, EndPacketRight DEF Handler
<1>3. CASE Modify
  BY <1>3, ModifyRight
<1>4. CASE Replace
  BY <1>4, ReplaceRight
<1>5. CASE Move
  BY <1>5, MoveRight
<1>6. CASE Tick
  BY <1>6, TickRight
<1>7. CASE UNCHANGED vars
  <2>1. /\ srv' = srv /\ dir' = dir /\ cache' = cache /\ dce' = dce /\ pkt' = pkt /\ reply' = reply
        /\ ans' = ans /\ now' = now /\ changes' = changes /\ changed' = changed
        /\ rebound' = rebound /\ lastSet' = lastSet
    BY <1>7 DEF vars
  <2>2. Typed' /\ Places' /\ Directory'
    BY <2>1 DEF Inv, Typed, Places, Directory
  <2>3. ServerRight' /\ CacheRight' /\ ReplyRight' /\ NamesRight'
    BY <2>1 DEF Inv, ServerRight, CacheRight, ReplyRight, NamesRight, InTime, InWork, Right, Fresh
  <2>4. AnswerRight'
    BY <2>1 DEF Inv, AnswerRight, ShownCurrent, NameCurrent, Shows, Converted
  <2>5. QED
    BY <2>2, <2>3, <2>4 DEF Inv
<1>8. QED
  BY <1>1, <1>2, <1>3, <1>4, <1>5, <1>6, <1>7 DEF Next

THEOREM InvariantHolds == Spec => []Inv
<1>1. Init => Inv
  BY InitRight
<1>2. Inv /\ [Next]_vars => Inv'
  BY StepRight
<1>3. QED
  BY <1>1, <1>2, PTL DEF Spec

\* A program is shown the object its name stands for and the attributes the
\* server has, or is late by no more than the timeouts of the two caches.
THEOREM ShownStaysExact == Spec => []ShownExact
<1>1. Inv => ShownExact
  <2> SUFFICES ASSUME Inv
               PROVE  ShownExact
    OBVIOUS
  <2>1. ShownCurrent /\ NameCurrent
    BY DEF Inv, AnswerRight
  <2>2. /\ \A i \in Objects : srv[i].gen \in 0 .. MaxChanges + 1
        /\ dir \in [Names -> Ids \cup {None}]
    BY DEF Inv, Typed
  <2>3. /\ \A i \in Objects : cache[i] # None => cache[i].seen <= now /\ cache[i].birth <= now
        /\ dce # None => dce.birth <= now
    BY DEF Inv, CacheRight, InTime, NamesRight
  <2>4. pkt.pc \in Pcs
    BY DEF Inv, Typed, Packets
  <2>5. /\ (reply # None) = (pkt.pc \in {"dirattr", "lookup", "set", "getattr"})
        /\ (ans # None) = (pkt.pc = "done")
    BY DEF Inv, Places, Calling
  <2>6. TypeOK
    BY <2>2, <2>3, <2>4, <2>5, Zenon DEF TypeOK, Pcs
  <2>7. QED
    BY <2>1, <2>6 DEF ShownExact
<1>2. QED
  BY <1>1, InvariantHolds, PTL

-----------------------------------------------------------------------------
\* The conversions are inverse to each other where both sides can express a
\* value.  Rights: what the owner's bits deny and the others' grant.
LEMMA NFSRightCases ==
    /\ NFSRight("r") = "r" /\ NFSRight("e") = "x"
    /\ NFSRight("w") = "w" /\ NFSRight("d") = "w"
<1>1. "r" # "e" /\ "r" # "w" /\ "r" # "d" /\ "e" # "w" /\ "e" # "d"
  OBVIOUS
<1>2. QED
  BY <1>1, Zenon DEF NFSRight

LEMMA RightsComeBack ==
    ASSUME NEW v \in SUBSET ProtectionBits,
           \A c \in Classes : <<c, "w">> \in v <=> <<c, "d">> \in v
    PROVE  NFSMode2Protection(au_Protection2umode(v)) = v
<1>1. PICK mode : mode = au_Protection2umode(v)
  OBVIOUS
<1>2. ASSUME NEW c \in Classes, NEW q \in {"r", "w", "x"}
      PROVE  <<c, q>> \in mode <=> (<<c, IF q = "x" THEN "e" ELSE q>> \in v <=> c # "u")
  <2>1. <<c, q>> \in ModeBits /\ <<c, q>>[1] = c /\ <<c, q>>[2] = q
    BY DEF ModeBits
  <2>2. QED
    BY <1>1, <2>1, Zenon DEF au_Protection2umode, Denies
<1>3. \A c \in Classes :
        /\ <<c, "r">> \in mode <=> (<<c, "r">> \in v <=> c # "u")
        /\ <<c, "w">> \in mode <=> (<<c, "w">> \in v <=> c # "u")
        /\ <<c, "x">> \in mode <=> (<<c, "e">> \in v <=> c # "u")
  <2>1. /\ "r" # "x" /\ "w" # "x"
        /\ "r" \in {"r", "w", "x"} /\ "w" \in {"r", "w", "x"} /\ "x" \in {"r", "w", "x"}
    OBVIOUS
  <2>2. QED
    BY <1>2, <2>1, Zenon
<1>4. ASSUME NEW c \in Classes, NEW q \in {"r", "w", "d", "e"}
      PROVE  <<c, q>> \in NFSMode2Protection(mode) <=> <<c, q>> \in v
  <2>1. <<c, q>> \in ProtectionBits /\ <<c, q>>[1] = c /\ <<c, q>>[2] = q
    BY DEF ProtectionBits
  <2>2. <<c, q>> \in NFSMode2Protection(mode) <=> (<<c, NFSRight(q)>> \in mode <=> c # "u")
    BY <2>1, Zenon DEF NFSMode2Protection, Denies
  <2>3. QED
    BY <1>3, <2>2, NFSRightCases, Zenon
<1>5. ASSUME NEW b
      PROVE  b \in NFSMode2Protection(mode) <=> b \in v
  <2>1. b \in NFSMode2Protection(mode) => b \in ProtectionBits
    BY Zenon DEF NFSMode2Protection
  <2>2. b \in v => b \in ProtectionBits
    OBVIOUS
  <2>3. b \in ProtectionBits => \E c \in Classes, q \in {"r", "w", "d", "e"} : b = <<c, q>>
    BY DEF ProtectionBits
  <2>4. QED
    BY <1>4, <2>1, <2>2, <2>3, Zenon
<1>6. QED
  BY <1>1, <1>5

\* Ids other than those of root and nobody.
LEMMA OwnerComesBack ==
    ASSUME NEW uid \in 1 .. MaxId - 1
    PROVE  nfsuid2UID(uid) = uid /\ nfsgid2GID(uid) = uid
BY Constants DEF nfsuid2UID, nfsgid2GID

\* Dates: day, minute and tick are the digits of the seconds and useconds.
LEMMA TicksComeBack ==
    ASSUME NEW tick \in Nat
    PROVE  LET useconds == ((tick % TICKS_PER_SECOND) * Micros) \div TICKS_PER_SECOND
           IN  /\ useconds \in Nat
               /\ useconds \div Micros = 0
               /\ useconds \div (Micros \div TICKS_PER_SECOND) = tick % TICKS_PER_SECOND
<1>1. PICK t \in Nat : t = TICKS_PER_SECOND /\ t > 0
  BY Constants
<1>2. PICK r \in Nat : r = tick % t /\ r < t
  BY <1>1, DivModTypes
<1>3. PICK k \in Nat : k = Micros \div t /\ Micros = k * t
  <2>1. Micros \div t \in Nat /\ Micros = (Micros \div t) * t + (Micros % t)
    BY <1>1, Constants, DivModTypes
  <2>2. Micros % t = 0
    BY <1>1, AttributesAssumption
  <2>3. \A x \in Nat : x + 0 = x
    OBVIOUS
  <2>4. (Micros \div t) * t \in Nat
    BY <1>1, <2>1
  <2>5. QED
    BY <2>1, <2>2, <2>3, <2>4
<1>4. k > 0
  <2>1. Micros > 0
    BY Constants
  <2>2. k = 0 => k * t = 0
    BY <1>1
  <2>3. QED
    BY <1>3, <2>1, <2>2
<1>5. r * Micros = (r * k) * t
  <2>1. \A a, b, c \in Nat : a * (b * c) = (a * b) * c
    OBVIOUS
  <2>2. QED
    BY <1>1, <1>2, <1>3, <2>1
<1>6. PICK u \in Nat : u = r * k
  <2>1. \A a, b \in Nat : a * b \in Nat
    OBVIOUS
  <2>2. QED
    BY <1>2, <1>3, <2>1
<1>7. (r * Micros) \div t = u
  <2>1. (u * t + 0) \div t = u
    BY <1>1, <1>6, DivMod
  <2>2. u * t + 0 = u * t
    BY <1>1, <1>6
  <2>3. QED
    BY <1>5, <1>6, <2>1, <2>2
<1>8. u < Micros
  <2>1. \A a, b, c \in Nat : a < c /\ b > 0 => a * b < b * c
    OBVIOUS
  <2>2. QED
    BY <1>1, <1>2, <1>3, <1>4, <1>6, <2>1
<1>9. u \div Micros = 0
  <2>1. (0 * Micros + u) \div Micros = 0
    BY <1>6, <1>8, Constants, DivMod
  <2>2. 0 * Micros + u = u
    BY <1>6, Constants
  <2>3. QED
    BY <2>1, <2>2
<1>10. u \div k = r
  <2>1. (r * k + 0) \div k = r
    BY <1>2, <1>3, <1>4, DivMod
  <2>2. r * k + 0 = u
    BY <1>2, <1>3, <1>6
  <2>3. QED
    BY <2>1, <2>2
<1>11. QED
  BY <1>1, <1>2, <1>3, <1>6, <1>7, <1>9, <1>10

LEMMA SmallRemainder ==
    ASSUME NEW b \in Nat, NEW a \in Nat, a < b
    PROVE  a % b = a
OBVIOUS

\* Numbers of two digits.
LEMMA Digits ==
    ASSUME NEW high \in Nat, NEW low \in Nat, NEW base \in Nat, NEW bound \in Nat
    PROVE  /\ high * base + low < bound * base => high < bound
           /\ high < bound /\ low < base => high * base + low < base * bound
<1>1. high * base + low < bound * base => high < bound
  OBVIOUS
<1>2. ASSUME high < bound, low < base
      PROVE  high * base + low < base * bound
  <2>1. PICK k \in Nat : bound = high + 1 + k
    <3>1. bound - (high + 1) \in Nat /\ bound = high + 1 + (bound - (high + 1))
      BY <1>2
    <3>2. QED
      BY <3>1
  <2>2. base * bound = high * base + base + k * base
    BY <2>1
  <2>3. high * base \in Nat /\ k * base \in Nat
    OBVIOUS
  <2>4. QED
    BY <1>2, <2>2, <2>3
<1>3. QED
  BY <1>1, <1>2

LEMMA DateComesBack ==
    ASSUME NEW v \in DateStamps, v.minute < MinutesPerDay,
           v.tick < SecondsPerMinute * TICKS_PER_SECOND,
           (v.days * MinutesPerDay + v.minute + 1) * SecondsPerMinute <= Word \div 2
    PROVE  timeval2DateStamp(DateStamp2timeval(v)) = v
<1>1. PICK S \in Nat, M \in Nat : S = SecondsPerMinute /\ M = MinutesPerDay /\ S > 0 /\ M > 0
  BY Constants
<1>2. PICK T \in Nat : T = TICKS_PER_SECOND /\ T > 0
  BY Constants
<1>3. PICK days \in Nat, minute \in Nat : days = v.days /\ minute = v.minute /\ minute < M
  BY <1>1 DEF DateStamps
<1>4. PICK tick \in Nat : tick = v.tick /\ tick < S * T
  BY <1>1, <1>2 DEF DateStamps
\* The ticks: q seconds and r ticks.
<1>5. PICK q \in Nat, r \in Nat : q = tick \div T /\ r = tick % T /\ tick = q * T + r /\ q < S
  <2>1. PICK x \in Nat, y \in Nat : x = tick \div T /\ y = tick % T /\ tick = x * T + y
    BY <1>2, DivModTypes
  <2>2. x * T + y < S * T
    BY <1>4, <2>1, Zenon
  <2>3. x < S
    BY <1>1, <1>2, <2>1, <2>2, Digits, Zenon
  <2>4. QED
    BY <2>1, <2>3
\* The minutes since 1978, and the seconds.
<1>6. PICK n \in Nat : n = days * M + minute
  <2>1. \A b, c, d \in Nat : b * c + d \in Nat
    OBVIOUS
  <2>2. QED
    BY <1>1, <1>3, <2>1
<1>7. PICK a \in Nat : a = n * S + q
  <2>1. \A b, c, d \in Nat : b * c + d \in Nat
    OBVIOUS
  <2>2. QED
    BY <1>1, <1>5, <1>6, <2>1
<1>8. a < Word \div 2 /\ Word \div 2 \in Nat /\ Word \div 2 <= Word
  <2>1. PICK half \in Nat : half = Word \div 2 /\ half <= Word
    BY Constants
  <2>2. PICK p \in Nat : p = n * S
    BY <1>1, <1>6
  <2>3. (n + 1) * S = p + S
    BY <1>1, <1>6, <2>2
  <2>4. (n + 1) * S <= half
    BY <1>1, <1>3, <1>6, <2>1
  <2>5. a = p + q
    BY <1>7, <2>2
  <2>6. \A x, y, z, h \in Nat : x + z <= h /\ y < z => x + y < h
    OBVIOUS
  <2>7. p + S <= half /\ q < S
    BY <1>5, <2>3, <2>4, Zenon
  <2>8. p + q < half
    BY <2>6, <2>7, Zenon
  <2>9. QED
    BY <2>1, <2>5, <2>8, Zenon
<1>9. a % Word = a
  BY <1>8, Constants, SmallRemainder
\* The timeval.
<1>10. PICK u \in Nat : /\ u = ((tick % T) * Micros) \div T
                        /\ u \div Micros = 0
                        /\ u \div (Micros \div T) = r
  BY <1>2, <1>5, TicksComeBack
<1>11. DateStamp2timeval(v) = [seconds |-> a, useconds |-> u]
  <2>1. (days * M + minute) * S + tick \div T = a
    BY <1>5, <1>6, <1>7
  <2>2. QED
    BY <1>1, <1>2, <1>3, <1>4, <1>9, <1>10, <2>1 DEF DateStamp2timeval
<1>12. PICK tv : tv = DateStamp2timeval(v)
  OBVIOUS
<1>13. tv.seconds = a /\ tv.useconds = u
  BY <1>11, <1>12
\* And back: the day, the rest of it, the minute.
<1>14. Signed((tv.seconds + tv.useconds \div Micros) % Word) = a
  <2>1. a + 0 = a
    OBVIOUS
  <2>2. (tv.seconds + tv.useconds \div Micros) % Word = a
    BY <1>9, <1>10, <1>13, <2>1
  <2>3. QED
    BY <1>8, <2>2 DEF Signed
<1>15. PICK rest \in Nat : rest = minute * S + q
  <2>1. \A b, c, d \in Nat : b * c + d \in Nat
    OBVIOUS
  <2>2. QED
    BY <1>1, <1>3, <1>5, <2>1
<1>16. PICK day \in Nat : day = S * M /\ day = SecondsPerDay /\ day > 0
  BY <1>1, Constants DEF SecondsPerDay
<1>17. a = days * day + rest
  <2>1. (days * M + minute) * S + q = days * (S * M) + (minute * S + q)
    OBVIOUS
  <2>2. QED
    BY <1>6, <1>7, <1>15, <1>16, <2>1, Zenon
<1>18. rest < day
  <2>1. minute * S + q < S * M
    BY <1>1, <1>3, <1>5, Digits, Zenon
  <2>2. QED
    BY <1>15, <1>16, <2>1, Zenon
<1>19. CDiv(a, day) = days /\ CMod(a, day) = rest
  <2>1. (days * day + rest) \div day = days /\ (days * day + rest) % day = rest
    BY <1>16, <1>18, DivMod
  <2>2. a \div day = days /\ a % day = rest
    BY <1>17, <2>1
  <2>3. day \in Nat /\ day > 0 /\ a \in Int /\ a >= 0
    BY <1>16
  <2>4. CDiv(a, day) = a \div day /\ CMod(a, day) = a % day
    BY <2>3, CDivTypes
  <2>5. QED
    BY <2>2, <2>4
<1>20. CDiv(rest, S) = minute
  <2>1. rest \div S = minute
    BY <1>1, <1>3, <1>5, <1>15, DivMod
  <2>2. QED
    BY <1>1, <2>1, CDivTypes
<1>21. a % S = q
  <2>1. q < S
    BY <1>5
  <2>2. (n * S + q) % S = q
    BY <1>1, <2>1, DivMod
  <2>3. QED
    BY <1>7, <2>2
<1>22. timeval2DateStamp(tv) = [days |-> days, minute |-> minute, tick |-> tick]
  <2>1. (tv.seconds % S) * T + tv.useconds \div (Micros \div T) = tick
    BY <1>5, <1>10, <1>13, <1>21
  <2>2. QED
    BY <1>1, <1>2, <1>14, <1>16, <1>19, <1>20, <2>1 DEF timeval2DateStamp
<1>23. v = [days |-> days, minute |-> minute, tick |-> tick]
  BY <1>3, <1>4 DEF DateStamps
<1>24. QED
  BY <1>12, <1>22, <1>23

\* What a program sets it is shown again, through both conversions and the
\* caches, as long as no one else changes the object: even when only the
\* answer to the SETATTR was lost.
THEOREM SetsStayShown == Spec => []SetIsShown
<1>1. ASSUME Inv
      PROVE  SetIsShown
  <2> SUFFICES ASSUME Shows, NEW s \in lastSet[ans.id], Expressible(s[1], s[2])
               PROVE  ShownField(s[1]) = s[2]
    BY DEF SetIsShown
  <2>1. /\ ans.id \in Objects /\ ans.shown = Converted(ans.attr) /\ Has(ans.attr, s)
        /\ pkt.act \in {"EXAMINE_OBJECT", "GET_ATTRIBUTES"}
    BY <1>1 DEF Inv, AnswerRight, Shows
  <2>2. s \in Assignments
    BY <1>1, <2>1 DEF Inv, Typed
  <2>3. PICK act, v : s = <<act, v>> /\ s[1] = act /\ s[2] = v
    BY <2>2 DEF Assignments
  <2>4. /\ ans.shown.protection = NFSMode2Protection(ans.attr.mode)
        /\ ans.shown.date = timeval2DateStamp(ans.attr.mtime)
        /\ ans.shown.owner = IF pkt.act = "GET_ATTRIBUTES" THEN <<ans.attr.uid, ans.attr.gid>>
                             ELSE <<nfsuid2UID(ans.attr.uid), nfsgid2GID(ans.attr.gid)>>
    BY <2>1 DEF Converted, TagsOf, FAttr2FIB
  <2>5. "SET_PROTECT" # "SET_DATE" /\ "SET_PROTECT" # "SET_OWNER" /\ "SET_DATE" # "SET_OWNER"
    OBVIOUS
  <2>6. CASE act = "SET_PROTECT" /\ v \in Masks
    <3>1. ShownField(act) = ans.shown.protection
      BY <2>5, <2>6, Zenon DEF ShownField
    <3>2. Expressible(act, v)
      BY <2>3, Zenon
    <3>3. \A c \in Classes : <<c, "w">> \in v <=> <<c, "d">> \in v
      BY <2>5, <2>6, <3>2, Zenon DEF Expressible
    <3>4. v \in SUBSET ProtectionBits /\ ans.attr.mode = au_Protection2umode(v)
      BY <2>1, <2>3, <2>6, AttributesAssumption DEF Has
    <3>5. QED
      BY <2>3, <2>4, <3>1, <3>3, <3>4, RightsComeBack, Zenon
  <2>7. CASE act = "SET_DATE" /\ v \in Dates
    <3>1. ShownField(act) = ans.shown.date
      BY <2>5, <2>7, Zenon DEF ShownField
    <3>2. Expressible(act, v)
      BY <2>3, Zenon
    <3>3. /\ v.minute < MinutesPerDay /\ v.tick < SecondsPerMinute * TICKS_PER_SECOND
          /\ (v.days * MinutesPerDay + v.minute + 1) * SecondsPerMinute <= Word \div 2
      BY <2>5, <2>7, <3>2, Zenon DEF Expressible
    <3>4. v \in DateStamps /\ ans.attr.mtime = DateStamp2timeval(v)
      BY <2>1, <2>3, <2>7, AttributesAssumption DEF Has
    <3>5. QED
      BY <2>3, <2>4, <3>1, <3>3, <3>4, DateComesBack, Zenon
  <2>8. CASE act = "SET_OWNER" /\ v \in Owners
    <3>1. ShownField(act) = ans.shown.owner
      BY <2>5, <2>8, Zenon DEF ShownField
    <3>2. Expressible(act, v)
      BY <2>3, Zenon
    <3>3. pkt.act = "GET_ATTRIBUTES" \/ \A k \in 1 .. 2 : v[k] \in 1 .. MaxId - 1
      BY <2>5, <2>8, <3>2, Zenon DEF Expressible
    <3>4. v = <<v[1], v[2]>> /\ ans.attr.uid = v[1] /\ ans.attr.gid = v[2]
      BY <2>1, <2>3, <2>8, AttributesAssumption DEF Has
    <3>5. CASE pkt.act = "GET_ATTRIBUTES"
      BY <2>3, <2>4, <3>1, <3>4, <3>5
    <3>6. CASE pkt.act # "GET_ATTRIBUTES"
      <4>1. v[1] \in 1 .. MaxId - 1 /\ v[2] \in 1 .. MaxId - 1
        BY <3>3, <3>6
      <4>2. nfsuid2UID(v[1]) = v[1] /\ nfsgid2GID(v[2]) = v[2]
        BY <4>1, OwnerComesBack
      <4>3. QED
        BY <2>3, <2>4, <3>1, <3>4, <3>6, <4>2
    <3>7. QED
      BY <3>5, <3>6
  <2>9. QED
    BY <2>2, <2>3, <2>6, <2>7, <2>8, AssignmentCases
<1>2. QED
  BY <1>1, InvariantHolds, PTL

-----------------------------------------------------------------------------
(***************************************************************************)
(* The timeouts of the caches above are settings, given as arguments and   *)
(* changed by SET, and the sizes of their tables are what                  *)
(* DistributeBuffers makes of BUFFERS.  The rest is about Settings, for    *)
(* every number of buffers, every argument and every input.                *)
(***************************************************************************)
\* What the clamps return: a number between their bounds.
LEMMA ClampBounded ==
    ASSUME NEW i \in Int
    PROVE  /\ Clamp(256, NFS_MAXDATA, i) \in 256 .. NFS_MAXDATA
           /\ Clamp(0, CACHE_TIMEOUT_MAX, i) \in 0 .. CACHE_TIMEOUT_MAX
           /\ Clamp(RPC_TIMEOUT_MIN, RPC_TIMEOUT_MAX, i) \in RPC_TIMEOUT_MIN .. RPC_TIMEOUT_MAX
BY DEF Clamp, Larger, Smaller, NFS_MAXDATA, CACHE_TIMEOUT_MAX, RPC_TIMEOUT_MIN, RPC_TIMEOUT_MAX

\* The values an argument may leave in a setting.
LEMMA GivenBounded ==
    /\ Given(NFS_MAXDATA, 256, NFS_MAXDATA) \subseteq 256 .. NFS_MAXDATA
    /\ Given(ATTR_CACHE_TIMEOUT_DEFAULT, 0, CACHE_TIMEOUT_MAX) \subseteq 0 .. CACHE_TIMEOUT_MAX
    /\ Given(DIR_CACHE_TIMEOUT_DEFAULT, 0, CACHE_TIMEOUT_MAX) \subseteq 0 .. CACHE_TIMEOUT_MAX
    /\ Given(RPC_TIMEOUT_MIN, RPC_TIMEOUT_MIN, RPC_TIMEOUT_MAX) \subseteq RPC_TIMEOUT_MIN .. RPC_TIMEOUT_MAX
<1>1. \A i \in Args :
        /\ ClampArg(256, NFS_MAXDATA, i) \in 256 .. NFS_MAXDATA
        /\ ClampArg(0, CACHE_TIMEOUT_MAX, i) \in 0 .. CACHE_TIMEOUT_MAX
        /\ ClampArg(RPC_TIMEOUT_MIN, RPC_TIMEOUT_MAX, i) \in RPC_TIMEOUT_MIN .. RPC_TIMEOUT_MAX
  <2> SUFFICES ASSUME NEW i \in Args
               PROVE  /\ ClampArg(256, NFS_MAXDATA, i) \in 256 .. NFS_MAXDATA
                      /\ ClampArg(0, CACHE_TIMEOUT_MAX, i) \in 0 .. CACHE_TIMEOUT_MAX
                      /\ ClampArg(RPC_TIMEOUT_MIN, RPC_TIMEOUT_MAX, i) \in RPC_TIMEOUT_MIN .. RPC_TIMEOUT_MAX
    OBVIOUS
  <2>1. i \in Int
    BY SettingsAssumption
  <2>2. QED
    BY <2>1 DEF ClampArg, Clamp, Larger, Smaller, NFS_MAXDATA, CACHE_TIMEOUT_MAX,
                RPC_TIMEOUT_MIN, RPC_TIMEOUT_MAX
<1>2. /\ NFS_MAXDATA \in 256 .. NFS_MAXDATA
      /\ ATTR_CACHE_TIMEOUT_DEFAULT \in 0 .. CACHE_TIMEOUT_MAX
      /\ DIR_CACHE_TIMEOUT_DEFAULT \in 0 .. CACHE_TIMEOUT_MAX
      /\ RPC_TIMEOUT_MIN \in RPC_TIMEOUT_MIN .. RPC_TIMEOUT_MAX
  BY DEF NFS_MAXDATA, CACHE_TIMEOUT_MAX, ATTR_CACHE_TIMEOUT_DEFAULT,
         DIR_CACHE_TIMEOUT_DEFAULT, RPC_TIMEOUT_MIN, RPC_TIMEOUT_MAX
<1>3. QED
  BY <1>1, <1>2 DEF Given

\* The retry timeout, a fifth of the timeout.
LEMMA FifthFits ==
    ASSUME NEW t \in Int, t >= 25
    PROVE  t \div 5 \in Int /\ t \div 5 > 0 /\ 5 * (t \div 5) <= t
OBVIOUS

\* A quotient times its divisor, for the four divisors of DistributeBuffers.
LEMMA Quotients ==
    ASSUME NEW x \in Nat
    PROVE  /\ x \div MBUFSIZE \in Nat
           /\ MBUFSIZE * (x \div MBUFSIZE) <= x
           /\ x \div ATTRENTRYSIZE \in Nat
           /\ ATTRENTRYSIZE * (x \div ATTRENTRYSIZE) <= x
           /\ x \div DIRENTRYSIZE \in Nat
           /\ DIRENTRYSIZE * (x \div DIRENTRYSIZE) <= x
BY DEF MBUFSIZE, ATTRENTRYSIZE, DIRENTRYSIZE

\* The division of C, for the five divisors of DistributeBuffers: that of
\* TLA+ where nothing is negative, and its mirror image below zero.
LEMMA Divisions ==
    /\ \A x \in Nat : /\ Quot(x, 2) = x \div 2 /\ Quot(x, 4) = x \div 4
                     /\ Quot(x, MBUFSIZE) = x \div MBUFSIZE /\ Quot(x, 8192) = x \div 8192
                     /\ Quot(x, ATTRENTRYSIZE) = x \div ATTRENTRYSIZE
                     /\ Quot(x, DIRENTRYSIZE) = x \div DIRENTRYSIZE
    /\ \A x \in Nat : /\ Quot(-x, 2) = -(x \div 2) /\ Quot(-x, 4) = -(x \div 4)
                     /\ Quot(-x, MBUFSIZE) = -(x \div MBUFSIZE) /\ Quot(-x, 8192) = -(x \div 8192)
                     /\ Quot(-x, ATTRENTRYSIZE) = -(x \div ATTRENTRYSIZE)
                     /\ Quot(-x, DIRENTRYSIZE) = -(x \div DIRENTRYSIZE)
BY DEF Quot, MBUFSIZE, ATTRENTRYSIZE, DIRENTRYSIZE

\* What the loop adds: the first pair that does not fit is still added.
LEMMA PairsBounded ==
    ASSUME NEW rest \in Nat
    PROVE  /\ Pairs(rest) \in Nat
           /\ rest < 238 * Pairs(rest)
           /\ 238 * Pairs(rest) <= rest + 238
BY DEF Pairs, ATTRENTRYSIZE, DIRENTRYSIZE

\* The first shares never exceed the memory.
LEMMA FirstShares ==
    ASSUME NEW n \in Nat, NEW big \in BOOLEAN, NEW sl \in BOOLEAN
    PROVE  /\ FirstMBufs(n, sl) \in Nat
           /\ FirstAttrs(n, big) \in Nat
           /\ FirstDirs(n, big) \in Nat
           /\ BufMem(n) \in Nat
           /\ FirstRest(n, big, sl) \in Nat
<1> DEFINE half == BufMem(n) \div 2
           quarter == BufMem(n) \div 4
<1>1. BufMem(n) \in Nat /\ half \in Nat /\ quarter \in Nat /\ half + 2 * quarter <= BufMem(n)
  BY DEF BufMem
<1>2. FirstMBufs(n, sl) \in Nat /\ MBUFSIZE * FirstMBufs(n, sl) <= half
  <2> HIDE DEF half
  <2>1. half \div MBUFSIZE \in Nat /\ MBUFSIZE * (half \div MBUFSIZE) <= half
    BY <1>1, Quotients
  <2>2. \/ FirstMBufs(n, sl) = half \div MBUFSIZE
        \/ FirstMBufs(n, sl) = 50 /\ half \div MBUFSIZE > 50
    <3>1. Quot(BufMem(n), 2) = half /\ Quot(half, MBUFSIZE) = half \div MBUFSIZE
      BY <1>1, Divisions DEF half
    <3>2. (half \div MBUFSIZE) * MBUFSIZE \in Nat
      BY <2>1 DEF MBUFSIZE
    <3>3. Quot((half \div MBUFSIZE) * MBUFSIZE, 8192) = half \div MBUFSIZE
      <4> DEFINE m == half \div MBUFSIZE
      <4>1. m \in Nat /\ m * MBUFSIZE \in Nat
        BY <2>1, <3>2
      <4> HIDE DEF m
      <4>2. Quot(m * MBUFSIZE, 8192) = (m * MBUFSIZE) \div 8192
        BY <4>1, Divisions
      <4>3. (m * MBUFSIZE) \div 8192 = m
        BY <4>1 DEF MBUFSIZE
      <4>4. QED
        BY <4>2, <4>3 DEF m
    <3>4. QED
      BY <2>1, <3>1, <3>3 DEF FirstMBufs
  <2>3. QED
    BY <1>1, <2>1, <2>2 DEF MBUFSIZE
<1>3. FirstAttrs(n, big) \in Nat /\ ATTRENTRYSIZE * FirstAttrs(n, big) <= quarter
  <2> HIDE DEF quarter
  <2>1. quarter \div ATTRENTRYSIZE \in Nat /\ ATTRENTRYSIZE * (quarter \div ATTRENTRYSIZE) <= quarter
    BY <1>1, Quotients
  <2>2. \/ FirstAttrs(n, big) = quarter \div ATTRENTRYSIZE
        \/ FirstAttrs(n, big) = 200 /\ quarter \div ATTRENTRYSIZE >= 200
    <3>1. Quot(BufMem(n), 4) = quarter /\ Quot(quarter, ATTRENTRYSIZE) = quarter \div ATTRENTRYSIZE
      BY <1>1, Divisions DEF quarter
    <3>2. QED
      BY <2>1, <3>1 DEF FirstAttrs, Smaller
  <2>3. QED
    BY <1>1, <2>1, <2>2 DEF ATTRENTRYSIZE
<1>4. FirstDirs(n, big) \in Nat /\ DIRENTRYSIZE * FirstDirs(n, big) <= quarter
  <2> HIDE DEF quarter
  <2>1. quarter \div DIRENTRYSIZE \in Nat /\ DIRENTRYSIZE * (quarter \div DIRENTRYSIZE) <= quarter
    BY <1>1, Quotients
  <2>2. \/ FirstDirs(n, big) = quarter \div DIRENTRYSIZE
        \/ FirstDirs(n, big) = 200 /\ quarter \div DIRENTRYSIZE >= 200
    <3>1. Quot(BufMem(n), 4) = quarter /\ Quot(quarter, DIRENTRYSIZE) = quarter \div DIRENTRYSIZE
      BY <1>1, Divisions DEF quarter
    <3>2. QED
      BY <2>1, <3>1 DEF FirstDirs, Smaller
  <2>3. QED
    BY <1>1, <2>1, <2>2 DEF DIRENTRYSIZE
<1> HIDE DEF half, quarter
<1>5. QED
  BY <1>1, <1>2, <1>3, <1>4 DEF FirstRest, MBUFSIZE, ATTRENTRYSIZE, DIRENTRYSIZE

\* DistributeBuffers gives away all the memory, and at most 21 pairs of
\* entries beyond it: the last pair of its loop and the minimum of 20.
LEMMA Distributed ==
    ASSUME NEW n \in Nat, NEW big \in BOOLEAN, NEW sl \in BOOLEAN
    PROVE  LET used == MBufsFor(n, big, sl) * MBUFSIZE + AttrsFor(n, big, sl) * ATTRENTRYSIZE
                         + DirsFor(n, big, sl) * DIRENTRYSIZE
           IN  /\ MBufsFor(n, big, sl) \in Nat
               /\ AttrsFor(n, big, sl) \in Nat
               /\ DirsFor(n, big, sl) \in Nat
               /\ used > BufMem(n)
               /\ used <= BufMem(n) + 21 * (ATTRENTRYSIZE + DIRENTRYSIZE)
<1> DEFINE more == MoreMBufs(n, big, sl)
           rest == Rest(n, big, sl)
           pairs == Pairs(rest)
<1>1. /\ FirstMBufs(n, sl) \in Nat /\ FirstAttrs(n, big) \in Nat /\ FirstDirs(n, big) \in Nat
      /\ BufMem(n) \in Nat /\ FirstRest(n, big, sl) \in Nat
  BY FirstShares
<1>2. more \in Nat /\ MBUFSIZE * more <= FirstRest(n, big, sl)
  <2>1. /\ FirstRest(n, big, sl) \div MBUFSIZE \in Nat
        /\ MBUFSIZE * (FirstRest(n, big, sl) \div MBUFSIZE) <= FirstRest(n, big, sl)
        /\ Quot(FirstRest(n, big, sl), MBUFSIZE) = FirstRest(n, big, sl) \div MBUFSIZE
    BY <1>1, Quotients, Divisions
  <2>2. QED
    BY <1>1, <2>1 DEF MoreMBufs, MBUFSIZE
<1>3. rest \in Nat /\ rest = FirstRest(n, big, sl) - MBUFSIZE * more
  BY <1>1, <1>2 DEF Rest, MBUFSIZE
<1> HIDE DEF more, rest
<1>4. pairs \in Nat /\ rest < 238 * pairs /\ 238 * pairs <= rest + 238
  BY <1>3, PairsBounded
<1> HIDE DEF pairs
<1>5. MBufsFor(n, big, sl) = FirstMBufs(n, sl) + more
  BY DEF MBufsFor, more
<1>6. /\ AttrsFor(n, big, sl) \in Nat
      /\ FirstAttrs(n, big) + pairs <= AttrsFor(n, big, sl)
      /\ AttrsFor(n, big, sl) <= FirstAttrs(n, big) + pairs + 20
  BY <1>1, <1>4 DEF AttrsFor, Larger, pairs, rest
<1>7. /\ DirsFor(n, big, sl) \in Nat
      /\ FirstDirs(n, big) + pairs <= DirsFor(n, big, sl)
      /\ DirsFor(n, big, sl) <= FirstDirs(n, big) + pairs + 20
  BY <1>1, <1>4 DEF DirsFor, Larger, pairs, rest
<1>8. QED
  BY <1>1, <1>2, <1>3, <1>4, <1>5, <1>6, <1>7
     DEF FirstRest, MBUFSIZE, ATTRENTRYSIZE, DIRENTRYSIZE

\* No missing buffers count for nothing.
LEMMA NoneMissing ==
    ASSUME NEW m \in Nat, NEW a \in Nat, NEW d \in Nat
    PROVE  (m * MBUFSIZE + a * ATTRENTRYSIZE + d * DIRENTRYSIZE) + 0 * MBUFSIZE
              = m * MBUFSIZE + a * ATTRENTRYSIZE + d * DIRENTRYSIZE
BY DEF MBUFSIZE, ATTRENTRYSIZE, DIRENTRYSIZE

\* Of a negative number no share is positive, and what is not positive leaves
\* no buffer and the minimum of entries.
LEMMA DistributedNegative ==
    ASSUME NEW k \in Nat, NEW big \in BOOLEAN, NEW sl \in BOOLEAN
    PROVE  /\ MBufsFor(-k, big, sl) \in Int /\ MBufsFor(-k, big, sl) <= 0
           /\ AttrsFor(-k, big, sl) = 20
           /\ DirsFor(-k, big, sl) = 20
<1> DEFINE debt == k * 512
           half == debt \div 2
           quarter == debt \div 4
           m == half \div MBUFSIZE
           a == quarter \div ATTRENTRYSIZE
           d == quarter \div DIRENTRYSIZE
           left == debt - MBUFSIZE * m - ATTRENTRYSIZE * a - DIRENTRYSIZE * d
           more == MoreMBufs(-k, big, sl)
           rest == Rest(-k, big, sl)
<1>1. /\ debt \in Nat /\ half \in Nat /\ quarter \in Nat /\ half + 2 * quarter <= debt
      /\ BufMem(-k) = -debt
  BY DEF BufMem
<1> HIDE DEF debt
<1>2. Quot(BufMem(-k), 2) = -half /\ Quot(BufMem(-k), 4) = -quarter
  BY <1>1 DEF Quot
<1> HIDE DEF half, quarter
<1>3. /\ m \in Nat /\ MBUFSIZE * m <= half /\ Quot(-half, MBUFSIZE) = -m
      /\ a \in Nat /\ ATTRENTRYSIZE * a <= quarter /\ Quot(-quarter, ATTRENTRYSIZE) = -a
      /\ d \in Nat /\ DIRENTRYSIZE * d <= quarter /\ Quot(-quarter, DIRENTRYSIZE) = -d
  <2>1. m \in Nat /\ MBUFSIZE * m <= half /\ Quot(-half, MBUFSIZE) = -m
    BY <1>1 DEF Quot, MBUFSIZE
  <2>2. a \in Nat /\ ATTRENTRYSIZE * a <= quarter /\ Quot(-quarter, ATTRENTRYSIZE) = -a
    BY <1>1 DEF Quot, ATTRENTRYSIZE
  <2>3. d \in Nat /\ DIRENTRYSIZE * d <= quarter /\ Quot(-quarter, DIRENTRYSIZE) = -d
    BY <1>1 DEF Quot, DIRENTRYSIZE
  <2>4. QED
    BY <2>1, <2>2, <2>3
<1> HIDE DEF m, a, d
<1>4. FirstMBufs(-k, sl) = -m
  <2>1. m * MBUFSIZE \in Nat /\ (-m) * MBUFSIZE = -(m * MBUFSIZE)
    BY <1>3 DEF MBUFSIZE
  <2>2. Quot(-(m * MBUFSIZE), 8192) = -((m * MBUFSIZE) \div 8192)
    BY <2>1, Divisions
  <2>3. (m * MBUFSIZE) \div 8192 \in Nat
    BY <1>3 DEF MBUFSIZE
  <2>4. ~(Quot((-m) * MBUFSIZE, 8192) > 50)
    BY <2>1, <2>2, <2>3
  <2>5. QED
    BY <1>2, <1>3, <2>4 DEF FirstMBufs
<1>5. FirstAttrs(-k, big) = -a /\ FirstDirs(-k, big) = -d
  BY <1>2, <1>3 DEF FirstAttrs, FirstDirs, Smaller
<1>6. left \in Nat /\ FirstRest(-k, big, sl) = -left
  BY <1>1, <1>3, <1>4, <1>5 DEF FirstRest, MBUFSIZE, ATTRENTRYSIZE, DIRENTRYSIZE
<1> HIDE DEF left
<1>7. more \in Int /\ more <= 0 /\ rest \in Int /\ rest <= 0
  <2>1. /\ left \div MBUFSIZE \in Nat /\ MBUFSIZE * (left \div MBUFSIZE) <= left
        /\ Quot(-left, MBUFSIZE) = -(left \div MBUFSIZE)
    BY <1>6, Quotients, Divisions
  <2>2. more = -(left \div MBUFSIZE) \/ more = 0
    BY <1>6, <2>1 DEF MoreMBufs
  <2>3. rest = more * (-MBUFSIZE) - left
    BY <1>6, <2>1, <2>2 DEF Rest, MBUFSIZE
  <2>4. QED
    BY <1>6, <2>1, <2>2, <2>3 DEF MBUFSIZE
<1> HIDE DEF more, rest
<1>8. Pairs(rest) \in 0 .. 1
  BY <1>7 DEF Pairs, ATTRENTRYSIZE, DIRENTRYSIZE
<1>9. MBufsFor(-k, big, sl) \in Int /\ MBufsFor(-k, big, sl) <= 0
  BY <1>3, <1>4, <1>7 DEF MBufsFor, more
<1>10. QED
  BY <1>3, <1>5, <1>8, <1>9 DEF AttrsFor, DirsFor, Larger, rest

-----------------------------------------------------------------------------
\* The three octal digits of a umask come back as they went in.
LEMMA OctalDigits ==
    ASSUME NEW a \in 0 .. 7, NEW b \in 0 .. 7, NEW c \in 0 .. 7
    PROVE  UMaskDigits((a * 8 + b) * 8 + c) = <<a, b, c>>
<1> DEFINE u == (a * 8 + b) * 8 + c
<1>1. u \div 64 = a /\ u \div 8 = a * 8 + b /\ u % 8 = c
  OBVIOUS
<1>2. a % 8 = a /\ (a * 8 + b) % 8 = b
  OBVIOUS
<1>3. QED
  BY <1>1, <1>2 DEF UMaskDigits

\* Argument and command give a umask of legal digits the same meaning.
LEMMA UMaskSame ==
    ASSUME NEW d \in UMasks, \A k \in 1 .. 3 : d[k] <= 7
    PROVE  UMaskDigits(UMaskOfArg(d)) = d /\ UMaskDigits(UMaskOfText(d)) = d
<1>1. PICK a \in 0 .. 9, b \in 0 .. 9, c \in 0 .. 9 : d = <<a, b, c>>
  BY SettingsAssumption
<1>2. a \in 0 .. 7 /\ b \in 0 .. 7 /\ c \in 0 .. 7
  <2>1. d[1] <= 7 /\ d[2] <= 7 /\ d[3] <= 7
    OBVIOUS
  <2>2. QED
    BY <1>1, <2>1
<1>3. UMaskOfText(d) = (a * 8 + b) * 8 + c
  BY <1>1, <1>2 DEF UMaskOfText
<1>4. a % 8 = a /\ b % 8 = b /\ c % 8 = c
  BY <1>2
<1>5. UMaskOfArg(d) = (a * 8 + b) * 8 + c
  BY <1>1, <1>2, <1>4 DEF UMaskOfArg
<1>6. QED
  BY <1>1, <1>2, <1>3, <1>5, OctalDigits

-----------------------------------------------------------------------------
\* The inductive invariant: TypeOK bounds what DistributeBuffers is given,
\* InForce turns the update of one field of a table into a whole table.
SettingsIInv == SettingsTypeOK /\ MemoryAccounted /\ InForce /\ RetryFires /\ UMaskMeant

LEMMA SettingsBegin == SettingsInit => SettingsIInv
<1> SUFFICES ASSUME SettingsInit PROVE SettingsIInv
  OBVIOUS
<1>1. /\ attrTTL \in 0 .. CACHE_TIMEOUT_MAX /\ dirTTL \in 0 .. CACHE_TIMEOUT_MAX
      /\ rpcTimeout \in RPC_TIMEOUT_MIN .. RPC_TIMEOUT_MAX
      /\ Given(NFS_MAXDATA, 256, NFS_MAXDATA) \subseteq 256 .. NFS_MAXDATA
  BY GivenBounded DEF SettingsInit
<1>2. numBuffers \in Int
  BY SettingsAssumption DEF SettingsInit
<1>3. /\ MemoryAccounted /\ numMBufs \in Nat /\ missing \in Nat
      /\ attrMax \in Nat /\ dirMax \in Nat
  <2> DEFINE big == BigTimeout(attrTTL, dirTTL)
             asked == MBufsFor(numBuffers, big, slow)
  <2>1. /\ big \in BOOLEAN /\ slow \in BOOLEAN
        /\ StartPool(asked)
        /\ attrMax = AttrsFor(numBuffers, big, slow) /\ dirMax = DirsFor(numBuffers, big, slow)
    BY DEF SettingsInit, BigTimeout
  <2> HIDE DEF big
  <2>2. CASE numBuffers >= 0
    <3>1. /\ asked \in Nat /\ attrMax \in Nat /\ dirMax \in Nat /\ BufMem(numBuffers) \in Nat
          /\ asked * MBUFSIZE + attrMax * ATTRENTRYSIZE + dirMax * DIRENTRYSIZE > BufMem(numBuffers)
          /\ asked * MBUFSIZE + attrMax * ATTRENTRYSIZE + dirMax * DIRENTRYSIZE
                <= BufMem(numBuffers) + 21 * (ATTRENTRYSIZE + DIRENTRYSIZE)
      BY <1>2, <2>1, <2>2, Distributed, FirstShares
    <3> HIDE DEF asked
    <3>2. \/ numMBufs = asked /\ missing = 0
          \/ numMBufs = 0 /\ missing = asked
      BY <2>1, <3>1 DEF StartPool, Larger
    <3>3. QED
      BY <3>1, <3>2 DEF MemoryAccounted, MemoryUsed, Larger, MBUFSIZE, ATTRENTRYSIZE, DIRENTRYSIZE
  <2>3. CASE numBuffers < 0
    <3>1. PICK k \in Nat : numBuffers = -k /\ k > 0
      <4>1. -numBuffers \in Nat /\ numBuffers = -(-numBuffers) /\ -numBuffers > 0
        BY <1>2, <2>3
      <4>2. QED
        BY <4>1
    <3>2. asked \in Int /\ asked <= 0 /\ attrMax = 20 /\ dirMax = 20
      BY <2>1, <3>1, DistributedNegative
    <3> HIDE DEF asked
    <3>3. numMBufs = 0 /\ missing = 0
      BY <2>1, <3>2 DEF StartPool, Larger
    <3>4. BufMem(numBuffers) \in Int /\ BufMem(numBuffers) < 0
      BY <3>1 DEF BufMem
    <3>5. QED
      BY <3>2, <3>3, <3>4 DEF MemoryAccounted, MemoryUsed, Larger, MBUFSIZE, ATTRENTRYSIZE, DIRENTRYSIZE
  <2>4. QED
    BY <1>2, <2>2, <2>3
<1>4. SettingsTypeOK
  <2>1. sizes \in [SizeNames -> 256 .. NFS_MAXDATA]
    BY <1>1 DEF SettingsInit
  <2>2. rpcTimeout \in Int /\ total \in Int /\ wait \in Int
    BY <1>1 DEF SettingsInit, MountTimes, RPC_TIMEOUT_MIN, RPC_TIMEOUT_MAX
  <2>3. QED
    BY <1>1, <1>2, <1>3, <2>1, <2>2 DEF SettingsInit, SettingsTypeOK
<1>5. InForce
  BY DEF SettingsInit, MountTimes, InForce
<1>6. RetryFires
  BY <1>1 DEF SettingsInit, MountTimes, RetryFires, RPC_TIMEOUT_MIN, RPC_TIMEOUT_MAX
<1>7. UMaskMeant
  BY UMaskSame DEF SettingsInit, UMaskMeant
<1>8. QED
  BY <1>3, <1>4, <1>5, <1>6, <1>7 DEF SettingsIInv

\* A command that leaves the memory, the tables, the timeouts, the client and
\* the umask alone.
LEMMA StepElsewhere ==
    ASSUME SettingsIInv, UNCHANGED <<memory, tables, timeouts, rpc, masks>>,
           sizes' \in [SizeNames -> 256 .. NFS_MAXDATA], limit' \in Int,
           slow' \in BOOLEAN, timeoutReq' \in BOOLEAN, async' \in BOOLEAN,
           numRPCs' = IF async' THEN 2 ELSE 1
    PROVE  SettingsIInv'
BY DEF SettingsIInv, SettingsTypeOK, MemoryAccounted, MemoryUsed, InForce, RetryFires, UMaskMeant,
       memory, tables, timeouts, rpc, masks

LEMMA SettingsStep == SettingsIInv /\ [SettingsNext]_settings => SettingsIInv'
<1> SUFFICES ASSUME SettingsIInv, [SettingsNext]_settings PROVE SettingsIInv'
  OBVIOUS
<1>0. SettingsTypeOK /\ MemoryAccounted /\ InForce /\ RetryFires /\ UMaskMeant
  BY DEF SettingsIInv
<1>1. CASE act_MORE_CACHE
  <2>1. /\ UNCHANGED <<timeouts, rpc, sizes, limit, flags, masks>>
        /\ \/ UNCHANGED <<memory, tables>>
           \/ \E n \in Nat, big \in BOOLEAN :
                /\ numMBufs' = MBufsFor(n, big, slow) /\ missing' = 0
                /\ attrMax' = AttrsFor(n, big, slow) /\ dirMax' = DirsFor(n, big, slow)
                /\ attrTable' = [attrTable EXCEPT !.max = attrMax']
                /\ dirTable' = [dirTable EXCEPT !.max = dirMax']
                /\ numBuffers' = n
    <3>1. \A num \in Counts : Larger(numBuffers + num, 0) \in Nat
      BY <1>0, SettingsAssumption DEF SettingsTypeOK, Larger
    <3>2. BigTimeout(attrTTL, dirTTL) \in BOOLEAN
      BY DEF BigTimeout
    <3>3. QED
      BY <1>1, <3>1, <3>2 DEF act_MORE_CACHE, attrs_SetCacheSize, dc_SetCacheSize
  <2>2. CASE UNCHANGED <<memory, tables>>
    BY <1>0, <2>1, <2>2, StepElsewhere DEF SettingsTypeOK, flags
  <2>3. CASE \E n \in Nat, big \in BOOLEAN :
                /\ numMBufs' = MBufsFor(n, big, slow) /\ missing' = 0
                /\ attrMax' = AttrsFor(n, big, slow) /\ dirMax' = DirsFor(n, big, slow)
                /\ attrTable' = [attrTable EXCEPT !.max = attrMax']
                /\ dirTable' = [dirTable EXCEPT !.max = dirMax']
                /\ numBuffers' = n
    <3>1. PICK n \in Nat, big \in BOOLEAN :
                /\ numMBufs' = MBufsFor(n, big, slow) /\ missing' = 0
                /\ attrMax' = AttrsFor(n, big, slow) /\ dirMax' = DirsFor(n, big, slow)
                /\ attrTable' = [attrTable EXCEPT !.max = attrMax']
                /\ dirTable' = [dirTable EXCEPT !.max = dirMax']
                /\ numBuffers' = n
      BY <2>3
    <3>2. slow \in BOOLEAN
      BY <1>0 DEF SettingsTypeOK
    <3>3. /\ MemoryAccounted' /\ numMBufs' \in Nat /\ missing' \in Nat
          /\ attrMax' \in Nat /\ dirMax' \in Nat
      <4>1. /\ numMBufs' \in Nat /\ attrMax' \in Nat /\ dirMax' \in Nat
            /\ missing' = 0 /\ numBuffers' = n
            /\ MemoryUsed' > BufMem(n)
            /\ MemoryUsed' <= BufMem(n) + 21 * (ATTRENTRYSIZE + DIRENTRYSIZE)
        BY <3>1, <3>2, Distributed DEF MemoryUsed
      <4>2. BufMem(n) \in Nat
        BY DEF BufMem
      <4>3. MemoryUsed' + missing' * MBUFSIZE = MemoryUsed'
        <5>1. numMBufs' \in Nat /\ attrMax' \in Nat /\ dirMax' \in Nat /\ missing' = 0
          BY <4>1
        <5>2. MemoryUsed' = numMBufs' * MBUFSIZE + attrMax' * ATTRENTRYSIZE + dirMax' * DIRENTRYSIZE
          BY DEF MemoryUsed
        <5>3. QED
          BY <5>1, <5>2, NoneMissing, Zenon
      <4>4. Larger(BufMem(n), 0) = BufMem(n)
        BY <4>2 DEF Larger
      <4>5. (Larger(BufMem(numBuffers), 0))' = BufMem(n) /\ BufMem(numBuffers)' = BufMem(n)
        BY <4>1, <4>4 DEF Larger, BufMem
      <4>6. (MBUFSIZE)' = MBUFSIZE /\ (ATTRENTRYSIZE)' = ATTRENTRYSIZE /\ (DIRENTRYSIZE)' = DIRENTRYSIZE
        BY DEF MBUFSIZE, ATTRENTRYSIZE, DIRENTRYSIZE
      <4>7. QED
        BY <4>1, <4>3, <4>5, <4>6 DEF MemoryAccounted
    <3>4. SettingsTypeOK'
      BY <1>0, <2>1, <3>1, <3>3 DEF SettingsTypeOK, timeouts, rpc, flags
    <3>5. InForce' /\ RetryFires' /\ UMaskMeant'
      BY <1>0, <2>1, <3>1 DEF InForce, RetryFires, UMaskMeant, timeouts, rpc, masks
    <3>6. QED
      BY <3>3, <3>4, <3>5 DEF SettingsIInv
  <2>4. QED
    BY <2>1, <2>2, <2>3
<1>2. CASE SetSize
  <2>1. \A i \in Inputs : Clamp(256, NFS_MAXDATA, i) \in 256 .. NFS_MAXDATA
    BY ClampBounded, SettingsAssumption
  <2>2. sizes' \in [SizeNames -> 256 .. NFS_MAXDATA]
    BY <1>0, <1>2, <2>1 DEF SetSize, SettingsTypeOK
  <2>3. QED
    BY <1>0, <1>2, <2>2, StepElsewhere DEF SetSize, SettingsTypeOK, flags
<1>3. CASE SetWriteBufferLimit
  <2>1. limit' \in Int
    BY <1>3, SettingsAssumption DEF SetWriteBufferLimit, Clamp, Larger, Smaller
  <2>2. QED
    BY <1>0, <1>3, <2>1, StepElsewhere DEF SetWriteBufferLimit, SettingsTypeOK, flags
<1>4. CASE SetAttrTimeout
  <2>1. attrTTL' \in 0 .. CACHE_TIMEOUT_MAX
    BY <1>4, ClampBounded, SettingsAssumption DEF SetAttrTimeout
  <2>2. InForce'
    BY <1>0, <1>4 DEF SetAttrTimeout, attrs_SetCacheTimeout, InForce, memory, rpc
  <2>3. SettingsTypeOK'
    BY <1>0, <1>4, <2>1 DEF SetAttrTimeout, SettingsTypeOK, memory, rpc, flags
  <2>4. MemoryAccounted' /\ RetryFires' /\ UMaskMeant'
    BY <1>0, <1>4 DEF SetAttrTimeout, MemoryAccounted, MemoryUsed, RetryFires, UMaskMeant,
                      memory, rpc, masks
  <2>5. QED
    BY <2>2, <2>3, <2>4 DEF SettingsIInv
<1>5. CASE SetDirTimeout
  <2>1. dirTTL' \in 0 .. CACHE_TIMEOUT_MAX
    BY <1>5, ClampBounded, SettingsAssumption DEF SetDirTimeout
  <2>2. InForce'
    BY <1>0, <1>5 DEF SetDirTimeout, dc_SetCacheTimeout, InForce, memory, rpc
  <2>3. SettingsTypeOK'
    BY <1>0, <1>5, <2>1 DEF SetDirTimeout, SettingsTypeOK, memory, rpc, flags
  <2>4. MemoryAccounted' /\ RetryFires' /\ UMaskMeant'
    BY <1>0, <1>5 DEF SetDirTimeout, MemoryAccounted, MemoryUsed, RetryFires, UMaskMeant,
                      memory, rpc, masks
  <2>5. QED
    BY <2>2, <2>3, <2>4 DEF SettingsIInv
<1>6. CASE SetRpcTimeout
  <2>1. PICK i \in Inputs : RpcTimes(i)
    BY <1>6 DEF SetRpcTimeout
  <2>2. /\ total' \in RPC_TIMEOUT_MIN .. RPC_TIMEOUT_MAX
        /\ rpcTimeout' = total' /\ wait' = rpcTimeout' \div 5
    BY <2>1, ClampBounded, SettingsAssumption DEF RpcTimes
  <2>3. RetryFires'
    <3>1. total' \in Int /\ total' >= 25 /\ wait' = total' \div 5
      BY <2>2 DEF RPC_TIMEOUT_MIN, RPC_TIMEOUT_MAX
    <3>2. wait' \in Int /\ wait' > 0 /\ 5 * wait' <= total'
      BY <3>1, FifthFits
    <3>3. QED
      BY <3>2 DEF RetryFires
  <2>4. SettingsTypeOK'
    BY <1>0, <1>6, <2>2 DEF SetRpcTimeout, SettingsTypeOK, memory, timeouts, flags, RPC_TIMEOUT_MIN, RPC_TIMEOUT_MAX
  <2>5. InForce' /\ MemoryAccounted' /\ UMaskMeant'
    BY <1>0, <1>6, <2>2 DEF SetRpcTimeout, InForce, MemoryAccounted, MemoryUsed, UMaskMeant,
                            memory, tables, timeouts, masks
  <2>6. QED
    BY <2>3, <2>4, <2>5 DEF SettingsIInv
<1>7. CASE SetFlag
  <2>1. /\ slow' \in BOOLEAN /\ timeoutReq' \in BOOLEAN /\ async' \in BOOLEAN
        /\ numRPCs' = IF async' THEN 2 ELSE 1
    BY <1>0, <1>7 DEF SetFlag, SettingsTypeOK
  <2>2. QED
    BY <1>0, <1>7, <2>1, StepElsewhere DEF SetFlag, SettingsTypeOK
<1>8. CASE SetUMask
  <2>1. UMaskMeant'
    BY <1>8, UMaskSame DEF SetUMask, UMaskMeant
  <2>2. SettingsTypeOK' /\ MemoryAccounted' /\ InForce' /\ RetryFires'
    BY <1>0, <1>8 DEF SetUMask, SettingsTypeOK, MemoryAccounted, MemoryUsed, InForce, RetryFires,
                      memory, tables, timeouts, rpc, flags
  <2>3. QED
    BY <2>1, <2>2 DEF SettingsIInv
<1>9. CASE act_RENAME_DISK \/ Get \/ GetText \/ BadCommand
  BY <1>0, <1>9, StepElsewhere DEF act_RENAME_DISK, Get, GetText, BadCommand, SettingsTypeOK, flags
<1>10. CASE UNCHANGED settings
  BY <1>0, <1>10, StepElsewhere DEF settings, SettingsTypeOK, flags
<1>11. QED
  BY <1>1, <1>2, <1>3, <1>4, <1>5, <1>6, <1>7, <1>8, <1>9, <1>10 DEF SettingsNext

LEMMA SettingsHold == SettingsSpec => []SettingsIInv
<1>1. QED
  BY SettingsBegin, SettingsStep, PTL DEF SettingsSpec

-----------------------------------------------------------------------------
\* For every number of buffers, a negative one too, DistributeBuffers gives
\* away all the memory and at most 21 pairs of entries more; a start without
\* memory leaves the pool empty, short of just the buffers it asked for, until
\* a MORE_CACHE gets its own; and MORE_CACHE keeps it that way also when it
\* fails and when the timeouts were changed before.
THEOREM MemoryStaysAccounted == SettingsSpec => []MemoryAccounted
<1>1. SettingsIInv => MemoryAccounted
  BY DEF SettingsIInv
<1>2. QED
  BY <1>1, SettingsHold, PTL

\* The settings stay within their bounds, whatever numbers are given as
\* arguments or to SET; the limits and timeouts GET reports are those of the
\* tables and of the client; and a call is sent again before it times out.
THEOREM AlwaysInForce == SettingsSpec => []SettingsInForce
<1>1. SettingsIInv => SettingsInForce
  BY DEF SettingsIInv, SettingsInForce
<1>2. QED
  BY <1>1, SettingsHold, PTL

\* A umask of octal digits is shown as it was given, as argument or by SET.
THEOREM UMaskAsGiven == SettingsSpec => []UMaskMeant
<1>1. SettingsIInv => UMaskMeant
  BY DEF SettingsIInv
<1>2. QED
  BY <1>1, SettingsHold, PTL
=============================================================================
