------------------------------ MODULE Attributes ------------------------------
(***************************************************************************)
(* The attributes of files: the packets that set and show them (attr.c,    *)
(* examine.c, info.c), the conversions between AmigaDOS and NFS, and the   *)
(* attribute and name caches in front of the server (attrs.c, dcache.c,    *)
(* c_GetAttr, GetDirEntry and GetNameEntry of lock.c).                     *)
(*                                                                         *)
(* All objects are in the root directory.  The server executes a call in   *)
(* one step and the handler takes the answer in a later one, so that other *)
(* clients act in between; an answer can be lost after the call was        *)
(* executed.  The tables are those of FTHash, seen through their lookup: an *)
(* entry lives for the time-to-live of its table, or less.                 *)
(***************************************************************************)
EXTENDS Integers, FiniteSets

CONSTANTS
    Names,               \* names in the root directory
    Ids,                 \* file ids; RootId is the root's
    SecondsPerMinute, MinutesPerDay, TICKS_PER_SECOND, \* 60, 1440, 50
    Micros,              \* useconds per second, 1000000
    Word,                \* values of a 32 bit word
    MaxId,               \* 0xFFFF, the largest UWORD
    Masks,               \* protection bits programs set
    Dates, Owners,       \* date stamps and pairs of owner and group they set
    FirstAttr,           \* attributes of a new file
    OtherAttrs,          \* attributes others give to a file
    AttrTTL, DirTTL,     \* g_AttrCacheTimeout, g_DirCacheTimeout
    None,
    MaxTime, MaxChanges, MaxSets \* bounds: the clock, what others change, what programs set

RootId == "root"
Objects == Ids \cup {RootId}
RootAttr == [FirstAttr EXCEPT !.type = "NFDIR"]

\* Bits are pairs of a class (user, group, other) and a right.
Classes == {"u", "g", "o"}
ModeBits == Classes \X {"r", "w", "x"}
ProtectionBits == Classes \X {"r", "w", "d", "e"}

\* ftype, and the entry types of AmigaDOS ("0" is none of them).
ftype == {"NFNON", "NFREG", "NFDIR", "NFBLK", "NFCHR", "NFLNK", "NFSOCK", "NFBAD", "NFFIFO"}
EntryTypes ==
    {"ST_USERDIR", "ST_FILE", "ST_SOFTLINK", "ST_CDEVICE", "ST_BDEVICE", "ST_SOCKET", "ST_FIFO", "0"}

\* fattr, struct DateStamp, and what a program is shown.
Attrs == [type : ftype, mode : SUBSET ModeBits, uid : Nat, gid : Nat,
          mtime : [seconds : Nat, useconds : Nat]]

DateStamps == [days : Nat, minute : Nat, tick : Nat]

Shown ==
    LET rights == SUBSET ProtectionBits
        dates == [days : Int, minute : Int, tick : Int]
    IN  [protection : rights, date : dates, owner : Nat \X Nat, type : EntryTypes]
          \cup [protection : rights, date : dates, owner : Nat \X Nat]

\* A dce with its names, the answers of the server and those to packets.
DirEntries == [birth : Nat, names : [Names -> Objects \cup {None}]]

Replies ==
    [ok : {FALSE}]
      \cup [ok : {TRUE}, id : Objects, gen : Nat, attr : Attrs, seen : Nat]

Answers ==
    [ok : BOOLEAN] \cup [ok : {TRUE}, blocks : Nat, used : Nat]
      \cup [ok : {TRUE}, id : Objects, gen : Nat, attr : Attrs, seen : Int, birth : Int,
            dirBirth : Nat, at : Nat, shown : Shown]

ASSUME AttributesAssumption ==
    /\ RootId \notin Ids /\ None \notin Objects
    /\ None \notin DirEntries /\ None \notin Replies /\ None \notin Answers
    /\ {SecondsPerMinute, MinutesPerDay, TICKS_PER_SECOND, Micros, Word, MaxId} \subseteq Nat \ {0}
    /\ Micros % TICKS_PER_SECOND = 0
    /\ Masks \subseteq SUBSET ProtectionBits /\ Dates \subseteq DateStamps
    /\ Owners \subseteq Nat \X Nat
    /\ FirstAttr \in Attrs /\ OtherAttrs \subseteq Attrs
    /\ AttrTTL \in Nat /\ DirTTL \in Nat /\ MaxChanges \in Nat

VARIABLES
    srv,                 \* the server's objects: generation of the handle, attributes
    dir,                 \* the server's root directory
    cache,               \* the attribute cache, by file id
    dce,                 \* the directory cache's entry of the root
    pkt, reply,          \* the packet in work, the answer to its call
    ans,                 \* the answer to the packet
    now, changes, sets,  \* the clock, changes by others, SET packets
    changed, rebound,    \* when others last changed an object, a name
    lastSet              \* what SETs gave an object nobody else changed since

vars == <<srv, dir, cache, dce, pkt, reply, ans, now, changes, sets, changed, rebound, lastSet>>
server == <<srv, dir>>
ghosts == <<changes, sets, changed, rebound, lastSet>>

-----------------------------------------------------------------------------
\* Conversions.  C division truncates towards zero.
CDiv(a, b) == IF a < 0 THEN -((-a) \div b) ELSE a \div b
CMod(a, b) == a - b * CDiv(a, b)

Signed(u) == IF u >= Word \div 2 THEN u - Word ELSE u

SecondsPerDay == SecondsPerMinute * MinutesPerDay

\* Mutant: the minutes are taken from the seconds of all days.
timeval2DateStampRaw(tv) ==
    LET seconds == Signed((tv.seconds + tv.useconds \div Micros) % Word)
    IN  [days |-> CDiv(seconds, SecondsPerDay),
         minute |-> CDiv(seconds, SecondsPerMinute),
         tick |-> (tv.seconds % SecondsPerMinute) * TICKS_PER_SECOND
                    + tv.useconds \div (Micros \div TICKS_PER_SECOND)]

\* nfstime is unsigned, the local variable is a LONG.
timeval2DateStamp(tv) ==
    LET seconds == Signed((tv.seconds + tv.useconds \div Micros) % Word)
    IN  [days |-> CDiv(seconds, SecondsPerDay),
         minute |-> CDiv(CMod(seconds, SecondsPerDay), SecondsPerMinute),
         tick |-> (tv.seconds % SecondsPerMinute) * TICKS_PER_SECOND
                    + tv.useconds \div (Micros \div TICKS_PER_SECOND)]

DateStamp2timeval(ds) ==
    [seconds |-> ((ds.days * MinutesPerDay + ds.minute) * SecondsPerMinute
                    + ds.tick \div TICKS_PER_SECOND) % Word,
     useconds |-> ((ds.tick % TICKS_PER_SECOND) * Micros) \div TICKS_PER_SECOND]

\* The bits FIBF_READ.. of the owner deny a right, the others grant it.
Denies(bit) == bit[1] = "u"

NFSRight(right) == CASE right = "r" -> "r" [] right = "e" -> "x" [] OTHER -> "w"

NFSMode2Protection(mode) ==
    {b \in ProtectionBits : <<b[1], NFSRight(b[2])>> \in mode <=> ~Denies(b)}

\* aulib's au_Protection2umode: the inverse for the bits without "delete".
au_Protection2umode(mask) ==
    {b \in ModeBits :
        <<b[1], IF b[2] = "x" THEN "e" ELSE b[2]>> \in mask <=> ~Denies(b)}

NFSType2EntryType(type) ==
    CASE type = "NFDIR" -> "ST_USERDIR" [] type = "NFREG" -> "ST_FILE"
      [] type = "NFLNK" -> "ST_SOFTLINK" [] type = "NFCHR" -> "ST_CDEVICE"
      [] type = "NFBLK" -> "ST_BDEVICE" [] type = "NFSOCK" -> "ST_SOCKET"
      [] type = "NFFIFO" -> "ST_FIFO" [] OTHER -> "0"

\* nobody is 0 here and 0xFFFF or above there, root the other way round.
nfsuid2UID(uid) == IF uid >= MaxId THEN 0 ELSE IF uid = 0 THEN MaxId ELSE uid

nfsgid2GID(gid) == nfsuid2UID(gid)

\* What EXAMINE and GET_ATTRIBUTES show; the latter does not map ids.
FAttr2FIB(a) ==
    [protection |-> NFSMode2Protection(a.mode), date |-> timeval2DateStamp(a.mtime),
     owner |-> <<nfsuid2UID(a.uid), nfsgid2GID(a.gid)>>, type |-> NFSType2EntryType(a.type)]

TagsOf(a) ==
    [protection |-> NFSMode2Protection(a.mode), date |-> timeval2DateStamp(a.mtime),
     owner |-> <<a.uid, a.gid>>]

-----------------------------------------------------------------------------
\* fthash.c, see FTHash.
DeadAt(e, ttl, t) == t - ttl > e.birth

IsDead(e, ttl) == DeadAt(e, ttl, now)

\* attrs_LookupFromFileId.
Cached(id) == cache[id] # None /\ ~IsDead(cache[id], AttrTTL)

\* attrs_Update copies into a living entry, which keeps its time of birth;
\* otherwise attrs_CreateAndInsert.
attrs_Update(c, id, gen, attr, seen) ==
    [c EXCEPT ![id] =
        [gen |-> gen, attr |-> attr, seen |-> seen,
         birth |-> IF c[id] # None /\ ~IsDead(c[id], AttrTTL) THEN c[id].birth ELSE now]]

\* Mutant: nothing is removed.
attrs_DeleteNot(c, id) == c

attrs_Delete(c, id) == [c EXCEPT ![id] = None]

\* The answer of a successful call goes into the cache.
Store == cache' = attrs_Update(cache, reply.id, reply.gen, reply.attr, reply.seen)

\* act_TIMER removes dead entries.  No lookup finds them, so that it does not
\* matter when: here as soon as they die and no packet has a pointer to them.
attrs_Bury(t) ==
    [i \in Objects |-> IF cache[i] # None /\ DeadAt(cache[i], AttrTTL, t) THEN None ELSE cache[i]]

dc_Bury(t) == IF dce # None /\ DeadAt(dce, DirTTL, t) THEN None ELSE dce

\* dc_DCECreateAndInsert.
NewDCE == [birth |-> now, names |-> [n \in Names |-> None]]

DirAlive == dce # None /\ ~IsDead(dce, DirTTL)

-----------------------------------------------------------------------------
\* The server.  A handle names an id and a generation.
Exists(id) == srv[id].attr # None

Valid(id, gen) == Exists(id) /\ srv[id].gen = gen

Attributes(id) ==
    [ok |-> TRUE, id |-> id, gen |-> srv[id].gen, attr |-> srv[id].attr, seen |-> now]

Failed == [ok |-> FALSE]

\* A call that changes nothing: the server's answer, or a failure.
Ask(answer, valid) == reply' \in {Failed} \cup (IF valid THEN {answer} ELSE {})

GetAttrCall(id, gen) == Ask(Attributes(id), Valid(id, gen))

LookupCall(name) == Ask(Attributes(dir[name]), dir[name] # None)

\* What the packet sets in a sattr.
WithSet(attr) ==
    CASE pkt.act = "SET_PROTECT" -> [attr EXCEPT !.mode = au_Protection2umode(pkt.val)]
      [] pkt.act = "SET_DATE" -> [attr EXCEPT !.mtime = DateStamp2timeval(pkt.val)]
      [] pkt.act = "SET_OWNER" -> [attr EXCEPT !.uid = pkt.val[1], !.gid = pkt.val[2]]

Setters == {"SET_PROTECT", "SET_DATE", "SET_OWNER"}

\* The SETATTR is refused, answered, or its answer is lost.
SetAttrCall(id, gen) ==
    \/ reply' = Failed /\ UNCHANGED <<srv, lastSet>>
    \/ /\ Valid(id, gen)
       /\ srv' = [srv EXCEPT ![id].attr = WithSet(@)]
       /\ lastSet' = [lastSet EXCEPT ![id] = {s \in @ : s[1] # pkt.act} \cup {<<pkt.act, pkt.val>>}]
       /\ reply' \in {Failed, [Attributes(id) EXCEPT !.attr = WithSet(@)]}

-----------------------------------------------------------------------------
\* Answers.
Answer(record) == /\ ans' = record /\ pkt' = [pkt EXCEPT !.pc = "done"]

Fail == Answer([ok |-> FALSE])

\* A FIB or a tag list from the entry c, a copy of the cache's or of a call's.
Show(c, id) ==
    Answer([ok |-> TRUE, id |-> id, gen |-> c.gen, attr |-> c.attr, seen |-> c.seen,
            birth |-> c.birth, dirBirth |-> IF dce = None THEN now ELSE dce.birth, at |-> now,
            shown |-> IF pkt.act = "GET_ATTRIBUTES" THEN TagsOf(c.attr) ELSE FAttr2FIB(c.attr)])

To(pc) == pkt' = [pkt EXCEPT !.pc = pc]

Values(act) ==
    CASE act = "SET_PROTECT" -> Masks [] act = "SET_DATE" -> Dates
      [] act = "SET_OWNER" -> Owners [] OTHER -> {None}

Idle == [pc |-> "idle", act |-> None, name |-> None, val |-> None, lock |-> None,
         at |-> 0, obj |-> None]

\* A lock holds the file id and the handle of its object; the null lock,
\* <<>>, is the root's.  Programs hold locks of objects that are or were there.
LocksHeld == {l \in Ids \X (1 .. MaxChanges + 1) : l[2] <= srv[l[1]].gen}

Start ==
    /\ pkt.pc = "idle"
    /\ \/ \E act \in Setters \cup {"GET_ATTRIBUTES"}, n \in Names : \E v \in Values(act) :
            /\ sets' = IF act \in Setters THEN sets + 1 ELSE sets
            /\ sets' <= MaxSets
            /\ pkt' = [Idle EXCEPT !.pc = "dir", !.act = act, !.name = n, !.val = v, !.at = now]
       \/ \E l \in LocksHeld \cup {<<>>, None}, act \in {"EXAMINE_OBJECT", "INFO"} :
            /\ pkt' = [Idle EXCEPT !.pc = "locked", !.act = act, !.lock = l, !.at = now]
            /\ UNCHANGED sets
    /\ UNCHANGED <<server, cache, dce, reply, ans, now, changes, changed, rebound, lastSet>>

\* LRootLocateDir for a name in the root: GetDirEntry, c_GetAttr.
LocateDir ==
    /\ pkt.pc = "dir"
    /\ \/ DirAlive /\ To("find") /\ UNCHANGED <<dce, reply>>
       \/ ~DirAlive /\ Cached(RootId) /\ dce' = NewDCE /\ To("find") /\ UNCHANGED reply
       \/ /\ ~DirAlive /\ ~Cached(RootId)
          /\ GetAttrCall(RootId, 0) /\ To("dirattr") /\ UNCHANGED dce
    /\ UNCHANGED <<server, cache, ans, now, ghosts>>

\* Without memory for an entry of either cache the packet fails.
DirAttrReply ==
    /\ pkt.pc = "dirattr"
    /\ \/ ~reply.ok /\ Fail /\ UNCHANGED <<cache, dce>>
       \/ reply.ok /\ Fail /\ UNCHANGED dce /\ (Store \/ UNCHANGED cache)
       \/ reply.ok /\ Store /\ dce' = NewDCE /\ To("find") /\ UNCHANGED ans
    /\ reply' = None
    /\ UNCHANGED <<server, now, ghosts>>

\* GetNameEntry looks into the caches, nfs_Lookup of a SET does not.
Find ==
    /\ pkt.pc = "find"
    /\ LET id == dce.names[pkt.name] IN
         \/ /\ pkt.act = "GET_ATTRIBUTES" /\ id # None /\ Cached(id)
            /\ Show(cache[id], id) /\ UNCHANGED reply
         \/ /\ ~(pkt.act = "GET_ATTRIBUTES" /\ id # None /\ Cached(id))
            /\ LookupCall(pkt.name) /\ To("lookup") /\ UNCHANGED ans
    /\ UNCHANGED <<server, cache, dce, now, ghosts>>

\* GET_ATTRIBUTES: attributes into the cache, name entry made or brought up
\* to date, either of which can lack memory.
GetLookupReply ==
    /\ pkt.pc = "lookup" /\ pkt.act = "GET_ATTRIBUTES"
    /\ \/ ~reply.ok /\ Fail /\ UNCHANGED <<cache, dce>>
       \/ /\ reply.ok /\ Fail /\ UNCHANGED dce
          /\ Store \/ (~Cached(reply.id) /\ UNCHANGED cache)
       \/ /\ reply.ok /\ Store
          /\ dce' = [dce EXCEPT !.names[pkt.name] = reply.id]
          /\ Show(cache'[reply.id], reply.id)
    /\ reply' = None
    /\ UNCHANGED <<server, now, ghosts>>

\* act_SET_PROTECT, act_SET_DATE, act_SET_OWNER after nfs_Lookup.
SetLookupReply ==
    /\ pkt.pc = "lookup" /\ pkt.act \in Setters
    /\ \/ /\ ~reply.ok /\ Fail /\ reply' = None
          /\ cache' = attrs_Delete(cache, RootId)
          /\ UNCHANGED <<srv, lastSet>>
       \/ /\ reply.ok /\ SetAttrCall(reply.id, reply.gen)
          /\ pkt' = [pkt EXCEPT !.pc = "set", !.obj = reply.id]
          /\ UNCHANGED <<cache, ans>>
    /\ UNCHANGED <<dir, dce, now, changes, sets, changed, rebound>>

\* The changed attributes go into the cache; after a failure nobody knows
\* what the server has.
SetReply ==
    /\ pkt.pc = "set"
    /\ \/ /\ reply.ok /\ (Store \/ (~Cached(reply.id) /\ UNCHANGED cache))
          /\ Answer([ok |-> TRUE])
       \/ /\ ~reply.ok /\ Fail
          /\ cache' = attrs_Delete(cache, pkt.obj)
    /\ reply' = None
    /\ UNCHANGED <<server, dce, now, ghosts>>

\* act_EXAMINE_OBJECT, and EXAMINE_FH with the lock of a handle.
LockId == IF pkt.lock = <<>> THEN RootId ELSE pkt.lock[1]
LockGen == IF pkt.lock = <<>> THEN 0 ELSE pkt.lock[2]

act_EXAMINE_OBJECT ==
    /\ pkt.pc = "locked" /\ pkt.act = "EXAMINE_OBJECT"
    /\ \/ pkt.lock = None /\ Fail /\ UNCHANGED reply
       \/ /\ pkt.lock # None /\ Cached(LockId)
          /\ Show(cache[LockId], LockId) /\ UNCHANGED reply
       \/ /\ pkt.lock # None /\ ~Cached(LockId)
          /\ GetAttrCall(LockId, LockGen) /\ To("getattr") /\ UNCHANGED ans
    /\ UNCHANGED <<server, cache, dce, now, ghosts>>

\* The root falls back to what it was when it was mounted.
MntAttr == [gen |-> 0, attr |-> RootAttr, seen |-> -1, birth |-> -1]

FallsBack == Show(MntAttr, RootId)

\* Without memory for the entry a call that was answered is as good as failed.
GetAttrReply ==
    /\ pkt.pc = "getattr"
    /\ \/ reply.ok /\ Store /\ Show(cache'[reply.id], reply.id)
       \/ pkt.lock = <<>> /\ FallsBack /\ UNCHANGED cache
       \/ pkt.lock # <<>> /\ Fail /\ UNCHANGED cache
    /\ reply' = None
    /\ UNCHANGED <<server, dce, now, ghosts>>

\* act_INFO, and act_DISK_INFO with the root: nothing is cached.  The blocks
\* not available to others than root count as used.
act_INFO ==
    /\ pkt.pc = "locked" /\ pkt.act = "INFO"
    /\ \/ pkt.lock = None /\ Fail
       \/ pkt.lock # None /\ Fail    \* the call failed
       \/ /\ pkt.lock # None /\ Valid(LockId, LockGen)
          /\ \E blocks, bavail \in 0 .. 1 :
               Answer([ok |-> TRUE, blocks |-> blocks, used |-> (blocks - bavail) % Word])
    /\ UNCHANGED <<server, cache, dce, reply, now, ghosts>>

\* The reply, and attrs_UnLockAll, which may free entries above the limit.
EndPacket ==
    /\ pkt.pc = "done"
    /\ pkt' = Idle
    /\ ans' = None
    /\ \E S \in {{}} \cup {{i} : i \in Objects} :
         cache' = [i \in Objects |-> IF i \in S THEN None ELSE cache[i]]
    /\ dce' = dc_Bury(now)
    /\ UNCHANGED <<server, reply, now, ghosts>>

-----------------------------------------------------------------------------
\* The handler is seen by others only through its calls: what happens between
\* two of them is not divided.
Waits == pkt.pc = "idle" \/ reply # None

\* Other clients, and WRITEs of this handler, which do not touch the caches.
Touch(ids) ==
    /\ Waits /\ changes < MaxChanges /\ changes' = changes + 1
    /\ changed' = [i \in Objects |-> IF i \in ids THEN now ELSE changed[i]]
    /\ lastSet' = [i \in Objects |-> IF i \in ids THEN {} ELSE lastSet[i]]
    /\ UNCHANGED <<cache, dce, pkt, reply, ans, now, sets>>

Modify ==
    /\ \E i \in Objects, a \in OtherAttrs :
         /\ Exists(i) /\ srv[i].attr.mode # a.mode
         /\ srv' = [srv EXCEPT ![i].attr = [a EXCEPT !.type = srv[i].attr.type]]
         /\ Touch({i})
    /\ UNCHANGED <<dir, rebound>>

\* A name gets another object: a new file, whose id can be one of old, or an
\* object moved from another name.
Rebind(n, to) ==
    /\ dir' = [m \in Names |-> IF m = n THEN to ELSE IF dir[m] = to THEN None ELSE dir[m]]
    /\ rebound' = [m \in Names |-> IF dir'[m] # dir[m] THEN now ELSE rebound[m]]

Replace ==
    \E n \in Names, i \in Ids :
        /\ i \notin {dir[m] : m \in Names} \ {dir[n]}
        /\ Rebind(n, i)
        /\ srv' = [j \in Objects |->
                     IF j = i THEN [gen |-> srv[i].gen + 1, attr |-> FirstAttr]
                     ELSE IF j = dir[n] THEN [srv[j] EXCEPT !.attr = None] ELSE srv[j]]
        /\ Touch({i} \cup (IF dir[n] = None THEN {} ELSE {dir[n]}))

Move ==
    \E n, m \in Names :
        /\ n # m /\ dir[n] # None
        /\ Rebind(m, dir[n])
        /\ srv' = [j \in Objects |-> IF j = dir[m] THEN [srv[j] EXCEPT !.attr = None] ELSE srv[j]]
        /\ Touch(IF dir[m] = None THEN {} ELSE {dir[m]})

Tick ==
    /\ Waits /\ now < MaxTime /\ now' = now + 1
    /\ cache' = attrs_Bury(now')
    /\ dce' = IF pkt.pc = "idle" THEN dc_Bury(now') ELSE dce
    /\ UNCHANGED <<server, pkt, reply, ans, ghosts>>

Init ==
    /\ \E n \in Names, i \in Ids :
         /\ dir = [m \in Names |-> IF m = n THEN i ELSE None]
         /\ srv = [j \in Objects |->
                     IF j = RootId THEN [gen |-> 0, attr |-> RootAttr]
                     ELSE IF j = i THEN [gen |-> 1, attr |-> FirstAttr]
                     ELSE [gen |-> 0, attr |-> None]]
    /\ cache = [i \in Objects |-> None] /\ dce = None
    /\ pkt = Idle
    /\ reply = None /\ ans = None
    /\ now = 0 /\ changes = 0 /\ sets = 0
    /\ changed = [i \in Objects |-> -1] /\ rebound = [n \in Names |-> -1]
    /\ lastSet = [i \in Objects |-> {}]

Handler ==
    \/ LocateDir \/ DirAttrReply \/ Find \/ GetLookupReply \/ SetLookupReply \/ SetReply
    \/ act_EXAMINE_OBJECT \/ GetAttrReply \/ act_INFO \/ EndPacket

Next == Start \/ Handler \/ Modify \/ Replace \/ Move \/ Tick

Spec == Init /\ [][Next]_vars

-----------------------------------------------------------------------------
\* Attributes are shown, and not those do_ExamineRoot falls back to, which are
\* as old as the mount.
Shows ==
    /\ pkt.pc = "done" /\ ans.ok /\ pkt.act \in {"EXAMINE_OBJECT", "GET_ATTRIBUTES"}
    /\ ans.seen >= 0

\* The variables hold what their comments say; the cache holds attributes
\* only of objects, and no call is out between packets.
TypeOK ==
    /\ \A i \in Objects : srv[i].gen \in 0 .. MaxChanges + 1
    /\ dir \in [Names -> Ids \cup {None}]
    /\ \A i \in Objects : cache[i] # None => cache[i].seen <= now /\ cache[i].birth <= now
    /\ dce # None => dce.birth <= now
    /\ pkt.pc \in {"idle", "dir", "dirattr", "find", "lookup", "set", "locked", "getattr", "done"}
    /\ (reply # None) = (pkt.pc \in {"dirattr", "lookup", "set", "getattr"})
    /\ (ans # None) = (pkt.pc = "done")

\* What a program is shown is what the server has, unless someone went past
\* the cache since the attributes left the server, and then the entry it is
\* shown was not kept longer than the timeout.  In particular a SET whose
\* answer was lost leaves nothing wrong in the cache (attr.c), and the hit of
\* c_GetAttr by file id alone does not show an older object of that id.
ShownCurrent ==
    Shows =>
      \/ srv[ans.id].gen = ans.gen /\ srv[ans.id].attr = ans.attr
      \/ changed[ans.id] >= ans.seen /\ ans.birth >= ans.at - AttrTTL

\* GET_ATTRIBUTES shows the object the name stands for, unless the name was
\* given to another one while the directory's entry was in the cache, which
\* its timeout bounds (GetNameEntry: "introduce timeout for name entries too ?").
NameCurrent ==
    Shows /\ pkt.act = "GET_ATTRIBUTES" =>
      \/ dir[pkt.name] = ans.id
      \/ rebound[pkt.name] >= ans.dirBirth /\ ans.dirBirth >= pkt.at - DirTTL

\* Values AmigaDOS and NFS can both express: the right to delete follows the
\* one to write, proper dates before half the range of a word, ids other than
\* root's and nobody's for EXAMINE.
Expressible(act, v) ==
    CASE act = "SET_PROTECT" ->
           \A c \in Classes : <<c, "w">> \in v <=> <<c, "d">> \in v
      [] act = "SET_DATE" ->
           /\ v.minute < MinutesPerDay /\ v.tick < SecondsPerMinute * TICKS_PER_SECOND
           /\ (v.days * MinutesPerDay + v.minute + 1) * SecondsPerMinute <= Word \div 2
      [] act = "SET_OWNER" ->
           pkt.act = "GET_ATTRIBUTES" \/ \A k \in 1 .. 2 : v[k] \in 1 .. MaxId - 1

ShownField(act) ==
    CASE act = "SET_PROTECT" -> ans.shown.protection
      [] act = "SET_DATE" -> ans.shown.date [] act = "SET_OWNER" -> ans.shown.owner

\* What a program sets it is shown again, through both conversions and the
\* caches, as long as no one else changes the object: even when the SET was
\* reported as failed because only its answer was lost.
SetIsShown ==
    Shows => \A s \in lastSet[ans.id] :
               Expressible(s[1], s[2]) => ShownField(s[1]) = s[2]

\* A program is shown the right object and its present attributes, or is late
\* by no more than the timeouts of the two caches.
ShownExact == TypeOK /\ ShownCurrent /\ NameCurrent
=============================================================================
