------------------------------ MODULE NfsProcs -------------------------------
(***************************************************************************)
(* One procedure call after the other, as src/src/nfs.c makes them: a      *)
(* wrapper (nfs_GetAttr ... nfs_statfs) builds the arguments, a stub of    *)
(* ch_nfs_prot_clnt.c clears its static result and hands both to the RPC   *)
(* layer with the encoding routines of module Xdr, the server answers, the *)
(* answer is decoded and the wrapper turns it into a result or an AmigaDOS *)
(* error (nfssupp.c).  A lookup that fails with NOENT goes on with         *)
(* nfs_LookupNC: the directory is read piece by piece, while others change *)
(* it, for a name that differs in case only.                               *)
(*                                                                         *)
(* The RPC layer (module RpcClient) is here what it promises: the call     *)
(* reaches the server and its answer comes back, or the call fails.  An    *)
(* answer may be short (a broken server, a datagram larger than the        *)
(* receive buffer) and memory may run out while it is decoded.             *)
(***************************************************************************)
EXTENDS Xdr

CONSTANTS
    Ops,            \* the calls the handler makes, see MCNfsProcs
    Junk,           \* what an uninitialised member may hold
    Statuses,       \* the failures the server reports
    DirStatuses,    \* those of them tried with LOOKUP and READDIR
    Bodies,         \* Bodies[proc]: the results of successful calls
    RpcFailures,    \* enum clnt_stat of calls that fail
    Cookies,        \* the places of the directory, 1 .. n
    Directories,    \* its possible contents: functions from Cookies to names
    NewNames,       \* names that others create
    Chunks,         \* entries that fit into one answer
    CompareLength,  \* how much of a long name is compared (106)
    MaxRoom,        \* allocations that may succeed at all
    MaxChanges      \* changes of the directory by others

ASSUME ProcsAssumption ==
    /\ Statuses \subseteq WordRange \ {NFS_OK} /\ DirStatuses \subseteq Statuses
    /\ RpcFailures \subseteq Nat \ {0}
    /\ CompareLength \in Nat \ {0}
    /\ MaxRoom \in Nat \ {0} /\ MaxChanges \in Nat

VARIABLES
    pc,         \* "idle", "sent", "answered", "decoded", "done"
    op,         \* the call the handler has made
    req,        \* the request in flight: procedure, arguments, error context
    call,       \* its bytes, after the RPC header: procedure number, arguments
    stage,      \* of a lookup: "exact", "scan", "again"; else "single"
    cookie,     \* mynfscookie of nfs_LookupNC
    ans,        \* the server's answer (a value of the protocol)
    got,        \* the answer as the client decoded it
    whole,      \* no answer of this call was cut short
    list,       \* static readdirres clnt_res of nfsproc_readdir_2
    live,       \* blocks allocated for it and not freed
    dir,        \* the server's directory: Cookies -> name or NULL
    changes,    \* changes of it by others so far
    ever,       \* names it had at some moment of this call
    always,     \* names it had throughout this call
    out,        \* what the wrapper returns: ok and value
    res2        \* *Res2

vars == <<pc, op, req, call, stage, cookie, ans, got, whole, list, live, dir,
          changes, ever, always, out, res2>>

(***************************************************************************)
(* Errors (nfssupp.c).                                                     *)
(***************************************************************************)
ERROR_OBJECT_NOT_FOUND == 205

\* The table of NFSErr2IoErr.
IoErrOf ==
    (0 :> 0) @@ (1 :> 223) @@ (2 :> 205) @@ (5 :> 205) @@ (6 :> 205)
    @@ (13 :> 223) @@ (17 :> 203) @@ (19 :> 205) @@ (20 :> 212) @@ (21 :> 212)
    @@ (27 :> 207) @@ (28 :> 221) @@ (30 :> 214) @@ (63 :> 206) @@ (66 :> 216)
    @@ (69 :> 221) @@ (70 :> 211) @@ (99 :> 100)

\* Mutant: only the statuses of the table are failures.
NFSErr2IoErrLax(i) == IF i \in DOMAIN IoErrOf THEN IoErrOf[i] ELSE 0

NFSErr2IoErr(i) == IF i \in DOMAIN IoErrOf THEN IoErrOf[i] ELSE 115

\* PERM and ACCES depend on what was attempted: 'r', 'w' or 'c'.
NFSErr2IoErrCont(i, acttype) ==
    IF i \in {nfsstat.PERM, nfsstat.ACCES}
    THEN IF acttype = "r" THEN 224 ELSE 223
    ELSE NFSErr2IoErr(i)

\* ClntStatConv knows RPC_SUCCESS only.
CLIENT2IoErr(stat) == IF stat = 0 THEN 0 ELSE 1000 + stat

RPC_CANTENCODEARGS == 1
RPC_CANTDECODERES == 2

(***************************************************************************)
(* The stubs of ch_nfs_prot_clnt.c: procedure number, routines.            *)
(***************************************************************************)
Stub(num, xargs, xres) == [num |-> num, xargs |-> xargs, xres |-> xres]

nfsproc_getattr_2 == Stub(1, xdr_nfs_fh, xdr_attrstat)
nfsproc_setattr_2 == Stub(2, xdr_sattrargs, xdr_attrstat)
nfsproc_lookup_2 == Stub(4, xdr_diropargs, xdr_diropres)
nfsproc_readlink_2 == Stub(5, xdr_nfs_fh, xdr_readlinkres)
nfsproc_read_buf == Stub(6, xdr_readargs, xdr_readres)
nfsproc_write_2 == Stub(8, xdr_writeargs, xdr_attrstat)
nfsproc_send_writesb_2 == Stub(8, xdr_writeargssb, xdr_attrstat)
nfsproc_create_2 == Stub(9, xdr_createargs, xdr_diropres)
nfsproc_remove_2 == Stub(10, xdr_diropargs, xdr_nfsstat)
nfsproc_rename_2 == Stub(11, xdr_renameargs, xdr_nfsstat)
nfsproc_link_2 == Stub(12, xdr_linkargs, xdr_nfsstat)
nfsproc_symlink_2 == Stub(13, xdr_symlinkargs, xdr_nfsstat)
nfsproc_mkdir_2 == Stub(14, xdr_createargs, xdr_diropres)
nfsproc_rmdir_2 == Stub(15, xdr_diropargs, xdr_nfsstat)
nfsproc_readdir_2 == Stub(16, xdr_readdirargs, xdr_readdirres)
nfsproc_statfs_2 == Stub(17, xdr_nfs_fh, xdr_statfsres)

(***************************************************************************)
(* The wrappers of nfs.c: the request each one makes.  `act' is the        *)
(* context NFSErr2IoErrCont is given.                                      *)
(***************************************************************************)
Request(proc, stub, args, act) ==
    [proc |-> proc, stub |-> stub, args |-> args, act |-> act]

Mode0777 == 511
NoTime == [seconds |-> MinusOne, useconds |-> MinusOne]
Attributes(mode, uid, gid, size, tv) ==
    [mode |-> mode, uid |-> uid, gid |-> gid, size |-> size,
     atime |-> tv, mtime |-> tv]

nfs_GetAttr(o) == Request("GETATTR", nfsproc_getattr_2, o.file, "r")

nfs_SetAttr(file, mode, uid, gid, size, tv) ==
    Request("SETATTR", nfsproc_setattr_2,
            [file |-> file,
             attributes |-> Attributes(mode, uid, gid, size, tv)], "w")
nfs_Chmod(o) == nfs_SetAttr(o.file, o.mode, MinusOne, MinusOne, MinusOne, NoTime)
nfs_SetSize(o) == nfs_SetAttr(o.file, MinusOne, MinusOne, MinusOne, o.size, NoTime)
nfs_SetTimes(o) == nfs_SetAttr(o.file, MinusOne, MinusOne, MinusOne, MinusOne, o.tv)

\* Mutant: the owner goes where the mode belongs.
nfs_SetUidGidShifted(o) ==
    nfs_SetAttr(o.file, o.uid, o.gid, MinusOne, MinusOne, NoTime)
nfs_SetUidGid(o) == nfs_SetAttr(o.file, MinusOne, o.uid, o.gid, MinusOne, NoTime)

nfs_ILookup(file, name) ==
    Request("LOOKUP", nfsproc_lookup_2, [dir |-> file, name |-> name], "r")
nfs_ReadLink(o) == Request("READLINK", nfsproc_readlink_2, o.file, "r")

\* One round of the loops of nfs_MRead, nfs_MWrite and nfs_MAWrite; the
\* members they do not set hold anything.
nfs_MRead(o) ==
    Request("READ", nfsproc_read_buf,
            [file |-> o.file, offset |-> o.offset, count |-> o.count,
             totalcount |-> o.junk], "r")
WriteArguments(o) ==
    [file |-> o.file, beginoffset |-> o.junk, offset |-> o.offset,
     totalcount |-> o.junk, data |-> o.data]
nfs_MWrite(o) == Request("WRITE", nfsproc_write_2, WriteArguments(o), "w")
nfs_MAWrite(o) == Request("WRITE", nfsproc_send_writesb_2, WriteArguments(o), "w")

nfs_Create(o) ==
    Request("CREATE", nfsproc_create_2,
            [where |-> [dir |-> o.file, name |-> o.name],
             attributes |-> Attributes(o.mode, o.uid, o.gid, o.size, NoTime)],
            "c")
nfs_Remove(o) ==
    Request("REMOVE", nfsproc_remove_2, [dir |-> o.file, name |-> o.name], "w")
nfs_Rename(o) ==
    Request("RENAME", nfsproc_rename_2,
            [from |-> [dir |-> o.file, name |-> o.name],
             to |-> [dir |-> o.todir, name |-> o.toname]], "w")
nfs_Link(o) ==
    Request("LINK", nfsproc_link_2,
            [from |-> o.file, to |-> [dir |-> o.todir, name |-> o.toname]], "w")
nfs_Symlink(o) ==
    Request("SYMLINK", nfsproc_symlink_2,
            [from |-> [dir |-> o.file, name |-> o.name], to |-> o.path,
             attributes |-> Attributes(Mode0777, o.uid, o.gid, MinusOne, NoTime)],
            "w")
nfs_MkDir(o) ==
    Request("MKDIR", nfsproc_mkdir_2,
            [where |-> [dir |-> o.file, name |-> o.name],
             attributes |-> Attributes(o.mode, o.uid, o.gid, MinusOne, NoTime)],
            "c")
nfs_RmDir(o) ==
    Request("RMDIR", nfsproc_rmdir_2, [dir |-> o.file, name |-> o.name], "w")
nfs_ReadDir(file, c, count) ==
    Request("READDIR", nfsproc_readdir_2,
            [dir |-> file, cookie |-> c, count |-> count], "r")
nfs_statfs(o) == Request("STATFS", nfsproc_statfs_2, o.file, "r")

\* The first request of a call.
FirstRequest(o) ==
    CASE o.call = "GetAttr" -> nfs_GetAttr(o)
      [] o.call = "Chmod" -> nfs_Chmod(o)
      [] o.call = "SetSize" -> nfs_SetSize(o)
      [] o.call = "SetTimes" -> nfs_SetTimes(o)
      [] o.call = "SetUidGid" -> nfs_SetUidGid(o)
      [] o.call = "Lookup" -> nfs_ILookup(o.file, o.name)
      [] o.call = "ReadLink" -> nfs_ReadLink(o)
      [] o.call = "MRead" -> nfs_MRead(o)
      [] o.call = "MWrite" -> nfs_MWrite(o)
      [] o.call = "MAWrite" -> nfs_MAWrite(o)
      [] o.call = "Create" -> nfs_Create(o)
      [] o.call = "Remove" -> nfs_Remove(o)
      [] o.call = "Rename" -> nfs_Rename(o)
      [] o.call = "Link" -> nfs_Link(o)
      [] o.call = "Symlink" -> nfs_Symlink(o)
      [] o.call = "MkDir" -> nfs_MkDir(o)
      [] o.call = "RmDir" -> nfs_RmDir(o)
      [] o.call = "ReadDir" -> nfs_ReadDir(o.file, o.cookie, o.count)
      [] o.call = "statfs" -> nfs_statfs(o)


(***************************************************************************)
(* The server.                                                             *)
(***************************************************************************)
Names(d) == {d[c] : c \in Cookies} \ {NULL}

\* The handle of a directory entry: its name, filled up.
HandleOf(name) == [i \in 1 .. NFS_FHSIZE |-> IF i <= Len(name) THEN name[i] ELSE 0]

ServedEntry(c) ==
    [fileid |-> c, name |-> dir[c], cookie |-> xdrmem_putlong(c)]

\* The entries behind a cookie, at most n of them, and whether that was all.
Listing(after, n) ==
    LET places == {c \in Cookies : dir[c] # NULL /\ c > xdrmem_getlong(after, 0).v}
        sent == {c \in places : Cardinality({b \in places : b <= c}) <= n}
        nth(i) == CHOOSE c \in sent : Cardinality({b \in sent : b <= c}) = i
    IN  [entries |-> [i \in 1 .. Cardinality(sent) |-> ServedEntry(nth(i))],
         eof |-> (sent = places)]

Successes(r) ==
    CASE r.proc = "LOOKUP" ->
            {[status |-> NFS_OK,
              diropres |-> [file |-> HandleOf(r.args.name), attributes |-> a]] :
                a \in IF r.args.name \in Names(dir) THEN Bodies.GETATTR ELSE {}}
      [] r.proc = "READDIR" ->
            {[status |-> NFS_OK, reply |-> Listing(r.args.cookie, n)] : n \in Chunks}
      [] r.stub.xres = xdr_nfsstat -> {NFS_OK}
      [] OTHER ->
            {(NFS_PROGRAM[r.proc][3].member :> b) @@ ("status" :> NFS_OK) :
                b \in Bodies[r.proc]}

Refusals(r) ==
    IF r.stub.xres = xdr_nfsstat THEN Statuses
    ELSE {[status |-> s] :
            s \in CASE r.proc = "LOOKUP" /\ r.args.name \in Names(dir) ->
                        DirStatuses \ {nfsstat.NOENT}
                   [] r.proc \in {"LOOKUP", "READDIR"} -> DirStatuses
                   [] OTHER -> Statuses}

(***************************************************************************)
(* Results.                                                                *)
(***************************************************************************)
StatusOf(r, v) == IF r.stub.xres = xdr_nfsstat THEN v ELSE v.status
BodyOf(r, v) == IF r.stub.xres = xdr_nfsstat THEN 1 ELSE v[r.stub.xres.member]

Returns(ok, v, err) ==
    /\ pc' = "done"
    /\ out' = [ok |-> ok, v |-> v]
    /\ res2' = err

\* CLIENTERROR and the NULL or 0 that follows it.
Fails(stat) == Returns(FALSE, NULL, CLIENT2IoErr(stat))

(***************************************************************************)
(* The static result of nfsproc_readdir_2 is freed and cleared before the  *)
(* next READDIR; the others own no memory (READLINK's string is leaked).   *)
(***************************************************************************)
NoList == [status |-> 0]

HasEntries(l) ==
    "reply" \in DOMAIN l /\ "entries" \in DOMAIN l.reply /\ l.reply.entries # <<>>

Freed(l) == IF HasEntries(l) THEN Free(xdr_readdirres, l) ELSE 0

\* clnt_call: the arguments are encoded and sent, or the call fails.
Issue(r) ==
    /\ req' = r
    /\ IF r.proc = "READDIR"
       THEN live' = live - Freed(list) /\ list' = NoList
       ELSE UNCHANGED <<live, list>>
    /\ IF Encodable(r.stub.xargs, r.args)
       THEN /\ call' = xdrmem_putlong(r.stub.num) \o Encode(r.stub.xargs, r.args)
                         \o (IF r.stub.xargs = xdr_writeargssb
                             THEN r.args.data ELSE <<>>)
            /\ pc' = "sent" /\ UNCHANGED <<out, res2>>
       ELSE call' = NULL /\ Fails(RPC_CANTENCODEARGS)

(***************************************************************************)
(* Actions.                                                                *)
(***************************************************************************)
Init ==
    /\ pc = "idle"
    /\ op = NULL /\ req = NULL /\ call = NULL /\ ans = NULL /\ got = NULL
    /\ stage = "single" /\ cookie = NULL
    /\ whole = TRUE
    /\ list = NoList /\ live = 0
    /\ dir \in Directories /\ changes = 0
    /\ ever = {} /\ always = {}
    /\ out = [ok |-> FALSE, v |-> NULL] /\ res2 = 0

UsesDirectory(o) == o.call \in {"Lookup", "ReadDir"}

\* The calls that use no directory leave listing and directory alone: they are
\* made with no listing and an empty directory.
Begin(o) ==
    /\ pc = "idle"
    /\ UsesDirectory(o) \/ (list = NoList /\ changes = 0 /\ Names(dir) = {})
    /\ op' = o
    /\ stage' = IF o.call = "Lookup" THEN "exact" ELSE "single"
    /\ Issue(FirstRequest(o))
    /\ ever' = Names(dir) /\ always' = Names(dir)
    /\ whole' = TRUE
    /\ UNCHANGED <<cookie, ans, got, dir, changes>>

Serve ==
    /\ pc = "sent"
    /\ pc' = "answered"
    /\ \E a \in Successes(req) \cup Refusals(req) : ans' = a
    /\ UNCHANGED <<op, req, call, stage, cookie, got, whole, list, live, dir,
                   changes, ever, always, out, res2>>

\* The RPC layer gives up, whether the server has executed the call or not.
CallFails(stat) ==
    /\ pc \in {"sent", "answered"}
    /\ Fails(stat)
    /\ UNCHANGED <<op, req, call, stage, cookie, ans, got, whole, list, live, dir,
                   changes, ever, always>>

Reply == Wire(NFS_PROGRAM[req.proc][3], ans)

Decoded(bytes, room) == Decode(req.stub.xres, bytes, room)

\* The first `size' bytes of the answer arrive and are decoded with memory for
\* `room' blocks; a listing is decoded into the static result.
Receive(size, room) ==
    /\ pc = "answered"
    /\ LET r == Decoded(SubSeq(Reply, 1, size), room)
       IN  /\ IF req.proc = "READDIR"
              THEN /\ list' = IF r.v = NULL THEN NoList ELSE r.v
                   /\ live' = live + (room - r.room)
              ELSE UNCHANGED <<list, live>>
           /\ IF r.ok THEN got' = r.v /\ pc' = "decoded" /\ UNCHANGED <<out, res2>>
              ELSE UNCHANGED got /\ Fails(RPC_CANTDECODERES)
    /\ whole' = (whole /\ size = Len(Reply))
    /\ UNCHANGED <<op, req, call, stage, cookie, ans, dir, changes, ever, always>>

ReceiveAny ==
    /\ pc = "answered"
    /\ \/ \E size \in 0 .. Len(Reply) : Receive(size, MaxRoom)
       \/ \E room \in 0 .. MaxRoom - 1 : Receive(Len(Reply), room)

\* The wrapper's last look at the answer.
Answered ==
    /\ pc = "decoded"
    /\ ~(stage = "exact" /\ StatusOf(req, got) = nfsstat.NOENT)
    /\ ~(stage = "scan" /\ StatusOf(req, got) = NFS_OK)
    /\ IF StatusOf(req, got) = NFS_OK
       THEN Returns(TRUE, BodyOf(req, got), 0)
       ELSE Returns(FALSE, NULL, NFSErr2IoErrCont(StatusOf(req, got), req.act))
    /\ UNCHANGED <<op, req, call, stage, cookie, ans, got, whole, list, live,
                   dir, changes, ever, always>>

\* nfs_LookupNC reads no more at once than a datagram holds.
MaxRead == IF op.count < NFS_MAXDATA THEN op.count ELSE NFS_MAXDATA

\* nfs_ILookup: no such name, look for one that differs in case.
StartScan ==
    /\ pc = "decoded"
    /\ stage = "exact" /\ StatusOf(req, got) = nfsstat.NOENT
    /\ stage' = "scan"
    /\ cookie' = [i \in 1 .. NFS_COOKIESIZE |-> 0]
    /\ Issue(nfs_ReadDir(op.file, [i \in 1 .. NFS_COOKIESIZE |-> 0], MaxRead))
    /\ UNCHANGED <<op, ans, got, whole, dir, changes, ever, always>>

\* stricmp and strnicmp do not tell 2, the capital of 1, from 1.
Lower(c) == IF c = 2 THEN 1 ELSE c
SameText(a, b) ==
    Len(a) = Len(b) /\ \A i \in 1 .. Len(a) : Lower(a[i]) = Lower(b[i])
Shortened(a) == IF Len(a) <= CompareLength THEN a ELSE SubSeq(a, 1, CompareLength)

\* Mutant: the beginning of a name is compared, whatever its length.
MatchesPrefix(name, other) ==
    Len(other) >= Len(name) /\ SameText(name, SubSeq(other, 1, Len(name)))

\* A name of CompareLength characters or more is compared by its beginning.
Matches(name, other) ==
    IF Len(name) >= CompareLength
    THEN SameText(Shortened(name), Shortened(other))
    ELSE SameText(name, other)

\* The entries of the listing that match.
Found == {i \in 1 .. Len(list.reply.entries) :
            Matches(op.name, list.reply.entries[i].name)}

Scanning == pc = "decoded" /\ stage = "scan" /\ StatusOf(req, got) = NFS_OK

\* nfs_LookupNC: the first entry that matches is looked up, exactly this time.
ScanFinds ==
    /\ Scanning /\ Found # {}
    /\ LET first == CHOOSE i \in Found : \A j \in Found : i <= j
       IN  Issue(nfs_ILookup(op.file, list.reply.entries[first].name))
    /\ stage' = "again"
    /\ UNCHANGED <<op, cookie, ans, got, whole, dir, changes, ever, always>>

\* Mutant: the next piece is read from where this one was.
NextCookieSame == cookie

\* The cookie of the last entry.
NextCookie == list.reply.entries[Len(list.reply.entries)].cookie

ScanGoesOn ==
    /\ Scanning /\ Found = {} /\ ~list.reply.eof
    /\ cookie' = NextCookie
    /\ Issue(nfs_ReadDir(op.file, NextCookie, MaxRead))
    /\ UNCHANGED <<op, stage, ans, got, whole, dir, changes, ever, always>>

ScanEnds ==
    /\ Scanning /\ Found = {} /\ list.reply.eof
    /\ Returns(FALSE, NULL, ERROR_OBJECT_NOT_FOUND)
    /\ UNCHANGED <<op, req, call, stage, cookie, ans, got, whole, list, live,
                   dir, changes, ever, always>>

Return ==
    /\ pc = "done"
    /\ pc' = "idle"
    /\ op' = NULL /\ req' = NULL /\ call' = NULL /\ ans' = NULL /\ got' = NULL
    /\ stage' = "single" /\ cookie' = NULL /\ whole' = TRUE
    /\ ever' = {} /\ always' = {}
    /\ out' = [ok |-> FALSE, v |-> NULL] /\ res2' = 0
    /\ UNCHANGED <<list, live, dir, changes>>

\* Another client creates, removes or renames an entry.
DirectoryChanges ==
    /\ changes < MaxChanges
    /\ pc \in {"sent", "answered"} /\ UsesDirectory(op)
    /\ changes' = changes + 1
    /\ \E c \in Cookies, n \in NewNames \cup {NULL} :
        /\ n # dir[c] /\ n \notin Names(dir)
        /\ dir' = [dir EXCEPT ![c] = n]
    /\ ever' = ever \cup Names(dir')
    /\ always' = always \cap Names(dir')
    /\ UNCHANGED <<pc, op, req, call, stage, cookie, ans, got, whole, list,
                   live, out, res2>>

Step ==
    \/ \E o \in Ops : Begin(o)
    \/ Serve
    \/ \E stat \in RpcFailures : CallFails(stat)
    \/ ReceiveAny
    \/ Answered
    \/ StartScan
    \/ ScanFinds
    \/ ScanGoesOn
    \/ ScanEnds
    \/ Return

Next == Step \/ DirectoryChanges

Spec == Init /\ [][Next]_vars

\* The handler is one task: a call that has begun goes on.
FairSpec == Spec /\ WF_vars(Step)

(***************************************************************************)
(* Properties.                                                             *)
(***************************************************************************)
\* Every variable stays within its type; the listing and the answers have only
\* members of their structures.
TypeOK ==
    /\ pc \in {"idle", "sent", "answered", "decoded", "done"}
    /\ op \in Ops \cup {NULL}
    /\ stage \in {"single", "exact", "scan", "again"}
    /\ dir \in [Cookies -> NewNames \cup UNION {Names(d) : d \in Directories} \cup {NULL}]
    /\ changes \in 0 .. MaxChanges
    /\ live \in 0 .. MaxRoom
    /\ DOMAIN list \subseteq {"status", "reply"}
    /\ res2 \in Nat

\* What the caller asked for, in the words of the protocol.
KeepAll == [mode |-> MinusOne, uid |-> MinusOne, gid |-> MinusOne,
            size |-> MinusOne, atime |-> NoTime, mtime |-> NoTime]
Where(o) == [dir |-> o.file, name |-> o.name]
To(o) == [dir |-> o.todir, name |-> o.toname]
Owned(o) == [KeepAll EXCEPT !.mode = o.mode, !.uid = o.uid, !.gid = o.gid]
Change(o, attributes) == <<"SETATTR", [file |-> o.file, attributes |-> attributes]>>

Meaning(o) ==
    CASE o.call = "GetAttr" -> <<"GETATTR", o.file>>
      [] o.call = "Chmod" -> Change(o, [KeepAll EXCEPT !.mode = o.mode])
      [] o.call = "SetSize" -> Change(o, [KeepAll EXCEPT !.size = o.size])
      [] o.call = "SetTimes" ->
            Change(o, [KeepAll EXCEPT !.atime = o.tv, !.mtime = o.tv])
      [] o.call = "SetUidGid" ->
            Change(o, [KeepAll EXCEPT !.uid = o.uid, !.gid = o.gid])
      [] o.call = "Lookup" -> <<"LOOKUP", Where(o)>>
      [] o.call = "ReadLink" -> <<"READLINK", o.file>>
      [] o.call = "MRead" ->
            <<"READ", [file |-> o.file, offset |-> o.offset, count |-> o.count,
                       totalcount |-> o.junk]>>
      [] o.call \in {"MWrite", "MAWrite"} ->
            <<"WRITE", [file |-> o.file, beginoffset |-> o.junk,
                        offset |-> o.offset, totalcount |-> o.junk,
                        data |-> o.data]>>
      [] o.call = "Create" ->
            <<"CREATE", [where |-> Where(o),
                         attributes |-> [Owned(o) EXCEPT !.size = o.size]]>>
      [] o.call = "Remove" -> <<"REMOVE", Where(o)>>
      [] o.call = "Rename" -> <<"RENAME", [from |-> Where(o), to |-> To(o)]>>
      [] o.call = "Link" -> <<"LINK", [from |-> o.file, to |-> To(o)]>>
      [] o.call = "Symlink" ->
            <<"SYMLINK", [from |-> Where(o), to |-> o.path,
                          attributes |-> [KeepAll EXCEPT !.mode = Mode0777,
                                              !.uid = o.uid, !.gid = o.gid]]>>
      [] o.call = "MkDir" ->
            <<"MKDIR", [where |-> Where(o), attributes |-> Owned(o)]>>
      [] o.call = "RmDir" -> <<"RMDIR", Where(o)>>
      [] o.call = "ReadDir" ->
            <<"READDIR", [dir |-> o.file, cookie |-> o.cookie, count |-> o.count]>>
      [] o.call = "statfs" -> <<"STATFS", o.file>>

\* The pieces of the search for a name that differs in case.
MeaningOfScan(o) ==
    <<"READDIR", [dir |-> o.file, cookie |-> cookie,
                  count |-> CHOOSE n \in {o.count, NFS_MAXDATA} :
                               n <= o.count /\ n <= NFS_MAXDATA]>>

\* nfs_MAWrite hands its data over as a block of their own, of any length, and
\* clntaudp_sendsb sends it as it is: the bytes that fill the last unit lack.
Lacking(o) == IF o.call = "MAWrite" THEN Len(Units(o.data)) - Len(o.data) ELSE 0

\* The bytes that leave the client are the external representation of what was
\* asked for, but for the fill behind the data of a split write: a server that
\* reads them by nfs_prot.h sees the right procedure, every argument in its
\* place, also one as long as the protocol allows, and "do not change" for what
\* is not to change.
ServerSeesArguments ==
    TypeOK /\ (pc = "sent" /\ stage # "again" =>
        LET m == IF stage = "scan" THEN MeaningOfScan(op) ELSE Meaning(op)
            p == NFS_PROGRAM[m[1]]
            wire == WordUnit(p[1]) \o Wire(p[2], m[2])
        IN  call = SubSeq(wire, 1, Len(wire) - Lacking(op)))

\* A wrapper reports success exactly with what the server answered, and only
\* when that answer arrived whole; everything else is a failure with a code,
\* also a status the protocol does not define.
ResultHonest ==
    pc = "done" =>
        /\ out.ok =>
            /\ whole
            /\ LET body == IF NFS_PROGRAM[req.proc][3] = u_int THEN 1
                           ELSE ans[NFS_PROGRAM[req.proc][3].member]
               IN  out.v = body
        /\ ~out.ok => res2 # 0

\* The blocks of a directory listing, also of one that was decoded in part, are
\* still reachable from the static result or have been given back.
ListingAccounted == live = Free(xdr_readdirres, list)

\* nfs_Lookup while others change the directory: what it finds is the entry of
\* that name or one that differs in case, and was there during the call; when
\* the entries that match did not change it finds one exactly if there is one,
\* the exact name first.
Alike(a, b) ==
    /\ Len(a) < CompareLength => Len(a) = Len(b)
    /\ \A i \in 1 .. CompareLength :
        /\ i <= Len(a) <=> i <= Len(b)
        /\ i <= Len(a) => Lower(a[i]) = Lower(b[i])
Matching(names) == {n \in names : Alike(op.name, n)}
LookupExact ==
    (pc = "done" /\ op.call = "Lookup") =>
        /\ out.ok => /\ out.v.file \in {HandleOf(n) : n \in Matching(ever)}
                     /\ op.name \in always => out.v.file = HandleOf(op.name)
        /\ (/\ res2 = ERROR_OBJECT_NOT_FOUND
            /\ \/ stage = "scan" /\ ans.status = NFS_OK
               \/ stage = "again" /\ ans.status = nfsstat.NOENT
            /\ Matching(ever) = Matching(always)) => Matching(always) = {}

\* Every call comes back, also a lookup in a directory that changes.
CallReturns == pc # "idle" ~> pc = "idle"

\* The result is the answer, and the memory of a listing is not lost with it.
ResultExact == ResultHonest /\ ListingAccounted
=============================================================================
