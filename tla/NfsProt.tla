------------------------------- MODULE NfsProt -------------------------------
(***************************************************************************)
(* The NFS version 2 protocol as src/src/nfs_prot.h declares it: the       *)
(* structures, in the order of their members, the procedures with their    *)
(* numbers, argument and result, and the external representation of a      *)
(* value.  This is the reference the routines of module Xdr are checked    *)
(* against: nothing here is taken from ch_nfs_prot_xdr.c.                  *)
(*                                                                         *)
(* A byte takes Base values, so a word takes Base^4; the sizes of the      *)
(* protocol are constants.  A C string or a block of data is a sequence of *)
(* bytes, a structure a record, a union on the status a record with or     *)
(* without its second field, a chain of entries a sequence.                *)
(***************************************************************************)
EXTENDS Integers, Sequences, FiniteSets, TLC

CONSTANTS Base, NFS_FHSIZE, NFS_COOKIESIZE, NFS_MAXNAMLEN, NFS_MAXPATHLEN,
          NFS_MAXDATA

ASSUME SizesAssumption ==
    /\ Base \in Nat \ {0, 1} /\ Base^4 > 512 \* holds the modes and statuses
    /\ NFS_FHSIZE \in Nat \ {0} /\ NFS_COOKIESIZE \in Nat \ {0}
    /\ NFS_MAXNAMLEN \in 0 .. Base^4 - 1 /\ NFS_MAXPATHLEN \in 0 .. Base^4 - 1
    /\ NFS_MAXDATA \in 0 .. Base^4 - 1

BYTES_PER_XDR_UNIT == 4
WordRange == 0 .. Base^BYTES_PER_XDR_UNIT - 1
\* What (u_int) -1 is: "do not change" in a sattr.
MinusOne == Base^BYTES_PER_XDR_UNIT - 1

(***************************************************************************)
(* Forms of types.                                                         *)
(***************************************************************************)
u_int == [form |-> "word"]
bool_t == [form |-> "bool"]
Fixed(n) == [form |-> "fixed", size |-> n]
Counted(max) == [form |-> "counted", max |-> max]
Text(max) == [form |-> "text", max |-> max]
Struct(members) == [form |-> "struct", members |-> members]
OnOk(member, type) == [form |-> "onok", member |-> member, type |-> type]
Chain(type) == [form |-> "chain", type |-> type]

(***************************************************************************)
(* The structures of nfs_prot.h.                                           *)
(***************************************************************************)
NFS_OK == 0
nfsstat == [PERM |-> 1, NOENT |-> 2, IO |-> 5, NXIO |-> 6, ACCES |-> 13,
            EXIST |-> 17, NODEV |-> 19, NOTDIR |-> 20, ISDIR |-> 21,
            FBIG |-> 27, NOSPC |-> 28, ROFS |-> 30, NAMETOOLONG |-> 63,
            NOTEMPTY |-> 66, DQUOT |-> 69, STALE |-> 70, WFLUSH |-> 99]

nfs_fh == Fixed(NFS_FHSIZE)
nfstime == Struct(<< <<"seconds", u_int>>, <<"useconds", u_int>> >>)
fattr == Struct(<< <<"type", u_int>>, <<"mode", u_int>>, <<"nlink", u_int>>,
                   <<"uid", u_int>>, <<"gid", u_int>>, <<"size", u_int>>,
                   <<"blocksize", u_int>>, <<"rdev", u_int>>,
                   <<"blocks", u_int>>, <<"fsid", u_int>>,
                   <<"fileid", u_int>>, <<"atime", nfstime>>,
                   <<"mtime", nfstime>>, <<"ctime", nfstime>> >>)
sattr == Struct(<< <<"mode", u_int>>, <<"uid", u_int>>, <<"gid", u_int>>,
                   <<"size", u_int>>, <<"atime", nfstime>>,
                   <<"mtime", nfstime>> >>)
filename == Text(NFS_MAXNAMLEN)
nfspath == Text(NFS_MAXPATHLEN)
attrstat == OnOk("attributes", fattr)
sattrargs == Struct(<< <<"file", nfs_fh>>, <<"attributes", sattr>> >>)
diropargs == Struct(<< <<"dir", nfs_fh>>, <<"name", filename>> >>)
diropokres == Struct(<< <<"file", nfs_fh>>, <<"attributes", fattr>> >>)
diropres == OnOk("diropres", diropokres)
readlinkres == OnOk("data", nfspath)
readargs == Struct(<< <<"file", nfs_fh>>, <<"offset", u_int>>,
                      <<"count", u_int>>, <<"totalcount", u_int>> >>)
readokres == Struct(<< <<"attributes", fattr>>,
                       <<"data", Counted(NFS_MAXDATA)>> >>)
readres == OnOk("reply", readokres)
writeargs == Struct(<< <<"file", nfs_fh>>, <<"beginoffset", u_int>>,
                       <<"offset", u_int>>, <<"totalcount", u_int>>,
                       <<"data", Counted(NFS_MAXDATA)>> >>)
createargs == Struct(<< <<"where", diropargs>>, <<"attributes", sattr>> >>)
renameargs == Struct(<< <<"from", diropargs>>, <<"to", diropargs>> >>)
linkargs == Struct(<< <<"from", nfs_fh>>, <<"to", diropargs>> >>)
symlinkargs == Struct(<< <<"from", diropargs>>, <<"to", nfspath>>,
                         <<"attributes", sattr>> >>)
nfscookie == Fixed(NFS_COOKIESIZE)
readdirargs == Struct(<< <<"dir", nfs_fh>>, <<"cookie", nfscookie>>,
                         <<"count", u_int>> >>)
\* An entry without its pointer to the next one, which Chain stands for.
entry == Struct(<< <<"fileid", u_int>>, <<"name", filename>>,
                   <<"cookie", nfscookie>> >>)
dirlist == Struct(<< <<"entries", Chain(entry)>>, <<"eof", bool_t>> >>)
readdirres == OnOk("reply", dirlist)
statfsokres == Struct(<< <<"tsize", u_int>>, <<"bsize", u_int>>,
                         <<"blocks", u_int>>, <<"bfree", u_int>>,
                         <<"bavail", u_int>> >>)
statfsres == OnOk("reply", statfsokres)

\* The procedures the client calls: number, argument and result.
NFS_PROGRAM ==
    [GETATTR  |-> <<1, nfs_fh, attrstat>>,
     SETATTR  |-> <<2, sattrargs, attrstat>>,
     LOOKUP   |-> <<4, diropargs, diropres>>,
     READLINK |-> <<5, nfs_fh, readlinkres>>,
     READ     |-> <<6, readargs, readres>>,
     WRITE    |-> <<8, writeargs, attrstat>>,
     CREATE   |-> <<9, createargs, diropres>>,
     REMOVE   |-> <<10, diropargs, u_int>>,
     RENAME   |-> <<11, renameargs, u_int>>,
     LINK     |-> <<12, linkargs, u_int>>,
     SYMLINK  |-> <<13, symlinkargs, u_int>>,
     MKDIR    |-> <<14, createargs, diropres>>,
     RMDIR    |-> <<15, diropargs, u_int>>,
     READDIR  |-> <<16, readdirargs, readdirres>>,
     STATFS   |-> <<17, nfs_fh, statfsres>>]

(***************************************************************************)
(* The external representation, by the rules of XDR: everything is made of *)
(* units of four bytes, the last unit of a run of bytes filled with zeros. *)
(***************************************************************************)
WordUnit(w) ==
    <<w \div Base^3, (w \div Base^2) % Base, (w \div Base) % Base, w % Base>>

Units(bytes) ==
    [i \in 1 .. 4 * ((Len(bytes) + 3) \div 4) |->
        IF i <= Len(bytes) THEN bytes[i] ELSE 0]

RECURSIVE Wire(_, _)
Wire(type, v) ==
    CASE type.form = "word"    -> WordUnit(v)
      [] type.form = "bool"    -> WordUnit(IF v THEN 1 ELSE 0)
      [] type.form = "fixed"   -> Units(v)
      [] type.form \in {"counted", "text"} -> WordUnit(Len(v)) \o Units(v)
      [] type.form = "struct"  ->
            LET ms == type.members
                From[i \in 1 .. Len(ms) + 1] ==
                    IF i > Len(ms) THEN <<>>
                    ELSE Wire(ms[i][2], v[ms[i][1]]) \o From[i + 1]
            IN  From[1]
      [] type.form = "onok"    ->
            WordUnit(v.status)
              \o (IF v.status = NFS_OK
                  THEN Wire(type.type, v[type.member]) ELSE <<>>)
      [] type.form = "chain"   ->
            LET From[i \in 1 .. Len(v) + 1] ==
                    IF i > Len(v) THEN WordUnit(0)
                    ELSE WordUnit(1) \o Wire(type.type, v[i]) \o From[i + 1]
            IN  From[1]
=============================================================================
