--------------------------------- MODULE Xdr ---------------------------------
(***************************************************************************)
(* The encoding routines of src/src/ch_nfs_prot_xdr.c.  A routine is a     *)
(* form that Encode (x_op XDR_ENCODE), Decode (XDR_DECODE) and Free        *)
(* (XDR_FREE) interpret over a memory stream: the bytes that are left      *)
(* (x_private, x_handy).  Decode also counts mem_alloc: `room' is the      *)
(* number of allocations that still succeed.                               *)
(*                                                                         *)
(* A decode that fails half way leaves what it has filled in: a record     *)
(* with the members decoded so far, a chain with the entries allocated so  *)
(* far.  Free has to cope with that.                                       *)
(***************************************************************************)
EXTENDS NfsProt

CONSTANT NULL     \* a pointer (or a whole result) that is NULL

\* Outcomes of a decode: the value so far, the bytes and the room left.
Got(v, bytes, room) == [ok |-> TRUE, v |-> v, bytes |-> bytes, room |-> room]
Failed(v, room) == [ok |-> FALSE, v |-> v, bytes |-> <<>>, room |-> room]

(***************************************************************************)
(* The memory stream and the basic routines.                               *)
(***************************************************************************)
xdrmem_putlong(w) ==
    [i \in 1 .. BYTES_PER_XDR_UNIT |->
        (w \div Base^(BYTES_PER_XDR_UNIT - i)) % Base]

xdrmem_getlong(bytes, room) ==
    IF Len(bytes) < BYTES_PER_XDR_UNIT THEN Failed(NULL, room)
    ELSE Got(((bytes[1] * Base + bytes[2]) * Base + bytes[3]) * Base + bytes[4],
             SubSeq(bytes, BYTES_PER_XDR_UNIT + 1, Len(bytes)), room)

xdrmem_getbytes(n, bytes, room) ==
    IF Len(bytes) < n THEN Failed(NULL, room)
    ELSE Got(SubSeq(bytes, 1, n), SubSeq(bytes, n + 1, Len(bytes)), room)

\* xdrmem_inline: count words at once, or none.
xdrmem_inline(count, bytes) == Len(bytes) >= count * BYTES_PER_XDR_UNIT

\* rndup of xdr_opaque: what fills the last unit.
Rndup(n) ==
    (BYTES_PER_XDR_UNIT - (n % BYTES_PER_XDR_UNIT)) % BYTES_PER_XDR_UNIT

xdr_opaque_encode(b) == b \o [i \in 1 .. Rndup(Len(b)) |-> 0]

xdr_opaque_decode(n, bytes, room) ==
    LET data == xdrmem_getbytes(n, bytes, room)
        fill == xdrmem_getbytes(Rndup(n), data.bytes, room)
    IN  IF ~data.ok \/ ~fill.ok THEN Failed(NULL, room)
        ELSE Got(data.v, fill.bytes, room)

\* xdr_bytes into a buffer the caller has set: nothing is allocated.
xdr_bytes_decode(max, bytes, room) ==
    LET size == xdrmem_getlong(bytes, room)
    IN  IF ~size.ok \/ (size.ok /\ size.v > max) THEN Failed(NULL, room)
        ELSE xdr_opaque_decode(size.v, size.bytes, room)

\* xdr_string: *cpp is set before the bytes are read, so a string that is cut
\* off leaves an allocated block behind.
xdr_string_decode(max, bytes, room) ==
    LET size == xdrmem_getlong(bytes, room)
    IN  IF ~size.ok \/ (size.ok /\ (size.v > max \/ room = 0))
        THEN Failed(NULL, room)
        ELSE LET text == xdr_opaque_decode(size.v, size.bytes, room - 1)
             IN  IF text.ok THEN text ELSE Failed(<<>>, room - 1)

xdr_bool_decode(bytes, room) ==
    LET word == xdrmem_getlong(bytes, room)
    IN  IF word.ok THEN [word EXCEPT !.v = (word.v # 0)] ELSE word

(***************************************************************************)
(* Words read or written through XDR_INLINE: the paths of the members.     *)
(***************************************************************************)
Inline(paths) == [form |-> "inline", paths |-> paths]

At(v, path) == IF Len(path) = 1 THEN v[path[1]] ELSE v[path[1]][path[2]]

\* The structure whose members at `paths' are the given words.
Filled(paths, words) ==
    LET Of(m) == {i \in 1 .. Len(paths) : paths[i][1] = m}
        Word(p) == words[CHOOSE i \in 1 .. Len(paths) : paths[i] = p]
    IN  [m \in {paths[i][1] : i \in 1 .. Len(paths)} |->
            IF <<m>> \in {paths[i] : i \in Of(m)} THEN Word(<<m>>)
            ELSE [n \in {paths[i][2] : i \in Of(m)} |-> Word(<<m, n>>)]]

InlineDecode(paths, bytes, room) ==
    IF ~xdrmem_inline(Len(paths), bytes) THEN Failed(NULL, room)
    ELSE Got(Filled(paths, [i \in 1 .. Len(paths) |->
                xdrmem_getlong(SubSeq(bytes, 4 * i - 3, Len(bytes)), room).v]),
             SubSeq(bytes, 4 * Len(paths) + 1, Len(bytes)), room)

(***************************************************************************)
(* Encode, Decode and Free.                                                *)
(***************************************************************************)
\* The routine refuses the value (a string or block beyond its maximum).
RECURSIVE Encodable(_, _)
Encodable(x, v) ==
    CASE x.form \in {"counted", "text"} -> Len(v) <= x.max
      [] x.form = "struct" ->
            \A i \in 1 .. Len(x.members) :
                Encodable(x.members[i][2], v[x.members[i][1]])
      [] OTHER -> TRUE

RECURSIVE Encode(_, _)
Encode(x, v) ==
    CASE x.form = "word"    -> xdrmem_putlong(v)
      [] x.form = "length"  -> xdrmem_putlong(Len(v))
      [] x.form = "fixed"   -> xdr_opaque_encode(v)
      [] x.form \in {"counted", "text"} ->
            xdrmem_putlong(Len(v)) \o xdr_opaque_encode(v)
      [] x.form = "inline"  ->
            LET From[i \in 1 .. Len(x.paths) + 1] ==
                    IF i > Len(x.paths) THEN <<>>
                    ELSE xdrmem_putlong(At(v, x.paths[i])) \o From[i + 1]
            IN  From[1]
      [] x.form = "struct"  ->
            LET ms == x.members
                From[i \in 1 .. Len(ms) + 1] ==
                    IF i > Len(ms) THEN <<>>
                    ELSE Encode(ms[i][2], v[ms[i][1]]) \o From[i + 1]
            IN  From[1]

RECURSIVE Decode(_, _, _)
RECURSIVE DecodeMembers(_, _, _, _)
RECURSIVE xdr_pointer(_, _, _)

\* A structure: member after member until one fails.
DecodeMembers(ms, sofar, bytes, room) ==
    IF ms = <<>> THEN Got(sofar, bytes, room)
    ELSE LET r == Decode(Head(ms)[2], bytes, room)
             with == IF r.v = NULL THEN sofar ELSE sofar @@ (Head(ms)[1] :> r.v)
         IN  IF r.ok THEN DecodeMembers(Tail(ms), with, r.bytes, r.room)
             ELSE Failed(with, r.room)

\* xdr_pointer and xdr_reference: "is there one more", then the zeroed new
\* object, whose last member is the next pointer.
xdr_pointer(x, bytes, room) ==
    LET more == xdr_bool_decode(bytes, room)
        node == Decode(x, more.bytes, room - 1)
        rest == xdr_pointer(x, node.bytes, node.room)
    IN  IF ~more.ok \/ (more.ok /\ more.v /\ room = 0) THEN Failed(<<>>, room)
        ELSE IF ~more.v THEN Got(<<>>, more.bytes, room)
        ELSE IF ~node.ok THEN Failed(<<node.v>>, node.room)
        ELSE [rest EXCEPT !.v = <<node.v>> \o rest.v]

Decode(x, bytes, room) ==
    CASE x.form = "word"    -> xdrmem_getlong(bytes, room)
      [] x.form = "bool"    -> xdr_bool_decode(bytes, room)
      [] x.form = "fixed"   -> xdr_opaque_decode(x.size, bytes, room)
      [] x.form = "counted" -> xdr_bytes_decode(x.max, bytes, room)
      [] x.form = "text"    -> xdr_string_decode(x.max, bytes, room)
      [] x.form = "inline"  -> InlineDecode(x.paths, bytes, room)
      [] x.form = "struct"  -> DecodeMembers(x.members, <<>>, bytes, room)
      [] x.form = "onok"    ->
            LET r == xdrmem_getlong(bytes, room)
            IN  IF ~r.ok THEN Failed(NULL, room)
                ELSE IF r.v # NFS_OK
                THEN Got([status |-> r.v], r.bytes, room)
                ELSE DecodeMembers(<< <<x.member, x.type>> >>,
                                   [status |-> NFS_OK], r.bytes, room)
      [] x.form = "chain"   -> xdr_pointer(x.type, bytes, room)

\* The blocks XDR_FREE gives back when it walks a value, whole or partial.
RECURSIVE Free(_, _)
Free(x, v) ==
    CASE x.form = "text"   -> 1
      [] x.form = "struct" ->
            LET ms == x.members
                From[i \in 1 .. Len(ms) + 1] ==
                    IF i > Len(ms) THEN 0
                    ELSE (IF ms[i][1] \in DOMAIN v
                          THEN Free(ms[i][2], v[ms[i][1]]) ELSE 0) + From[i + 1]
            IN  From[1]
      [] x.form = "onok"   ->
            IF v.status = NFS_OK /\ x.member \in DOMAIN v
            THEN Free(x.type, v[x.member]) ELSE 0
      [] x.form = "chain"  ->
            LET From[i \in 1 .. Len(v) + 1] ==
                    IF i > Len(v) THEN 0
                    ELSE 1 + Free(x.type, v[i]) + From[i + 1]
            IN  From[1]
      [] OTHER -> 0
(***************************************************************************)
(* The routines for the structures of the protocol, member by member in    *)
(* the order in which the code calls the routines of the members.          *)
(***************************************************************************)
xdr_u_int == [form |-> "word"]
xdr_bool == [form |-> "bool"]
xdr_opaque(n) == [form |-> "fixed", size |-> n]
xdr_bytes(max) == [form |-> "counted", max |-> max]
xdr_string(max) == [form |-> "text", max |-> max]
\* data_len alone, the data follow in a block of their own.
xdr_data_len == [form |-> "length"]

xdr_nfsstat == xdr_u_int
xdr_nfs_fh == xdr_opaque(NFS_FHSIZE)

xdr_fattr ==
    Inline(<< <<"type">>, <<"mode">>, <<"nlink">>, <<"uid">>, <<"gid">>,
              <<"size">>, <<"blocksize">>, <<"rdev">>, <<"blocks">>,
              <<"fsid">>, <<"fileid">>,
              <<"atime", "seconds">>, <<"atime", "useconds">>,
              <<"mtime", "seconds">>, <<"mtime", "useconds">>,
              <<"ctime", "seconds">>, <<"ctime", "useconds">> >>)

xdr_sattr ==
    Inline(<< <<"mode">>, <<"uid">>, <<"gid">>, <<"size">>,
              <<"atime", "seconds">>, <<"atime", "useconds">>,
              <<"mtime", "seconds">>, <<"mtime", "useconds">> >>)

xdr_filename == xdr_string(NFS_MAXNAMLEN)
xdr_nfspath == xdr_string(NFS_MAXPATHLEN)
xdr_attrstat == OnOk("attributes", xdr_fattr)
xdr_sattrargs == Struct(<< <<"file", xdr_nfs_fh>>, <<"attributes", xdr_sattr>> >>)
xdr_diropargs == Struct(<< <<"dir", xdr_nfs_fh>>, <<"name", xdr_filename>> >>)
xdr_diropokres == Struct(<< <<"file", xdr_nfs_fh>>, <<"attributes", xdr_fattr>> >>)
xdr_diropres == OnOk("diropres", xdr_diropokres)
xdr_readlinkres == OnOk("data", xdr_nfspath)
xdr_readargs == Struct(<< <<"file", xdr_nfs_fh>>, <<"offset", xdr_u_int>>,
                          <<"count", xdr_u_int>>, <<"totalcount", xdr_u_int>> >>)
xdr_readres ==
    OnOk("reply", Struct(<< <<"attributes", xdr_fattr>>,
                            <<"data", xdr_bytes(NFS_MAXDATA)>> >>))
xdr_writeargs ==
    Struct(<< <<"file", xdr_nfs_fh>>, <<"beginoffset", xdr_u_int>>,
              <<"offset", xdr_u_int>>, <<"totalcount", xdr_u_int>>,
              <<"data", xdr_bytes(NFS_MAXDATA)>> >>)
xdr_writeargssb ==
    Struct(<< <<"file", xdr_nfs_fh>>, <<"beginoffset", xdr_u_int>>,
              <<"offset", xdr_u_int>>, <<"totalcount", xdr_u_int>>,
              <<"data", xdr_data_len>> >>)
xdr_createargs ==
    Struct(<< <<"where", xdr_diropargs>>, <<"attributes", xdr_sattr>> >>)
xdr_renameargs == Struct(<< <<"from", xdr_diropargs>>, <<"to", xdr_diropargs>> >>)
xdr_linkargs == Struct(<< <<"from", xdr_nfs_fh>>, <<"to", xdr_diropargs>> >>)
xdr_symlinkargs ==
    Struct(<< <<"from", xdr_diropargs>>, <<"to", xdr_nfspath>>,
              <<"attributes", xdr_sattr>> >>)
xdr_nfscookie == xdr_opaque(NFS_COOKIESIZE)
xdr_readdirargs ==
    Struct(<< <<"dir", xdr_nfs_fh>>, <<"cookie", xdr_nfscookie>>,
              <<"count", xdr_u_int>> >>)
xdr_entry == Struct(<< <<"fileid", xdr_u_int>>, <<"name", xdr_filename>>,
                       <<"cookie", xdr_nfscookie>> >>)
xdr_dirlist == Struct(<< <<"entries", Chain(xdr_entry)>>, <<"eof", xdr_bool>> >>)
xdr_readdirres == OnOk("reply", xdr_dirlist)
xdr_statfsokres ==
    Inline(<< <<"tsize">>, <<"bsize">>, <<"blocks">>, <<"bfree">>, <<"bavail">> >>)
xdr_statfsres == OnOk("reply", xdr_statfsokres)
=============================================================================
