----------------------------- MODULE MCNfsProcs ------------------------------
(* Calls of every kind with names and data of all lengths modulo a unit, of  *)
(* the greatest length and one more; the members of every structure differ.  *)
EXTENDS NfsProcs

CONSTANTS SplitLengths

F == <<1, 2, 3, 0>>
G == <<3, 0, 1, 2>>
Time(s) == [seconds |-> s, useconds |-> s + 1]
Attr(n) == [type |-> n, mode |-> n + 1, nlink |-> n + 2, uid |-> n + 3,
            gid |-> n + 4, size |-> n + 5, blocksize |-> n + 6, rdev |-> n + 7,
            blocks |-> n + 8, fsid |-> n + 9, fileid |-> n + 10,
            atime |-> Time(n + 11), mtime |-> Time(n + 13), ctime |-> Time(n + 15)]
Bytes(n) == [i \in 1 .. n |-> 1 + (i % 3)]

Texts == {Bytes(n) : n \in {0, 3, 4, NFS_MAXNAMLEN, NFS_MAXNAMLEN + 1}}
LookupNames == {<<1>>, <<1, 1, 1>>, <<1, 2, 1, 3>>, Bytes(NFS_MAXNAMLEN),
                Bytes(NFS_MAXNAMLEN + 1)}

MCOps ==
    [call : {"GetAttr", "ReadLink", "statfs"}, file : {F}]
    \cup [call : {"Chmod"}, file : {F}, mode : {0, 5}]
    \cup [call : {"SetSize"}, file : {F}, size : {0, 7}]
    \cup [call : {"SetTimes"}, file : {F}, tv : {Time(3)}]
    \cup [call : {"SetUidGid"}, file : {F}, uid : {0, 3, MinusOne}, gid : {4}]
    \cup [call : {"Lookup"}, file : {F}, name : LookupNames,
          count : {NFS_MAXDATA + 1}]
    \cup [call : {"Lookup"}, file : {F}, name : {<<1>>}, count : {NFS_MAXDATA - 3}]
    \cup [call : {"ReadDir"}, file : {F}, cookie : {WordUnit(0), WordUnit(2)},
          count : {32}]
    \cup [call : {"MRead"}, file : {F}, offset : {6}, count : {5}, junk : Junk]
    \cup [call : {"MWrite"}, file : {F}, offset : {6}, junk : Junk,
          data : {Bytes(n) : n \in (1 .. 4) \cup {NFS_MAXDATA}}]
    \cup [call : {"MAWrite"}, file : {F}, offset : {6}, junk : Junk,
          data : {Bytes(n) : n \in SplitLengths}]
    \cup [call : {"Create", "MkDir"}, file : {F}, name : Texts, uid : {2},
          gid : {4}, mode : {5}, size : {0}]
    \cup [call : {"Remove", "RmDir"}, file : {F}, name : Texts]
    \cup [call : {"Rename"}, file : {F}, name : Texts, todir : {G}, toname : Texts]
    \cup [call : {"Link"}, file : {F}, todir : {G}, toname : Texts]
    \cup [call : {"Symlink"}, file : {F}, name : {<<1>>}, uid : {2}, gid : {4},
          path : {Bytes(n) : n \in {0, 2, NFS_MAXPATHLEN,
                                                NFS_MAXPATHLEN + 1}}]

MCBodies ==
    [GETATTR |-> {Attr(20)}, SETATTR |-> {Attr(20)}, WRITE |-> {Attr(20)},
     CREATE |-> {[file |-> G, attributes |-> Attr(40)]},
     MKDIR |-> {[file |-> G, attributes |-> Attr(40)]},
     READLINK |-> {Bytes(n) : n \in {0, 2, 4, NFS_MAXPATHLEN}},
     READ |-> {[attributes |-> Attr(20), data |-> Bytes(n)] : n \in {0, 3, NFS_MAXDATA}},
     STATFS |-> {[tsize |-> 1, bsize |-> 2, blocks |-> 3, bfree |-> 4,
                  bavail |-> 5]}]

MCCookies == 1 .. 3
MCDirectories ==
    {<<NULL, NULL, NULL>>, <<NULL, <<2>>, NULL>>, << <<3>>, <<2>>, <<1>> >>,
     << <<2, 1, 1>>, <<1, 1, 1, 3>>, NULL>>, << <<1, 1>>, <<3>>, <<2, 2, 1, 1>> >>,
     << <<3>>, Bytes(NFS_MAXNAMLEN), NULL>>}
MCNewNames == {<<2>>, <<1, 1, 1, 3>>}
MCStatuses == {nfsstat[s] : s \in DOMAIN nfsstat} \cup {77}
MCJunk == {0, MinusOne}
MCDirStatuses == {nfsstat.NOENT, nfsstat.STALE}
=============================================================================
