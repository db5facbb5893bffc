------------------------------- MODULE Locks --------------------------------
(***************************************************************************)
(* Locks and file handles (lock.c, locks.c, fh.c) under the packets that   *)
(* take, test and release them (lock.c, find.c, object.c), with the name   *)
(* and attribute caches through which some of them identify an object.     *)
(*                                                                         *)
(* All objects live in one directory.  An object is its file id; a lock    *)
(* is known to the client by its address, a handle by its efh_ELock, which *)
(* no other handle shares.                                                 *)
(***************************************************************************)
EXTENDS Integers, SequencesExt

CONSTANTS
    Names,               \* names in the directory
    FileIds,             \* file ids the server can give
    LockIds,             \* addresses of locks; bounds their number
    Root, None,          \* file id of the directory; no object
    Packets,             \* the packets the client sends
    ServerFails,         \* whether RPCs may fail or lose their answers
    ReuseIds             \* whether a new object may get a file id that
                         \* a lock on a removed object still names

AllPackets == {"LOCATE_OBJECT", "FREE_LOCK", "COPY_DIR", "COPY_DIR_FH", "PARENT_FH",
               "FINDINPUT", "FINDUPDATE",
               "FINDOUTPUT", "FH_FROM_LOCK", "END", "CHANGE_MODE", "SET_FILE_SIZE",
               "DELETE_OBJECT", "CREATE_DIR", "CREATE_OBJECT", "RENAME_OBJECT"}

ASSUME LocksAssumption ==
    /\ Root \notin FileIds /\ None \notin FileIds /\ Root # None
    /\ Packets \subseteq AllPackets
    /\ ServerFails \in BOOLEAN /\ ReuseIds \in BOOLEAN

VARIABLES
    list,                \* dl_LockList, the newest lock first
    handles,             \* the locks of the open file handles (g_FH)
    dir,                 \* the directory on the server
    type,                \* the type of an object, by file id
    names,               \* dce_Entries: a name's cached file id and type
    attrs,               \* cached attributes, by file id: the type
    swapped              \* history: an object was replaced or renamed, or
                         \* a lock taken, behind the caches' back

server == <<dir, type>>
cache == <<names, attrs>>
vars == <<list, handles, dir, type, names, attrs, swapped>>

\* fl_Access of a lock FINDOUTPUT takes is its AMode, MODE_NEWFILE.
Access == {"SHARED", "EXCLUSIVE", "NEWFILE"}

Lock == [id : LockIds, key : FileIds \cup {Root}, access : Access]

Types == {"file", "dir"}

NEntry == [id : FileIds, type : Types]

Held == {list[i] : i \in DOMAIN list}

LocksOn(key) == {l \in Held : l.key = key}

\* lock_Lookup: the lock at an address, if it is in the list.
lock_Lookup(id) == {l \in Held : l.id = id}

\* fh_Lookup gives the handle the client names, with its lock.
fh_Lookup(id) == IF id \in handles THEN lock_Lookup(id) ELSE {}

\* fh_Create and fh_Insert; fh_Remove and fh_Delete.
fh_Insert(id) == handles \cup {id}
fh_Remove(id) == handles \ {id}

\* lock_LookupFromKey: the index of the first lock on the object, or 0.
lock_LookupFromKey(key) == SelectInSeq(list, LAMBDA l : l.key = key)

InUse(key) == lock_LookupFromKey(key) # 0

lock_NumLocksFromKey(key) == Cardinality({i \in DOMAIN list : list[i].key = key})

\* lock_Create and lock_Insert; the client does not hold more than LockIds.
AddLock(key, access, opens) ==
    \E id \in LockIds \ {l.id : l \in Held} :
      /\ list' = <<[id |-> id, key |-> key, access |-> access]>> \o list
      /\ handles' = IF opens THEN fh_Insert(id) ELSE handles

\* lock_Remove: the first lock at the address leaves the list.
lock_Remove(id) == RemoveAt(list, SelectInSeq(list, LAMBDA l : l.id = id))

-----------------------------------------------------------------------------
Exists(n) == dir[n] # None

OnServer == {dir[n] : n \in Names} \ {None}

NewIds == FileIds \ (OnServer \cup IF ReuseIds THEN {} ELSE {l.key : l \in Held})

\* nfs_Create or nfs_MkDir of a name that does not exist.
ServerCreate(n, id, t) ==
    /\ dir' = [dir EXCEPT ![n] = id]
    /\ type' = [type EXCEPT ![id] = t]

\* dc_NELookup: the entry with the name; hashes only save comparisons.
dc_NELookup(n) == names[n]

\* GetNameEntry: a cached name counts only while its attributes are cached.
CacheHit(n) == dc_NELookup(n) # None /\ attrs[dc_NELookup(n).id] # None

Found(n) == CacheHit(n) \/ Exists(n)

GetNameEntry(n) ==
    IF CacheHit(n) THEN names[n] ELSE [id |-> dir[n], type |-> type[dir[n]]]

NamesAfter(n) == [names EXCEPT ![n] = GetNameEntry(n)]

AttrsAfter(n) ==
    IF CacheHit(n) THEN attrs
    ELSE [attrs EXCEPT ![dir[n]] = type[dir[n]]]

CacheEntry(n) == names' = NamesAfter(n) /\ attrs' = AttrsAfter(n)

dc_NERemove(n) == [names EXCEPT ![n] = None]

\* dc_NERemove and attrs_Delete.
ForgetEntry(n) ==
    /\ names' = dc_NERemove(n)
    /\ attrs' = [AttrsAfter(n) EXCEPT ![GetNameEntry(n).id] = None]

-----------------------------------------------------------------------------
(***************************************************************************)
(* Locks.                                                                  *)
(***************************************************************************)

\* DupELock: only a shared lock can be shared, and the first lock decides.
DupELock(key, mode) ==
    InUse(key) => mode = "SHARED" /\ list[lock_LookupFromKey(key)].access = "SHARED"

act_LOCATE_OBJECT ==
    /\ "LOCATE_OBJECT" \in Packets
    /\ \E n \in Names, mode \in {"SHARED", "EXCLUSIVE"} :
         /\ Found(n)
         /\ CacheEntry(n)
         /\ \/ /\ DupELock(GetNameEntry(n).id, mode)
               /\ AddLock(GetNameEntry(n).id, mode, FALSE)
            \/ /\ ~DupELock(GetNameEntry(n).id, mode)
               /\ UNCHANGED <<list, handles>>
    /\ UNCHANGED <<server, swapped>>

\* The empty path, and PARENT of every object: "we don't allow exclusive
\* locks on ROOT:".
LocateRoot ==
    /\ "LOCATE_OBJECT" \in Packets
    /\ AddLock(Root, "SHARED", FALSE)
    /\ UNCHANGED <<server, cache, swapped>>

act_FREE_LOCK ==
    /\ "FREE_LOCK" \in Packets
    /\ \E id \in LockIds \ handles : lock_Lookup(id) # {} /\ list' = lock_Remove(id)
    /\ UNCHANGED <<handles, server, cache, swapped>>

\* Only a shared lock can be copied.
do_act_COPY_DIR(l) ==
    /\ l.access = "SHARED" /\ AddLock(l.key, "SHARED", FALSE)
    /\ UNCHANGED <<server, cache, swapped>>

act_COPY_DIR ==
    /\ "COPY_DIR" \in Packets
    /\ \E id \in LockIds : \E l \in lock_Lookup(id) : do_act_COPY_DIR(l)

\* A handle that FINDINPUT opened can be copied to a lock of its own.
act_COPY_DIR_FH ==
    /\ "COPY_DIR_FH" \in Packets
    /\ \E id \in LockIds : \E l \in fh_Lookup(id) : do_act_COPY_DIR(l)

\* The parent of an open file is the directory.
act_PARENT_FH ==
    /\ "PARENT_FH" \in Packets
    /\ \E id \in LockIds : fh_Lookup(id) # {}
    /\ AddLock(Root, "SHARED", FALSE)
    /\ UNCHANGED <<server, cache, swapped>>

-----------------------------------------------------------------------------
(***************************************************************************)
(* Files.  The find packets look the name up on the server.                *)
(***************************************************************************)

\* Mutant: an exclusive lock is not respected by a shared open.
MayOpenShared(key, mode) == InUse(key) => mode # "EXCLUSIVE"

\* act_FINDREADWRITE's test of the locks on an existing file.
MayOpen(key, mode) ==
    InUse(key) => mode # "EXCLUSIVE"
                  /\ list[lock_LookupFromKey(key)].access # "EXCLUSIVE"

OpenOld(n, mode) ==
    /\ Exists(n) /\ type[dir[n]] = "file"
    /\ MayOpen(dir[n], mode)
    /\ AddLock(dir[n], mode, TRUE)
    /\ UNCHANGED <<server, cache, swapped>>

act_FINDINPUT == "FINDINPUT" \in Packets /\ \E n \in Names : OpenOld(n, "SHARED")

act_FINDUPDATE ==
    /\ "FINDUPDATE" \in Packets
    /\ \E n \in Names :
         \/ OpenOld(n, "EXCLUSIVE")
         \/ /\ ~Exists(n)
            /\ \E id \in NewIds : /\ ServerCreate(n, id, "file")
                                  /\ MayOpen(id, "EXCLUSIVE")
                                  /\ AddLock(id, "EXCLUSIVE", TRUE)
            /\ UNCHANGED <<cache, swapped>>

\* Mutant: the lock found is not forgotten, errorexit removes it.
OutputInUseRemoves(n) ==
    /\ Exists(n) /\ InUse(dir[n])
    /\ list' = lock_Remove(list[lock_LookupFromKey(dir[n])].id)
    /\ UNCHANGED <<handles, server, cache, swapped>>

\* "else this (used !) elock will be removed !"
OutputInUse(n) ==
    /\ Exists(n) /\ InUse(dir[n])
    /\ UNCHANGED vars

\* nfs_Remove, whose result is not looked at, and nfs_Create.
OutputReplace(n) ==
    /\ Exists(n) => type[dir[n]] = "file" /\ ~InUse(dir[n])
    /\ \E id \in NewIds \cup (IF Exists(n) THEN {dir[n]} ELSE {}) :
         /\ ServerCreate(n, id, "file")
         /\ AddLock(id, "NEWFILE", TRUE)
    /\ swapped' = (swapped \/ Exists(n))

\* A failing nfs_Create, or no memory for the lock.
OutputFails(n) ==
    /\ ServerFails
    /\ Exists(n) => type[dir[n]] = "file" /\ ~InUse(dir[n])
    /\ \/ dir' = [dir EXCEPT ![n] = None] /\ UNCHANGED type
       \/ \E id \in NewIds : ServerCreate(n, id, "file")
    /\ swapped' = (swapped \/ Exists(n))
    /\ UNCHANGED <<list, handles>>

\* The lookup fails for another reason than a missing file: the locks are
\* not looked at, and nfs_Create truncates the file that exists.
OutputUnchecked(n) ==
    /\ ServerFails
    /\ Exists(n) /\ type[dir[n]] = "file"
    /\ AddLock(dir[n], "NEWFILE", TRUE)
    /\ swapped' = TRUE
    /\ UNCHANGED server

act_FINDOUTPUT ==
    /\ "FINDOUTPUT" \in Packets
    /\ \E n \in Names : \/ OutputInUse(n) \/ OutputReplace(n)
                        \/ OutputFails(n) \/ OutputUnchecked(n)
    /\ UNCHANGED cache

\* The lock belongs to the new handle from now on.
act_FH_FROM_LOCK ==
    /\ "FH_FROM_LOCK" \in Packets
    /\ \E l \in Held :
         /\ l.id \notin handles
         /\ l.key \in OnServer /\ type[l.key] = "file"
         /\ handles' = fh_Insert(l.id)
    /\ UNCHANGED <<list, server, cache, swapped>>

act_END ==
    /\ "END" \in Packets
    /\ \E id \in handles :
         /\ list' = lock_Remove(id)
         /\ handles' = fh_Remove(id)
    /\ UNCHANGED <<server, cache, swapped>>

\* CHANGE_MODE on a handle.  On a lock it always fails: the guard excludes
\* CHANGE_LOCK, which the switch below it handles.
act_CHANGE_MODE ==
    /\ "CHANGE_MODE" \in Packets
    /\ \E i \in DOMAIN list, mode \in {"SHARED", "EXCLUSIVE"} :
         /\ list[i].id \in handles /\ list[i].access # mode
         /\ lock_NumLocksFromKey(list[i].key) <= 1
         /\ list' = [list EXCEPT ![i].access = mode]
    /\ UNCHANGED <<handles, server, cache, swapped>>

\* SET_FILE_SIZE needs the only lock; attrs_Update caches the attributes.
act_SET_FILE_SIZE ==
    /\ "SET_FILE_SIZE" \in Packets
    /\ \E l \in Held :
         /\ l.id \in handles /\ lock_NumLocksFromKey(l.key) <= 1
         /\ l.key \in OnServer
         /\ attrs' = [attrs EXCEPT ![l.key] = type[l.key]]
    /\ UNCHANGED <<list, handles, names, server, swapped>>

-----------------------------------------------------------------------------
(***************************************************************************)
(* Objects.                                                                *)
(***************************************************************************)

\* Mutant: the locks are not looked at.
DeleteUnchecked(n) == TRUE

\* "don't allow remove if locks are still open": the locks on the object the
\* caches know under this name.
MayDelete(n) == ~InUse(GetNameEntry(n).id)

\* nfs_RmDir or nfs_Remove, by the cached type, on the server's object; when
\* the RPC fails the caches are cleaned as well.
act_DELETE_OBJECT ==
    /\ "DELETE_OBJECT" \in Packets
    /\ \E n \in Names :
         /\ Found(n)
         /\ \/ /\ MayDelete(n)
               /\ ForgetEntry(n)
               /\ \/ /\ Exists(n) /\ type[dir[n]] = GetNameEntry(n).type
                     /\ dir' = [dir EXCEPT ![n] = None]
                  \/ /\ ServerFails \/ (Exists(n) => type[dir[n]] # GetNameEntry(n).type)
                     /\ UNCHANGED dir
            \/ /\ ~MayDelete(n)
               /\ CacheEntry(n)
               /\ UNCHANGED dir
    /\ UNCHANGED <<list, handles, type, swapped>>

\* The new directory is locked, its name not cached.
act_CREATE_DIR ==
    /\ "CREATE_DIR" \in Packets
    /\ \E n \in Names, id \in NewIds :
         /\ ~Exists(n)
         /\ ServerCreate(n, id, "dir")
         /\ \/ AddLock(id, "EXCLUSIVE", FALSE)
            \/ ServerFails /\ UNCHANGED <<list, handles>>
    /\ UNCHANGED <<cache, swapped>>

\* CREATE_OBJECT makes a file (the device modes are commented out), no lock.
act_CREATE_OBJECT ==
    /\ "CREATE_OBJECT" \in Packets
    /\ \E n \in Names, id \in NewIds : ~Exists(n) /\ ServerCreate(n, id, "file")
    /\ UNCHANGED <<list, handles, cache, swapped>>

\* nfs_Rename replaces an object the new name had.
RenameOnServer(n1, n2) ==
    /\ Exists(n1) /\ (Exists(n2) => type[dir[n1]] = type[dir[n2]])
    /\ dir' = [dir EXCEPT ![n1] = None, ![n2] = dir[n1]]

\* Only the locks on the old name's object are looked at.  The cached entry
\* of the new name is left as it is.
act_RENAME_OBJECT ==
    /\ "RENAME_OBJECT" \in Packets
    /\ \E n1, n2 \in Names :
         /\ n1 # n2 /\ Found(n1) /\ ~InUse(GetNameEntry(n1).id)
         /\ \/ RenameOnServer(n1, n2) /\ ForgetEntry(n1) /\ swapped' = (swapped \/ Exists(n2))
            \/ ServerFails /\ RenameOnServer(n1, n2) /\ CacheEntry(n1) /\ swapped' = TRUE
            \/ UNCHANGED <<dir, swapped>> /\ CacheEntry(n1)
    /\ UNCHANGED <<list, handles, type>>

\* dc_FreeVal: a directory leaves the cache with all its names.
dce_Delete == [n \in Names |-> None]

\* A timeout in the attribute cache, or of the cached directory.
Expire ==
    /\ \/ \E id \in FileIds : attrs' = [attrs EXCEPT ![id] = None] /\ UNCHANGED names
       \/ names' = dce_Delete /\ UNCHANGED attrs
    /\ UNCHANGED <<list, handles, server, swapped>>

Init ==
    /\ list = <<>> /\ handles = {}
    /\ dir = [n \in Names |-> None]
    /\ type \in [FileIds -> {"file"}]
    /\ names = [n \in Names |-> None]
    /\ attrs = [id \in FileIds |-> None]
    /\ swapped = FALSE

Next ==
    \/ act_LOCATE_OBJECT \/ LocateRoot \/ act_FREE_LOCK
    \/ act_COPY_DIR \/ act_COPY_DIR_FH \/ act_PARENT_FH
    \/ act_FINDINPUT \/ act_FINDUPDATE \/ act_FINDOUTPUT
    \/ act_FH_FROM_LOCK \/ act_END \/ act_CHANGE_MODE \/ act_SET_FILE_SIZE
    \/ act_DELETE_OBJECT \/ act_CREATE_DIR \/ act_CREATE_OBJECT
    \/ act_RENAME_OBJECT \/ Expire

Spec == Init /\ [][Next]_vars

-----------------------------------------------------------------------------
\* The variables hold what their comments say.
TypeOK ==
    /\ list \in Seq(Lock) /\ handles \subseteq LockIds
    /\ dir \in [Names -> FileIds \cup {None}]
    /\ type \in [FileIds -> Types]
    /\ names \in [Names -> NEntry \cup {None}]
    /\ attrs \in [FileIds -> Types \cup {None}]
    /\ swapped \in BOOLEAN

\* efh_ELock never dangles: the lock of an open handle stays in the list, once,
\* whatever other packets fail or free.  act_END reports the opposite:
\* "elock not in list !".
HandlesLocked ==
    /\ TypeOK
    /\ handles \subseteq {l.id : l \in Held}
    /\ \A i, j \in DOMAIN list : list[i].id = list[j].id => i = j

\* An exclusive lock is the only lock on its object, although every packet
\* looks only at the first lock on it in the list; FINDOUTPUT after a lookup
\* that failed is the exception.
ExclusiveAlone ==
    ~swapped => \A i, j \in DOMAIN list :
      list[i].key = list[j].key /\ list[i].access = "EXCLUSIVE" => i = j

\* No object is removed while a lock on it is open, through all packets that
\* create, rename and remove, as long as none replaces an existing object or
\* loses the answer of a rename.
LockedExists == ~swapped => \A l \in Held : l.key \in OnServer \cup {Root}

\* Under the same condition a name found in the caches is the server's: with
\* it the lock tests of DELETE_OBJECT and RENAME_OBJECT, which go by the
\* cached file id, are about the right object.
NamesExact ==
    ~swapped => \A n \in Names : CacheHit(n) =>
      names[n].id = dir[n] /\ names[n].type = type[dir[n]]

\* The locks protect the objects they were taken on, because the names and
\* file ids the packets test them by are those of the server.
LocksProtect == LockedExists /\ NamesExact
=============================================================================
