------------------------------ MODULE PathWalk ------------------------------
(***************************************************************************)
(* How a name becomes an object: the full name is built from a lock and an *)
(* Amiga path (CBuildFullName, lock.c), unified (fn_PathUnify, fn.c) and   *)
(* walked from the root one component per NFS lookup (RootLocateAndLock    *)
(* and RootLocateDir in lock.c, PathWalk in link.c); dos.library answers   *)
(* ERROR_IS_SOFT_LINK with ACTION_READ_LINK and locates the name it gets   *)
(* (fn_InsertLink).                                                        *)
(*                                                                         *)
(* A text is a sequence of one-character strings.  The directory tree of   *)
(* the server is fixed but for the contents of its one symbolic link.      *)
(***************************************************************************)
EXTENDS Integers, SequencesExt

CONSTANTS
    Letters,             \* characters other than "." and "/"
    MaxLen,              \* bounds the length of a path in a packet
    MaxName,             \* MAX_LONGAMIGAFILENAMELEN
    Volume,              \* g_VolumeName
    DevNames,            \* texts before the ":" of a path
    NoDev,               \* there is no ":" in the path
    NoDir,               \* there is no directory left to strip
    LockNames,           \* efl_FullName of the locks
    BadLock,             \* a lock that is not in the list
    Dirs, Files, Link,   \* directories, plain files and the link of the server
    Targets,             \* what the link may contain
    BufSizes,            \* sizes of the buffer of READ_LINK
    MaxFollows           \* links that dos.library follows

Text(n) == BoundedSeq(Letters \cup {".", "/"}, n)

(* How a request can end.                                                  *)
Errors == {"OBJECT_NOT_FOUND", "INVALID_COMPONENT_NAME", "INVALID_LOCK",
           "IS_SOFT_LINK", "LINE_TOO_LONG", "IO", "NO_FREE_STORE"}

ASSUME PathWalkAssumption ==
    /\ Letters \cap {".", "/", ":", ""} = {}
    /\ MaxLen \in Nat /\ MaxName \in Nat /\ MaxFollows \in Nat
    /\ BufSizes \subseteq Nat
    /\ NoDev \notin DevNames /\ BadLock \notin LockNames

VARIABLES
    pc,                  \* "build", "unify", "walk", "answer", "stop", "wild"
    req,                 \* type, lock, device and path of the packet
    buf,                 \* size of the buffer of READ_LINK
    s,                   \* the text fn_PathUnify reads
    i,                   \* index of the next character of s
    d,                   \* the text it has written
    AddSep,              \* a "/" is due before the next character
    pos,                 \* fn_ScanPath: index in d of the next component
    dir,                 \* ParDir, as the names that lead to it
    res,                 \* what the request was answered with
    wrote,               \* bytes fn_InsertLink has touched in the buffer
    target,              \* contents of the link
    follows,             \* links followed so far
    child,               \* history: the object whose parent is asked for
    failed,              \* history: an RPC or an allocation has failed
    first                \* history: the request of the program

unify == <<s, i, d, AddSep>>
walk == <<pos, dir>>
vars == <<pc, req, buf, unify, walk, res, wrote, target, follows, child,
          failed, first>>

-----------------------------------------------------------------------------
(* The server.                                                             *)

Dot == <<".">>
DotDot == <<".", ".">>

(* LOOKUP of a name in a directory.                                        *)
Object(at, name) ==
    IF name = Dot THEN at
    ELSE IF name = DotDot THEN (IF at = <<>> THEN at ELSE Front(at))
    ELSE Append(at, name)

TypeOf(obj) == CASE obj = Link      -> "NFLNK"
                 [] obj \in Dirs    -> "NFDIR"
                 [] obj \in Files   -> "NFREG"
                 [] OTHER           -> "none"

-----------------------------------------------------------------------------
(* Texts.                                                                  *)

At(t, k) == IF k <= Len(t) THEN t[k] ELSE ""

EndsAt(t, k) == At(t, k) \in {"/", ""}

(* AddPart of dos.library.                                                 *)
AddPart(t, part) ==
    IF t = <<>> \/ Last(t) \in {":", "/"} THEN t \o part ELSE t \o <<"/">> \o part

(* fn_AddPart gives AddPart a block of l1 + l2 + 3 bytes; no text, NoDir,  *)
(* if that were too small.                                                 *)
fn_AddPart(t, part) == LET new == AddPart(t, part) IN
    IF Len(new) + 1 <= Len(t) + Len(part) + 3 THEN new ELSE NoDir

(* The text without its last component; fn_PathUnify steps back to the     *)
(* last "/" or to the start.                                               *)
Strip(t) == LET seps == {k \in 1..Len(t) - 1 : t[k + 1] = "/"} IN
    IF seps = {} THEN <<>>
    ELSE SubSeq(t, 1, CHOOSE k \in seps : \A j \in seps : j <= k)

(* Strip once for every further "/" of "//..."; NoDir when none is left.    *)
StripAll(t, n) == LET after[k \in 0..n] ==
    IF k = 0 THEN t
    ELSE IF after[k - 1] = NoDir \/ after[k - 1] = <<>> THEN NoDir
    ELSE Strip(after[k - 1]) IN after[n]

(* The component that starts at position p: the text up to the next "/".    *)
fn_ScanPath(t, p) == LET e == CHOOSE k \in p..Len(t) + 1 :
                                  EndsAt(t, k) /\ \A j \in p..k - 1 : ~EndsAt(t, j)
                     IN [comp |-> SubSeq(t, p, e - 1), next |-> e + 1,
                         last |-> e > Len(t)]

(* FilePart: the last component.                                           *)
fn_FilePart(t) == LET p == CHOOSE k \in 0..Len(t) :
                               /\ k = 0 \/ t[k] = "/"
                               /\ \A j \in k + 1..Len(t) : t[j] # "/"
                  IN SubSeq(t, p + 1, Len(t))

(* PathPart: the text before it and its "/".                               *)
fn_PathPart(t) == SubSeq(t, 1, Len(t) - Len(fn_FilePart(t))
                               - (IF fn_FilePart(t) = t THEN 0 ELSE 1))

-----------------------------------------------------------------------------
Ops == {"LOCATE", "READ_LINK", "MAKE_LINK"}
Request(op, fl, dev, path) == [op |-> op, fl |-> fl, dev |-> dev, path |-> path]

Idle ==
    /\ s = <<>> /\ i = 1 /\ d = <<>> /\ AddSep = FALSE
    /\ pos = 1 /\ dir = <<>> /\ wrote = 0

Init ==
    /\ pc = "build"
    /\ \E op \in Ops, fl \in LockNames \cup {BadLock}, dev \in DevNames \cup {NoDev},
          path \in Text(MaxLen) :
          /\ fl = BadLock => dev = NoDev /\ path = <<>>
          /\ req = Request(op, fl, dev, path)
          /\ target \in Targets /\ (op # "LOCATE" => target = Dot)
    /\ buf \in IF req.op = "READ_LINK" THEN BufSizes ELSE {0}
    /\ Idle
    /\ res = "none" /\ follows = 0 /\ child = NoDir /\ failed = FALSE
    /\ first = req

Answer(r) == pc' = "answer" /\ res' = r

(* There is no memory for the copy of a text.                              *)
StrNDup ==
    /\ ~failed
    /\ Answer("NO_FREE_STORE") /\ failed' = TRUE

(***************************************************************************)
(* The lock whose name the path is relative to.  A path with a device name *)
(* is relative to the root if that name is the volume's, and to the lock   *)
(* otherwise (assigns).                                                    *)
(***************************************************************************)
IsOurs(dev) == IsPrefix(dev, Volume)

OldFullName ==
    IF /\ req.dev # NoDev /\ req.path # <<>>
       /\ req.fl # <<>>
       /\ IsOurs(req.dev)
    THEN <<>> ELSE req.fl

(* Texts fn_PathUnify refuses at once.                                     *)
LeadsOut(t) == At(t, 1) = "/" \/ (At(t, 1) = "." /\ At(t, 2) = "." /\ EndsAt(t, 3))

NewName == fn_AddPart(OldFullName, req.path)

CBuildFullName ==
    /\ \/ /\ req.fl = BadLock
          /\ Answer("INVALID_LOCK")
          /\ UNCHANGED <<unify, failed>>
       \/ req.fl # BadLock /\ StrNDup /\ UNCHANGED unify
       \/ /\ req.fl # BadLock
          /\ NewName = NoDir \/ LeadsOut(NewName)
          /\ Answer(IF NewName = NoDir THEN "NO_FREE_STORE" ELSE "OBJECT_NOT_FOUND")
          /\ UNCHANGED <<unify, failed>>
       \/ /\ req.fl # BadLock
          /\ NewName # NoDir /\ ~LeadsOut(NewName)
          /\ s' = NewName
          /\ i' = 1 /\ d' = <<>> /\ AddSep' = FALSE
          /\ pc' = "unify"
          /\ UNCHANGED <<res, failed>>

(* The path of a packet other than READ_LINK is a BSTR: it is copied.      *)
BuildFullName ==
    /\ pc = "build"
    /\ \/ req.op # "READ_LINK" /\ StrNDup /\ UNCHANGED unify
       \/ CBuildFullName
    /\ UNCHANGED <<req, buf, walk, wrote, target, follows, child, first>>

-----------------------------------------------------------------------------
(* fn_PathUnify: one round of its loop.                                    *)

More == pc = "unify" /\ i <= Len(s)
Next1 == At(s, i + 1)

(* "//": every further "/" drops a directory; the last "/" is read again.   *)
Slashes ==
    LET n == CHOOSE k \in 1..Len(s) - i :
                 /\ \A j \in i..i + k : s[j] = "/"
                 /\ At(s, i + k + 1) # "/"
        t == StripAll(d, n)
    IN /\ s[i] = "/" /\ Next1 = "/"
       /\ IF t = NoDir THEN Answer("INVALID_COMPONENT_NAME") /\ UNCHANGED unify
          ELSE d' = t /\ i' = i + n /\ AddSep' = TRUE /\ UNCHANGED <<pc, res, s>>

\* Mutant: "/." is dropped whatever follows.
IsDotAny == s[i] = "/" /\ Next1 = "."

(* "/./" and "/." at the end.                                              *)
IsDot == s[i] = "/" /\ Next1 = "." /\ EndsAt(s, i + 2)
IsDotDot == /\ s[i] = "/" /\ Next1 = "." /\ At(s, i + 2) = "."
            /\ EndsAt(s, i + 3)

\* Mutant: "/." is not stepped over.
SkipDotStays == IsDot /\ UNCHANGED <<pc, res, unify>>

SkipDot == IsDot /\ i' = i + 2 /\ UNCHANGED <<pc, res, s, d, AddSep>>

(* "/../" and "/.." at the end.                                            *)
SkipDotDot ==
    /\ IsDotDot
    /\ IF d = <<>> THEN Answer("INVALID_COMPONENT_NAME") /\ UNCHANGED unify
       ELSE d' = Strip(d) /\ i' = i + 3 /\ AddSep' = TRUE /\ UNCHANGED <<pc, res, s>>

(* Any other "/"; one at the end is dropped.                               *)
Separator ==
    /\ s[i] = "/" /\ Next1 # "/" /\ ~IsDot /\ ~IsDotDot
    /\ AddSep' = (AddSep \/ i < Len(s))
    /\ i' = i + 1
    /\ UNCHANGED <<pc, res, s, d>>

\* Mutants: the "/" stays due; the "/" is written at the start, too.
CharacterStaysDue ==
    /\ s[i] # "/" /\ i' = i + 1
    /\ IF s[i] = "." /\ EndsAt(s, i + 1) THEN UNCHANGED d
       ELSE d' = (IF AddSep /\ d # <<>> THEN Append(d, "/") ELSE d) \o <<s[i]>>
    /\ UNCHANGED <<pc, res, s, AddSep>>
CharacterAtStart ==
    /\ s[i] # "/" /\ i' = i + 1
    /\ IF s[i] = "." /\ EndsAt(s, i + 1) THEN UNCHANGED <<d, AddSep>>
       ELSE d' = (IF AddSep THEN Append(d, "/") ELSE d) \o <<s[i]>> /\ AddSep' = FALSE
    /\ UNCHANGED <<pc, res, s>>

(* A "." before a "/" or the end is dropped, everything else is copied.    *)
Character ==
    /\ s[i] # "/"
    /\ i' = i + 1
    /\ IF s[i] = "." /\ EndsAt(s, i + 1) THEN UNCHANGED <<d, AddSep>>
       ELSE /\ d' = (IF AddSep /\ d # <<>> THEN Append(d, "/") ELSE d) \o <<s[i]>>
            /\ AddSep' = FALSE
    /\ UNCHANGED <<pc, res, s>>

fn_PathUnify ==
    /\ More
    /\ Slashes \/ SkipDot \/ SkipDotDot \/ Separator \/ Character
    /\ UNCHANGED <<req, buf, walk, wrote, target, follows, child, failed, first>>

(* The text is read; what is written neither starts with "/" nor is the   *)
(* text it looks at, the empty rest of s, "..".                            *)
UnifyDone == pc = "unify" /\ i > Len(s)

(* The end of CBuildFullName, with the name d: its last component and a    *)
(* working copy of it are made for the walk.                               *)
Unified ==
    /\ UnifyDone
    /\ \/ /\ Len(fn_FilePart(d)) > MaxName
          /\ Answer("INVALID_COMPONENT_NAME")
          /\ UNCHANGED <<walk, failed>>
       \/ StrNDup /\ UNCHANGED walk
       \/ /\ Len(fn_FilePart(d)) <= MaxName
          /\ pc' = "walk" /\ pos' = 1 /\ dir' = <<>>
          /\ UNCHANGED <<res, failed>>
    /\ UNCHANGED <<req, buf, unify, wrote, target, follows, child, first>>

-----------------------------------------------------------------------------
Scan == fn_ScanPath(d, pos)
Found == Object(dir, Scan.comp)

(* GetDirEntry: an RPC if the directory is not cached.  The root is got    *)
(* first, also for the empty name.                                         *)
Enter == dir' = Found /\ pos' = Scan.next /\ UNCHANGED <<pc, res>>

LookupFails ==
    /\ ~failed
    /\ Answer("IO") /\ failed' = TRUE
    /\ UNCHANGED walk

(* The components before the last one.                                     *)
RootLocateDir ==
    /\ pc = "walk" /\ req.op \in {"LOCATE", "MAKE_LINK"}
    /\ d # <<>> /\ ~Scan.last
    /\ \/ LookupFails
       \/ /\ UNCHANGED failed
          /\ \/ TypeOf(Found) = "none" /\ Answer("OBJECT_NOT_FOUND") /\ UNCHANGED walk
             \/ TypeOf(Found) = "NFLNK" /\ Answer("IS_SOFT_LINK") /\ UNCHANGED walk
             \/ TypeOf(Found) = "NFREG" /\ Answer("INVALID_COMPONENT_NAME") /\ UNCHANGED walk
             \/ TypeOf(Found) = "NFDIR" /\ Enter
    /\ UNCHANGED <<req, buf, unify, wrote, target, follows, child, first>>

(* The last one: a lock on an object that is there.  For the root, too,    *)
(* attributes are asked for if they are not cached.                        *)
RootLocateAndLock ==
    /\ pc = "walk" /\ req.op = "LOCATE"
    /\ \/ d = <<>> /\ Answer("located") /\ UNCHANGED <<walk, failed>>
       \/ Scan.last /\ LookupFails
       \/ /\ d # <<>> /\ Scan.last
          /\ UNCHANGED <<failed, pos>>
          /\ \/ TypeOf(Found) = "none" /\ Answer("OBJECT_NOT_FOUND") /\ UNCHANGED dir
             \/ TypeOf(Found) = "NFLNK" /\ Answer("IS_SOFT_LINK") /\ UNCHANGED dir
             \/ TypeOf(Found) \in {"NFREG", "NFDIR"} /\ Answer("located") /\ dir' = Found
    /\ UNCHANGED <<req, buf, unify, wrote, target, follows, child, first>>

(* LRootLocateDir has reached the directory that is to hold the last       *)
(* component.                                                              *)
LRootLocateDir == d # <<>> /\ Scan.last

(* ACTION_MAKE_LINK: a new entry in that directory, which the server       *)
(* refuses if the name is taken or empty.                                  *)
act_MAKE_LINK ==
    /\ pc = "walk" /\ req.op = "MAKE_LINK"
    /\ \/ d = <<>> /\ Answer("refused") /\ UNCHANGED <<walk, failed>>
       \/ Scan.last /\ LookupFails
       \/ /\ LRootLocateDir
          /\ UNCHANGED <<failed, pos>>
          /\ \/ TypeOf(Found) # "none" /\ Answer("refused") /\ UNCHANGED dir
             \/ TypeOf(Found) = "none" /\ Answer("made") /\ dir' = Found
    /\ UNCHANGED <<req, buf, unify, wrote, target, follows, child, first>>

(***************************************************************************)
(* fn_InsertLink: device name, the directories before the link, the        *)
(* contents of the link and the rest of the path go to the buffer; the     *)
(* result is the text, or NoDir when it does not fit.                      *)
(***************************************************************************)
LinkBase == Volume \o <<":">> \o SubSeq(d, 1, pos - 2)
LinkHead == AddPart(LinkBase, target)

\* Mutant: the rest of the path is lost.
LinkTextNoRest == LinkHead

LinkText == IF Scan.last THEN LinkHead
            ELSE AddPart(LinkHead, SubSeq(d, Scan.next, Len(d)))

(* What it checks before it copies, part by part.                          *)
DevFits == Len(Volume) + 2 <= buf

DirsFit == pos > 1 => pos - 1 < buf - (Len(Volume) + 1)
Fits(t) == Len(t) + 1 <= buf

fn_InsertLink ==
    /\ wrote' = IF ~DevFits THEN 0
                ELSE IF ~DirsFit THEN Len(Volume) + 2
                ELSE IF ~Fits(LinkHead) THEN Len(LinkBase) + 1
                ELSE IF ~Fits(LinkText) THEN Len(LinkHead) + 1
                ELSE Len(LinkText) + 1
    /\ Answer(IF DevFits /\ DirsFit /\ Fits(LinkHead) /\ Fits(LinkText)
              THEN "link" ELSE "LINE_TOO_LONG")

(* PathWalk of link.c: the last component is looked up like the others.    *)
act_READ_LINK ==
    /\ pc = "walk" /\ req.op = "READ_LINK"
    /\ \/ /\ d = <<>>                         \* an empty text in the buffer
          /\ Answer("OBJECT_NOT_FOUND") /\ wrote' = 1
          /\ UNCHANGED <<walk, failed>>
       \/ LookupFails /\ UNCHANGED wrote
       \/ /\ d # <<>> /\ ~failed             \* GetDirEntry fails: no link found
          /\ TypeOf(Found) = "NFDIR"
          /\ Answer("OBJECT_NOT_FOUND") /\ failed' = TRUE
          /\ UNCHANGED <<walk, wrote>>
       \/ /\ d # <<>>
          /\ UNCHANGED failed
          /\ \/ /\ TypeOf(Found) = "none"
                /\ Answer("OBJECT_NOT_FOUND") /\ UNCHANGED <<walk, wrote>>
             \/ /\ TypeOf(Found) = "NFREG"
                /\ Answer("INVALID_COMPONENT_NAME") /\ UNCHANGED <<walk, wrote>>
             \/ TypeOf(Found) = "NFLNK" /\ fn_InsertLink /\ UNCHANGED walk
             \/ TypeOf(Found) = "NFDIR" /\ ~Scan.last /\ Enter /\ UNCHANGED wrote
             \/ /\ TypeOf(Found) = "NFDIR" /\ Scan.last
                /\ Answer("OBJECT_NOT_FOUND") /\ UNCHANGED <<walk, wrote>>
    /\ UNCHANGED <<req, buf, unify, target, follows, child, first>>

-----------------------------------------------------------------------------
(* dos.library.                                                            *)

Send(r) ==
    /\ pc' = "build" /\ req' = r
    /\ s' = <<>> /\ i' = 1 /\ d' = <<>> /\ AddSep' = FALSE
    /\ pos' = 1 /\ dir' = <<>> /\ wrote' = 0 /\ res' = "none"

(* ERROR_IS_SOFT_LINK: the same name again, with READ_LINK.                *)
AskLink ==
    /\ pc = "answer" /\ res = "IS_SOFT_LINK" /\ req.op = "LOCATE"
    /\ follows < MaxFollows
    /\ buf' \in BufSizes
    /\ Send([req EXCEPT !.op = "READ_LINK"])
    /\ UNCHANGED <<target, follows, child, failed, first>>

(* The name READ_LINK gave, which begins with the volume's name.           *)
FollowLink ==
    /\ pc = "answer" /\ res = "link"
    /\ follows' = follows + 1
    /\ Send(Request("LOCATE", <<>>, Volume,
                    SubSeq(LinkText, Len(Volume) + 2, Len(LinkText))))
    /\ UNCHANGED <<buf, target, child, failed, first>>

(* ACTION_PARENT of the lock: the directory part of its full name.         *)
act_PARENT ==
    /\ pc = "answer" /\ res = "located" /\ d # <<>>
    /\ child' = dir
    /\ Send(Request("LOCATE", <<>>, NoDev, fn_PathPart(d)))
    /\ UNCHANGED <<buf, target, follows, failed, first>>

(* MAKE_LINK frees the Name LRootLocateDir gave it also when there is none *)
(* and the pointer is whatever the stack held.                             *)
FreeName == IF req.op = "MAKE_LINK" /\ res \in Errors THEN {"stop", "wild"} ELSE {"stop"}

Stop ==
    /\ pc = "answer"
    /\ res # "link"
    /\ ~(res = "IS_SOFT_LINK" /\ req.op = "LOCATE" /\ follows < MaxFollows)
    /\ pc' \in FreeName
    /\ UNCHANGED <<req, buf, unify, walk, res, wrote, target, follows, child,
                   failed, first>>

Next == \/ BuildFullName \/ fn_PathUnify \/ Unified \/ RootLocateDir \/ RootLocateAndLock
        \/ act_MAKE_LINK \/ act_READ_LINK \/ AskLink \/ FollowLink \/ act_PARENT \/ Stop

Spec == Init /\ [][Next]_vars

FairSpec == Spec /\ WF_vars(Next)

-----------------------------------------------------------------------------
(* Every variable holds a value of its kind.                               *)
TypeOK ==
    /\ pc \in {"build", "unify", "walk", "answer", "stop", "wild"}
    /\ req.op \in Ops
    /\ buf \in Nat /\ i \in Nat /\ pos \in Nat /\ wrote \in Nat /\ follows \in Nat
    /\ s \in Seq(Letters \cup {".", "/"}) /\ d \in Seq(Letters \cup {".", "/"})
    /\ AddSep \in BOOLEAN /\ failed \in BOOLEAN
    /\ res \in Errors \cup {"none", "located", "link", "made", "refused"}

(***************************************************************************)
(* fn_PathUnify writes into a block as large as the text it reads, and at  *)
(* times two characters for one read: it never writes past what it has     *)
(* read (the disabled ASSERT (d-d0) < memlen).                             *)
(***************************************************************************)
UnifyFits == pc = "unify" => Len(d) + (IF AddSep /\ d # <<>> THEN 1 ELSE 0) < i

(***************************************************************************)
(* A unified name has no empty component: it neither begins nor ends with  *)
(* "/" and has no "//", which fn_ScanPath and both walks take for granted. *)
(***************************************************************************)
ScanLegal ==
    pc \in {"walk", "answer"} /\ d # <<>> =>
        /\ d[1] # "/" /\ d[Len(d)] # "/"
        /\ \A k \in 1..Len(d) - 1 : ~(d[k] = "/" /\ d[k + 1] = "/")

(***************************************************************************)
(* READ_LINK stays inside the caller's buffer, and gives up only if the    *)
(* whole name really does not fit.                                         *)
(***************************************************************************)
LinkFits ==
    /\ wrote <= buf
    /\ pc = "answer" /\ res = "LINE_TOO_LONG" => Len(LinkText) + 1 > buf
=============================================================================
