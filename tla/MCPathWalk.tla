---------------------------- MODULE MCPathWalk ------------------------------
(***************************************************************************)
(* PathWalk for model checking, against a reference: a path is a list of   *)
(* names and parent steps, and a link stands for its contents in the       *)
(* directory that holds it.                                                *)
(***************************************************************************)
EXTENDS PathWalk

A == <<"a">>
B == <<"b">>
MCDirs == {<<>>, <<A>>, <<A, A>>}
MCFiles == {<<B>>, <<A, A, B>>}
MCLink == <<A, B>>
MCVolume == <<"v", "w">>
MCDevNames == {<<>>, <<"v">>, <<"v", "w">>, <<"x">>}
MCLockNames == {<<>>, A}
MCTargets == {A, DotDot, Dot, B, <<".", ".", "/", "b">>, <<"a", "/", "b">>, <<"/", "a">>}

-----------------------------------------------------------------------------
(* The parts of a text between its "/".                                    *)
RECURSIVE Split(_)
Split(t) == IF Contains(t, "/")
            THEN LET k == SelectInSeq(t, LAMBDA c : c = "/")
                 IN <<SubSeq(t, 1, k - 1)>> \o Split(SubSeq(t, k + 1, Len(t)))
            ELSE <<t>>

(* An Amiga path: an empty part is the parent, but for one at the end.     *)
Parts(t) == LET p == Split(t) IN IF Last(p) = <<>> THEN Front(p) ELSE p

(* The names a text stands for, or NoDir if it leads out of the volume.    *)
Names(t) ==
    LET add(stack, part) ==
          IF stack = NoDir \/ part = Dot THEN stack
          ELSE IF part \in {<<>>, DotDot} THEN (IF stack = <<>> THEN NoDir ELSE Front(stack))
          ELSE Append(stack, part)
    IN FoldLeft(add, <<>>, Parts(t))

(* Texts with a name such as "x." or "..." are left out: fn_PathUnify      *)
(* drops the last dot of such a name.                                      *)
Dotted(t) == \E k \in DOMAIN Split(t) :
    LET part == Split(t)[k]
    IN part \notin {<<>>, Dot, DotDot} /\ Last(part) = "."

(* What a program means: the object its names lead to, or an error.  The   *)
(* contents of a link are an Amiga path, too: a "/" in front is the parent *)
(* of its directory, not the root of the server.                           *)
RECURSIVE Resolve(_, _, _)
Resolve(at, names, n) ==
    IF names = <<>> THEN [obj |-> at]
    ELSE IF TypeOf(at) # "NFDIR" THEN [error |-> "INVALID_COMPONENT_NAME"]
    ELSE IF Head(names) \in {<<>>, DotDot} /\ at = <<>> THEN [error |-> "outside"]
    ELSE LET obj == Object(at, IF Head(names) = <<>> THEN DotDot ELSE Head(names)) IN
         CASE TypeOf(obj) = "none" -> [error |-> "OBJECT_NOT_FOUND"]
           [] TypeOf(obj) = "NFLNK" /\ n = 0 -> [error |-> "IS_SOFT_LINK"]
           [] TypeOf(obj) = "NFLNK" /\ n > 0 ->
                Resolve(at, Parts(target) \o Tail(names), n - 1)
           [] OTHER -> Resolve(obj, Tail(names), n)

(* A path with a device name starts at the root of the volume if that name *)
(* is a beginning of the volume's, the empty and the whole one included,   *)
(* and else at the lock of the assign.  An assign "v:" of the volume "vw"  *)
(* means its lock, too, but cannot be told from the volume here.           *)
MeantNames ==
    LET beginnings == {SubSeq(Volume, 1, k) : k \in 0..Len(Volume)}
        base == IF first.path # <<>> /\ first.dev \in beginnings THEN <<>> ELSE first.fl
    IN Names(AddPart(base, first.path))

Meant ==
    IF first.fl = BadLock THEN [error |-> "INVALID_LOCK"]
    ELSE IF MeantNames = NoDir THEN [error |-> "outside"]
    ELSE Resolve(<<>>, MeantNames, MaxFollows)

TooLong(t) == \E k \in DOMAIN Split(t) : Len(Split(t)[k]) > MaxName

-----------------------------------------------------------------------------
(***************************************************************************)
(* fn_PathUnify computes the names the text stands for, and refuses        *)
(* exactly the texts that lead out of the volume.                          *)
(***************************************************************************)
UnifyExact ==
    ~Dotted(s) =>
        /\ pc = "walk" => Names(s) # NoDir /\ Names(d) = Names(s)
        /\ pc = "unify" /\ i > Len(s) => Names(s) # NoDir

(***************************************************************************)
(* Whatever detour over READ_LINK it takes, a program gets the object its  *)
(* name means, or the error of that name: never another object, and no     *)
(* error for an object that is there.                                      *)
(***************************************************************************)
LocateExact ==
    pc = "stop" /\ first.op = "LOCATE" /\ child = NoDir /\ ~failed /\ ~Dotted(first.path)
                /\ ~TooLong(first.path) /\ res # "LINE_TOO_LONG" =>
        IF "obj" \in DOMAIN Meant THEN res = "located" /\ dir = Meant.obj
        ELSE IF Meant.error = "outside"
        THEN res \in {"OBJECT_NOT_FOUND", "INVALID_COMPONENT_NAME"}
        ELSE res = Meant.error

(***************************************************************************)
(* ACTION_PARENT gives the directory that holds the object, computed from  *)
(* the name of the lock alone.                                             *)
(***************************************************************************)
ParentExact ==
    pc = "stop" /\ child # NoDir /\ ~failed /\ ~Dotted(first.path) =>
        res = "located" /\ dir = Front(child)

(***************************************************************************)
(* A new entry gets the name, and is made in the directory, that the path  *)
(* means; one that is there already is never made anew.                    *)
(***************************************************************************)
MadeExact ==
    pc = "stop" /\ res = "made" /\ ~Dotted(first.path) =>
        /\ MeantNames \notin {NoDir, <<>>}
        /\ Resolve(<<>>, Front(MeantNames), 0) = [obj |-> Front(dir)]
        /\ Last(dir) = Last(MeantNames)
        /\ TypeOf(dir) = "none"

(* Every request ends: the text is consumed and only so many links are     *)
(* followed, a link to itself included.                                    *)
RequestEnds == <>(pc \in {"stop", "wild"})

\* fn_PathUnify gives the name that is meant, in its memory and without empty
\* components.
UnifySound == TypeOK /\ UnifyFits /\ ScanLegal /\ UnifyExact

\* Every request is answered by the object, parent or link text it asks for.
AnswerExact == LocateExact /\ ParentExact /\ MadeExact /\ LinkFits
=============================================================================
