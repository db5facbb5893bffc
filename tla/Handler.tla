------------------------------ MODULE Handler -------------------------------
(***************************************************************************)
(* The handler process (nfs_handler.c): startup with a failure at every    *)
(* step, the loop that waits for packets, ARexx commands and CTRL-C, the   *)
(* dispatch of a packet (actions.c), the credentials under which RPCs run  *)
(* (cred.c), the sync timer (timer.c), run-time control (iocontrol.c,      *)
(* simplerexx.c), and the way out.                                         *)
(*                                                                         *)
(* Of a packet's own work only what dispatch, credentials and shutdown     *)
(* depend on is kept: open handles, buffered bytes with the user who wrote *)
(* them, and the creation mask of a new object.  The build is the one of   *)
(* nfs_handler.h: NO_DEVICE, no DEBUG.                                     *)
(***************************************************************************)
EXTENDS Integers, SequencesExt, FiniteSets

CONSTANTS
    Programs,            \* tasks that send packets
    Self,                \* the handler's own task
    None,
    Credentials,         \* what getcredentials gives: [uid, umask], or None
    InitCreds, NewCreds, \* a task's credentials at first and after a change
    UserUid,             \* uid of the one user name the password file knows
    UserGroups,          \* number of groups that name this user
    DefaultUMask,        \* CR_DEFAULT_UMASK
    Actions,             \* packet types the programs send
    Commands,            \* ARexx commands
    MaxHandles,          \* bounds open locks and file handles
    MaxMasks             \* bounds the masks a task has in the run

AllCommands == {"GET", "SET", "SET_USER", "SET_UMASK", "SET_USER_unknown",
                "SET_without_value", "unknown"}

ASSUME HandlerAssumption ==
    /\ {Self, None, "timer", "rexx"} \cap Programs = {} /\ Self # None
    /\ UserUid # None /\ \A p \in Programs : NewCreds[p] # None
    /\ {InitCreds, NewCreds} \subseteq [Programs \cup {Self} -> Credentials]
    /\ Actions \subseteq Nat /\ Commands \subseteq AllCommands
    /\ MaxHandles \in Nat /\ MaxMasks \in Nat /\ UserGroups \in Nat

VARIABLES
    pc,                  \* where main is
    step,                \* the step of the startup
    held,                \* what has been opened or allocated and not given back
    TimerUp,             \* its value is undefined until main assigns it
    timer,               \* the timer request: "none", at the device, in the port, taken
    port,                \* senders of the messages in g_Port
    rexx,                \* number of messages in the ARexx port
    signals,             \* signals set for the handler's task
    cur, msg, func,      \* sender and content of the message, its function
    creds,               \* the credentials of the tasks
    masks,               \* history: the masks a task has had
    cr,                  \* g_Creds
    cl_auth,             \* uid in the authenticator of g_NFSClnt
    reset,               \* history: the user was set at run time
    handles,             \* locks and file handles
    wbuf,                \* users who wrote the bytes now in write buffers
    sent,                \* what the last step wrote: writer and uid of the RPC
    made,                \* what the last step created: its program and mask
    protected,           \* GF_IS_WRITE_PROTECTED
    owed                 \* messages sent and not answered, by sender

proc == <<pc, step, held, TimerUp>>
auth == <<cr, cl_auth, reset>>
data == <<handles, wbuf, protected>>
input == <<timer, port, rexx, signals, owed>>
world == <<creds, masks>>
now == <<cur, msg, func>>
vars == <<proc, auth, data, input, world, now, sent, made>>

Tasks == Programs \cup {Self}
Uids == {c.uid : c \in Credentials \ {None}} \cup {UserUid}
UMasks == {c.umask : c \in Credentials \ {None}} \cup {DefaultUMask, "set"}

TIMER == 30
IOCONTROL == 142

\* What the message of a sender can hold; chosen when it is dispatched.  An
\* ARexx command is masked as a packet (g_IntPkt).
Content(sender) ==
    CASE sender = "timer" -> [action : {TIMER}, text : {None}]
      [] sender = "rexx" -> [action : {IOCONTROL}, text : Commands]
      [] OTHER -> [action : Actions, text : {None}]

Senders == Programs \cup {"timer", "rexx"}

-----------------------------------------------------------------------------
(* The action table and its index of blocks.                               *)

\* The function of each packet type; a place holder, OB, UN or NI is Unknown.
ActionTable ==
    LET U == "Unknown"
    IN  <<<<5, "DIE">>, <<6, U>>, <<7, "CURRENT_VOLUME">>, <<8, "LOCATE_OBJECT">>,
          <<9, "RENAME_DISK">>, <<10, U>>, <<11, U>>, <<12, U>>, <<13, U>>, <<14, U>>,
          <<15, "FREE_LOCK">>, <<16, "DELETE_OBJECT">>, <<17, "RENAME_OBJECT">>,
          <<18, "MORE_CACHE">>, <<19, "COPY_DIR">>, <<20, U>>, <<21, "SET_PROTECT">>,
          <<22, "CREATE_DIR">>, <<23, "EXAMINE_OBJECT">>, <<24, "EXAMINE_NEXT">>,
          <<25, "DISK_INFO">>, <<26, "INFO">>, <<27, "FLUSH">>, <<28, U>>,
          <<29, "PARENT">>, <<30, "TIMER">>, <<31, U>>, <<32, U>>, <<33, U>>,
          <<34, "SET_DATE">>, <<40, "SAME_LOCK">>, <<82, "READ">>, <<87, "WRITE">>,
          <<142, "IOCONTROL">>, <<1001, U>>, <<1002, U>>, <<1003, U>>,
          <<1004, "FINDUPDATE">>, <<1005, "FINDINPUT">>, <<1006, "FINDOUTPUT">>,
          <<1007, "END">>, <<1008, "SEEK">>, <<1020, U>>, <<1021, "MAKE_LINK">>,
          <<1022, "SET_FILE_SIZE">>, <<1023, "WRITE_PROTECT">>, <<1024, "READ_LINK">>,
          <<1025, U>>, <<1026, "FH_FROM_LOCK">>, <<1027, "IS_FILESYSTEM">>,
          <<1028, "CHANGE_MODE">>, <<1029, U>>, <<1030, "COPY_DIR_FH">>,
          <<1031, "PARENT_FH">>, <<1032, U>>, <<1033, "EXAMINE_ALL">>,
          <<1034, "EXAMINE_FH">>, <<1035, U>>, <<1036, "SET_OWNER">>, <<2008, U>>,
          <<2009, U>>, <<2346, "CREATE_OBJECT">>, <<2347, U>>,
          <<2348, "GET_ATTRIBUTES">>, <<4097, U>>, <<4098, U>>, <<4200, U>>>>

\* WF: refused while the volume is write protected.  INTF: only TIMER.
WriteFlag == {"RENAME_DISK", "DELETE_OBJECT", "RENAME_OBJECT", "SET_PROTECT",
              "CREATE_DIR", "SET_DATE", "WRITE", "FINDOUTPUT", "MAKE_LINK",
              "SET_FILE_SIZE", "SET_OWNER", "CREATE_OBJECT"}

\* act_Init: a block for every run of consecutive numbers.  ati_Index counts
\* from 1 here.
FirstOfRun(i) == i = 1 \/ ActionTable[i][1] # ActionTable[i - 1][1] + 1

LastOfRun(i) ==
    CHOOSE j \in i .. Len(ActionTable) :
        /\ \A k \in i + 1 .. j : ~FirstOfRun(k)
        /\ j = Len(ActionTable) \/ FirstOfRun(j + 1)

NewBlock(i) ==
    [low |-> ActionTable[i][1], high |-> ActionTable[LastOfRun(i)][1], index |-> i]

ATIndex == {NewBlock(i) : i \in {k \in DOMAIN ActionTable : FirstOfRun(k)}}

\* Where the mark at the end of the index, which has index -1, begins.
EndMark == Last(ActionTable)[1] + 1

\* act_Init fails when the table does not ascend or its index overflows: the
\* mark takes the twelfth entry at most.
act_Init ==
    /\ \A i \in 2 .. Len(ActionTable) : ActionTable[i - 1][1] < ActionTable[i][1]
    /\ Cardinality(ATIndex) + 1 <= 12

\* The blocks act_Lookup passes, and the last one of them.
Passed(action) == {b \in ATIndex : b.low <= action}
LastPassed(action) ==
    CHOOSE b \in Passed(action) : \A c \in Passed(action) : c.low <= b.low

\* Mutant: the end of a block is not tested.
LookupNoEnd(action) ==
    LET b == LastPassed(action)
    IN  IF action >= EndMark \/ Passed(action) = {} THEN "none"
        ELSE ActionTable[b.index + (action - b.low)][2]

\* act_Lookup: the function for a packet type, "none" when it is not there.
act_Lookup(action) ==
    LET b == LastPassed(action)
    IN  IF action >= EndMark \/ Passed(action) = {} \/ action > b.high
        THEN "none"
        ELSE ActionTable[b.index + (action - b.low)][2]

-----------------------------------------------------------------------------
(* Credentials.                                                            *)

Creds0 == [user |-> None, fixed |-> FALSE, umask |-> None, uid |-> None,
           auth |-> None, cache |-> None, cacheU |-> None]

cr_InvalidateCache(c) == [c EXCEPT !.cache = None, !.cacheU = None]

cr_SetUser(c, uid) == [c EXCEPT !.user = uid, !.uid = uid, !.cache = None]

cr_SetUMask(c) == [c EXCEPT !.fixed = TRUE, !.umask = "set", !.cacheU = None]

cr_UpdateCreds(c, client) ==
    IF c.fixed \/ client = c.cacheU THEN c
    ELSE IF creds[client] = None
         THEN [c EXCEPT !.umask = DefaultUMask, !.cacheU = None]
         ELSE [c EXCEPT !.umask = creds[client].umask, !.cacheU = client]

NGROUPS == 32

\* More groups than the authenticator has room for are an error.
cr_getgroups == IF UserGroups > NGROUPS THEN -1 ELSE UserGroups

\* The uid an authenticator for this client gets, None if it cannot be known.
AuthUid(c, client) ==
    IF c.user # None THEN IF cr_getgroups >= 0 THEN c.user ELSE None
    ELSE IF creds[client] = None THEN None ELSE creds[client].uid

\* cr_SetAuth when authunix_create succeeds.
cr_SetAuth(c, client) ==
    IF c.user # None
    THEN [c EXCEPT !.auth = c.user, !.uid = c.user, !.cache = None]
    ELSE [c EXCEPT !.auth = creds[client].uid, !.uid = creds[client].uid,
                   !.cache = client]

UidChanged(c, client) == creds[client] # None /\ creds[client].uid # c.uid

cr_AuthNeedsUpdate(c, client) ==
    \/ c.auth = None
    \/ c.user = None /\ (client # c.cache \/ UidChanged(c, client))

\* cr_AuthNeedsUpdate empties the caches when the client's uid has changed.
AfterCheck(c, client) ==
    IF c.auth # None /\ c.user = None /\ client = c.cache /\ UidChanged(c, client)
    THEN cr_InvalidateCache(c) ELSE c

-----------------------------------------------------------------------------
(* Flushing, replying and the timer.                                       *)

\* What a flush with an authenticator writes.  A flush that fails drops the
\* bytes (module WriteCache).
Written(users) == {[writer |-> u, as |-> cl_auth] : u \in users}

act_FLUSH ==
    /\ wbuf' = {}
    /\ \E users \in SUBSET wbuf : sent' = Written(users)

NoData == sent' = {} /\ made' = None

G_ReplyPkt(sender) == owed' = [owed EXCEPT ![sender] = @ - 1]

\* Whether it succeeded or not, the message of a command goes back once.
ReplyARexxMsg == G_ReplyPkt("rexx")

Done == cur' = None /\ msg' = None /\ func' = "none"

\* Mutant: the timer runs once.
TimerOnce == timer' = "none"

ti_StartTimer == timer' = "device"

TimerParts == {"st_Pkt", "st_Req", "timer"}

\* What ti_Cleanup leaves of h: the device is closed only when packet and
\* request are both there.
WithoutTimer(h) == IF {"st_Pkt", "st_Req"} \subseteq h THEN h \ TimerParts ELSE h \ {"st_Pkt", "st_Req"}

\* ti_Cleanup: a request under way is aborted and waited for, which also takes
\* its message from the port.
ti_Cleanup ==
    /\ timer' = IF "timer" \in held THEN "none" ELSE timer
    /\ port' = IF "timer" \in held
               THEN RemoveFirst(port, "timer") ELSE port
    /\ held' = WithoutTimer(held)

-----------------------------------------------------------------------------
(* Startup.                                                                *)

Startup == <<"strings", "utility", "volume", "port", "attrs", "dircache", "timer",
             "rexx", "mbufs", "wbufs", "act_Init", "mntclnt", "mntauth", "mounted",
             "nfsclnt", "auth", "rootattr", "notmounted", "inlist">>

\* Steps that leave nothing behind.
Checks == {"act_Init", "auth", "rootattr", "notmounted"}

\* What the steps that allocate more than one thing allocate, in this order.
attrs_Init == <<"attrs", "attrlists">>
dc_Init == <<"dircache", "dirlists">>
ti_Init == <<"st_Pkt", "st_Req", "timer">>
InitARexx == <<"RexxContext", "rexxsyslib", "rexx">>
clntaudp_bufcreate == <<"cla_clnt", "mcu_data", "mcu_outbuf", "nfsclnt">>

Parts(s) ==
    CASE s = "attrs" -> attrs_Init [] s = "dircache" -> dc_Init [] s = "timer" -> ti_Init
      [] s = "rexx" -> InitARexx [] s = "nfsclnt" -> clntaudp_bufcreate [] OTHER -> <<s>>

\* The parts there can be when a step fails: those before the one that is
\* missing; ti_Init asks for the request even when it got no packet.
Got(s) ==
    {ToSet(SubSeq(Parts(s), 1, n)) : n \in 0 .. Len(Parts(s)) - 1}
        \cup (IF s = "timer" THEN {{"st_Req"}} ELSE {})

\* fthash_New gives its table back; fthash_Delete both.
WithoutTable(h, s) == IF s \in h THEN h \ ToSet(Parts(s)) ELSE h

\* What FreeARexx leaves, also of a context without library or port.
WithoutARexx(h) == IF "RexxContext" \in h THEN h \ ToSet(InitARexx) ELSE h

\* The label fooy of clntaudp_bufcreate.
fooy(h) == (IF "mcu_data" \in h THEN h \ {"mcu_data", "mcu_outbuf"} ELSE h) \ {"cla_clnt"}

\* What a step that has got these parts leaves when it fails.
Undo(s, got) ==
    CASE s \in {"attrs", "dircache"} -> WithoutTable(got, s)
      [] s = "timer" -> WithoutTimer(got)
      [] s = "rexx" -> WithoutARexx(got)
      [] s = "nfsclnt" -> fooy(got)
      [] OTHER -> got

\* An argument that is wrong, or no memory for a copy of one: nothing is freed.
EarlyExit ==
    /\ pc' = "stopped" /\ held' \in {{}, {"strings"}}
    /\ UNCHANGED <<step, cr>>

\* ParseArgs, after cr_Init.  User name and mask are optional.
ParseArgs ==
    /\ Startup[step] = "strings"
    /\ \/ /\ pc' = "startup" /\ step' = step + 1 /\ held' = {"strings"}
          /\ cr' \in {cr, cr_SetUser(cr, UserUid), cr_SetUMask(cr),
                      cr_SetUMask(cr_SetUser(cr, UserUid))}
       \/ EarlyExit
    /\ UNCHANGED <<TimerUp, timer, cl_auth>>

NextStep(s) ==
    /\ pc' = IF step = Len(Startup) THEN "getmsg" ELSE "startup"
    /\ step' = IF step = Len(Startup) THEN step ELSE step + 1
    /\ TimerUp' = IF s = "wbufs" THEN 1 ELSE TimerUp

\* A step of G_Init, act_Init, G_Mount or the dos list that succeeds.
StepSucceeds(s) ==
    /\ s = "act_Init" => act_Init
    /\ NextStep(s)
    /\ held' = IF s \in Checks THEN held ELSE held \cup ToSet(Parts(s))
    /\ timer' = IF s = "timer" THEN "device" ELSE timer
    /\ IF s = "auth"
       THEN /\ AuthUid(cr, Self) # None
            /\ cr' = cr_SetAuth(cr, Self) /\ cl_auth' = cr'.auth
       ELSE UNCHANGED <<cr, cl_auth>>

\* A step that fails.  Missing buffers or headers are only reported, and the
\* empty pools go on as any others ("mbufs", "wbufs").  When the client itself
\* cannot be allocated, clntaudp_bufcreate frees what the uninitialised cu
\* happens to point to.
StepFails(s) ==
    /\ s = "act_Init" => ~act_Init
    /\ s \notin {"mbufs", "wbufs"}
    /\ \E got \in Got(s) : held' = held \cup Undo(s, got)
    /\ pc' \in {"exit"} \cup (IF s = "nfsclnt" THEN {"wild"} ELSE {})
    /\ UNCHANGED <<step, TimerUp, timer, cr, cl_auth>>

StartupStep ==
    /\ pc = "startup"
    /\ \/ ParseArgs
       \/ /\ Startup[step] # "strings"
          /\ StepSucceeds(Startup[step]) \/ StepFails(Startup[step])
    /\ NoData
    /\ UNCHANGED <<reset, data, port, rexx, signals, owed, world, now>>

-----------------------------------------------------------------------------
(* The main loop: G_WaitPkt.                                               *)

Handle(sender) == cur' = sender /\ pc' = "dispatch"

GetMsg ==
    /\ Handle(Head(port)) /\ port' = Tail(port)
    /\ timer' = IF Head(port) = "timer" THEN "taken" ELSE timer
    /\ UNCHANGED rexx

GetARexxMsg ==
    /\ Handle("rexx") /\ rexx' = rexx - 1
    /\ UNCHANGED <<port, timer>>

NothingFound(next) == pc' = next /\ UNCHANGED <<cur, port, rexx, timer>>

LookForPkt ==
    /\ pc = "getmsg"
    /\ IF port # <<>> THEN GetMsg ELSE NothingFound("getrexx")
    /\ UNCHANGED signals

LookForCommand ==
    /\ pc = "getrexx"
    /\ IF rexx > 0 THEN GetARexxMsg ELSE NothingFound("wait")
    /\ UNCHANGED signals

\* Mutant: after a signal without message the ports are not looked at again.
WaitAgain ==
    /\ pc = "wait" /\ signals # {}
    /\ signals' = {}
    /\ IF "ctrl_c" \in signals THEN NothingFound("break")
       ELSE IF "rexx" \in signals
            THEN IF rexx > 0 THEN GetARexxMsg ELSE NothingFound("wait")
            ELSE IF port # <<>> THEN GetMsg ELSE NothingFound("wait")

\* Wait() clears the signals it returns; a message that came since the ports
\* were looked at has left its signal.
Wait ==
    /\ pc = "wait" /\ signals # {}
    /\ signals' = {}
    /\ IF "ctrl_c" \in signals THEN NothingFound("break")
       ELSE IF "rexx" \in signals
            THEN IF rexx > 0 THEN GetARexxMsg ELSE NothingFound("getmsg")
            ELSE IF port # <<>> THEN GetMsg ELSE NothingFound("getmsg")

G_WaitPkt ==
    /\ LookForPkt \/ LookForCommand \/ Wait
    /\ NoData
    /\ UNCHANGED <<step, held, TimerUp, auth, data, owed, world, msg, func>>

-----------------------------------------------------------------------------
(* Dispatch.                                                               *)

IsCommand == cur = "rexx"

\* act_Prepare, the test for the write protection included.
act_Prepare(m) ==
    LET f == act_Lookup(m.action)
    IN  IF protected /\ f \in WriteFlag THEN "IS_WRITE_PROTECTED" ELSE f

\* Internal packets, control packets and unknown ones do not touch the
\* credentials.
KeepsCreds(f) == f \in {"TIMER", "IOCONTROL", "none"}

Dispatch ==
    /\ pc = "dispatch"
    /\ msg' \in Content(cur) /\ func' = act_Prepare(msg')
    /\ IF KeepsCreds(func')
       THEN pc' = "exec" /\ UNCHANGED cr
       ELSE LET c == cr_UpdateCreds(cr, cur)
            IN  /\ cr' = AfterCheck(c, cur)
                /\ pc' = IF cr_AuthNeedsUpdate(c, cur) THEN "reauth" ELSE "exec"
    /\ NoData
    /\ UNCHANGED <<step, held, TimerUp, cl_auth, reset, data, input, world, cur>>

\* Mutant: the buffers are kept when the authenticator changes.
KeepBuffers == UNCHANGED wbuf /\ NoData

\* Buffered bytes go out under the old authenticator; a packet whose
\* authenticator cannot be made is answered with an error.
FlushOld == act_FLUSH /\ made' = None

NewAuth == cr' = cr_SetAuth(cr, cur) /\ cl_auth' = cr'.auth

Reauthenticate ==
    /\ pc = "reauth"
    /\ FlushOld
    /\ \/ /\ AuthUid(cr, cur) # None
          /\ NewAuth /\ pc' = "exec"
          /\ UNCHANGED <<owed, now>>
       \/ /\ G_ReplyPkt(cur) /\ pc' = "getmsg" /\ Done
          /\ UNCHANGED <<cr, cl_auth>>
    /\ UNCHANGED <<step, held, TimerUp, reset, handles, protected, timer, port, rexx,
                   signals, world>>

-----------------------------------------------------------------------------
(* The packets.                                                            *)

\* Who the server should see behind the current packet.
Writer == IF cr.user # None THEN cr.user ELSE creds[cur].uid

act_WRITE ==
    /\ func = "WRITE" /\ handles > 0
    /\ \/ wbuf' = wbuf \cup {Writer} /\ sent' = {}
       \/ \E users \in SUBSET wbuf :
             wbuf' = {} /\ sent' = Written(users \cup {Writer})
    /\ made' = None /\ UNCHANGED <<handles, protected>>

act_FINDINPUT ==
    /\ func = "FINDINPUT" /\ handles < MaxHandles
    /\ handles' = handles + 1
    /\ NoData /\ UNCHANGED <<wbuf, protected>>

\* END flushes the bytes of its handle.
act_END ==
    /\ func = "END" /\ handles > 0
    /\ handles' = handles - 1
    /\ IF handles = 1 THEN act_FLUSH
       ELSE act_FLUSH \/ (sent' = {} /\ UNCHANGED wbuf)
    /\ made' = None /\ UNCHANGED protected

act_CREATE_DIR ==
    /\ func = "CREATE_DIR"
    /\ made' = [program |-> cur, umask |-> cr.umask]
    /\ sent' = {[writer |-> Writer, as |-> cl_auth]}
    /\ UNCHANGED data

\* Locking twice and unlocking with another key fail.
act_WRITE_PROTECT ==
    /\ func = "WRITE_PROTECT"
    /\ protected' \in BOOLEAN
    /\ NoData /\ UNCHANGED <<handles, wbuf>>

act_FLUSH_packet ==
    /\ func = "FLUSH"
    /\ act_FLUSH /\ made' = None /\ UNCHANGED <<handles, protected>>

\* Packets that fail or do not matter here.
NoEffect ==
    /\ \/ func \in {"none", "Unknown", "IOCONTROL", "TIMER", "IS_WRITE_PROTECTED"}
       \/ func \in {"WRITE", "END"} /\ handles = 0
       \/ func = "FINDINPUT"
       \/ func = "DIE" /\ handles > 0
    /\ NoData /\ UNCHANGED data

Exec ==
    /\ pc = "exec" /\ ~IsCommand /\ cur # "timer" /\ ~(func = "DIE" /\ handles = 0)
    /\ \/ act_WRITE \/ act_FINDINPUT \/ act_END \/ act_CREATE_DIR
       \/ act_WRITE_PROTECT \/ act_FLUSH_packet \/ NoEffect
    /\ G_ReplyPkt(cur)
    /\ pc' = "getmsg" /\ Done
    /\ UNCHANGED <<step, held, TimerUp, auth, timer, port, rexx, signals, world>>

\* ACTION_DIE and CTRL-C end the loop when nothing is open.
act_DIE ==
    /\ handles = 0
    /\ \/ pc = "exec" /\ func = "DIE" /\ G_ReplyPkt(cur)
       \/ pc = "break" /\ UNCHANGED owed
    /\ act_FLUSH /\ made' = None
    /\ pc' = "cleanup" /\ Done
    /\ UNCHANGED <<step, held, TimerUp, auth, handles, protected, timer, port, rexx,
                   signals, world>>

IgnoreBreak ==
    /\ pc = "break" /\ handles > 0
    /\ pc' = "getmsg"
    /\ NoData
    /\ UNCHANGED <<step, held, TimerUp, auth, data, input, world, now>>

\* act_TIMER on the handler's own packet: no reply, the request goes out again.
act_TIMER ==
    /\ pc = "exec" /\ cur = "timer"
    /\ act_FLUSH /\ made' = None
    /\ ti_StartTimer
    /\ pc' = "getmsg" /\ Done
    /\ UNCHANGED <<step, held, TimerUp, auth, handles, protected, port, rexx, signals,
                   owed, world>>

\* act_IOCONTROL on an ARexx command.  GET and the settings of other modules
\* change nothing here.
act_IOCONTROL ==
    /\ pc = "exec" /\ IsCommand
    /\ cr' = CASE msg.text = "SET_USER" -> cr_SetUser(cr, UserUid)
               [] msg.text = "SET_UMASK" -> cr_SetUMask(cr)
               [] OTHER -> cr
    /\ reset' = (reset \/ msg.text = "SET_USER")
    /\ ReplyARexxMsg
    /\ pc' = "getmsg" /\ Done
    /\ NoData
    /\ UNCHANGED <<step, held, TimerUp, cl_auth, data, timer, port, rexx, signals,
                   world>>

-----------------------------------------------------------------------------
(* The way out.                                                            *)

StopTimer ==
    /\ pc = "cleanup"
    /\ ti_Cleanup /\ TimerUp' = 0 /\ pc' = "remove"
    /\ UNCHANGED <<rexx, owed>>

RemDosEntry ==
    /\ pc = "remove"
    /\ held' = held \ {"inlist"} /\ pc' = "drain"
    /\ UNCHANGED <<TimerUp, timer, port, rexx, owed>>

\* Mutant: packets still in the port are not answered.
DrainNothing ==
    /\ pc = "drain" /\ pc' = "exit"
    /\ UNCHANGED <<held, TimerUp, timer, port, rexx, owed>>

\* What G_GetPkt takes from the port until it is empty, by sender.
G_GetPkts(p) == Cardinality({i \in DOMAIN port : port[i] = p})

\* With interrupts disabled, every packet in the port is answered.
DrainPort ==
    /\ pc = "drain"
    /\ owed' = [p \in DOMAIN owed |-> owed[p] - G_GetPkts(p)]
    /\ port' = <<>> /\ pc' = "exit"
    /\ UNCHANGED <<held, TimerUp, timer, rexx>>

RemoveTimer ==
    /\ pc = "exit"
    /\ IF TimerUp # 0 THEN ti_Cleanup ELSE UNCHANGED <<held, timer, port>>
    /\ pc' = "unmount"
    /\ UNCHANGED <<TimerUp, rexx, owed>>

\* clntaudp_destroy: the socket and all memory of the client.
clntaudp_destroy(h) == IF "nfsclnt" \in h THEN h \ ToSet(clntaudp_bufcreate) ELSE h

G_UnMount ==
    /\ pc = "unmount"
    /\ held' = clntaudp_destroy(IF "mntclnt" \in held
                                THEN held \ {"mounted", "mntauth", "mntclnt"} ELSE held)
    /\ pc' = "closerexx"
    /\ UNCHANGED <<TimerUp, timer, port, rexx, owed>>

\* FreeARexx answers what is left after it has hidden its port.
HidePort == pc = "closerexx" /\ pc' = "freerexx" /\ UNCHANGED <<held, rexx, owed>>

AnswerDead ==
    /\ pc = "freerexx" /\ rexx > 0
    /\ rexx' = rexx - 1 /\ ReplyARexxMsg
    /\ UNCHANGED <<pc, held>>

\* What G_CleanUp calls; the tables are there if their step of the startup
\* succeeded.
mb_FreeMBufs(h) == h \ {"mbufs"}
wc_FreeWBufs(h) == h \ {"wbufs"}
attrs_Cleanup(h) == WithoutTable(h, "attrs")
dc_Cleanup(h) == WithoutTable(h, "dircache")

FreeRest ==
    /\ pc = "freerexx" /\ rexx = 0
    /\ pc' = "stopped"
    /\ held' = dc_Cleanup(attrs_Cleanup(WithoutARexx(wc_FreeWBufs(mb_FreeMBufs(held)))))
                 \ {"port", "volume", "strings", "utility"}
    /\ UNCHANGED <<rexx, owed>>

G_CleanUp ==
    /\ HidePort \/ AnswerDead \/ FreeRest
    /\ UNCHANGED <<TimerUp, timer, port>>

Shutdown ==
    /\ \/ StopTimer \/ RemDosEntry \/ DrainPort \/ RemoveTimer \/ G_UnMount \/ G_CleanUp
    /\ NoData
    /\ UNCHANGED <<step, auth, data, signals, world, now>>

-----------------------------------------------------------------------------
(* The handler's environment.  While the handler is busy with one message  *)
(* it looks neither at the ports nor at the credentials of other tasks: an *)
(* event that comes then is one that comes right after.  The timer fires  *)
(* at any time.                                                            *)

Busy == pc \in {"dispatch", "reauth", "exec", "break"}

\* A program finds the port through the volume.  One that had found it when
\* the volume was removed sends before the port is drained: "let the dust
\* settle".
Send(p) ==
    /\ ~Busy /\ ("inlist" \in held \/ pc = "drain")
    /\ owed[p] = 0
    /\ port' = Append(port, p)
    /\ owed' = [owed EXCEPT ![p] = 1]
    /\ signals' = signals \cup {"port"}
    /\ NoData
    /\ UNCHANGED <<proc, auth, data, timer, rexx, world, now>>

\* The ARexx port can be found from its creation until FreeARexx hides it.
SendCommand ==
    /\ ~Busy /\ "rexx" \in held /\ pc # "freerexx"
    /\ owed["rexx"] = 0
    /\ rexx' = rexx + 1
    /\ owed' = [owed EXCEPT !["rexx"] = 1]
    /\ signals' = signals \cup {"rexx"}
    /\ NoData
    /\ UNCHANGED <<proc, auth, data, timer, port, world, now>>

\* Only Wait looks at signals: one that comes earlier is one that comes here.
CtrlC ==
    /\ pc = "wait" /\ "ctrl_c" \notin signals
    /\ signals' = signals \cup {"ctrl_c"}
    /\ NoData
    /\ UNCHANGED <<proc, auth, data, timer, port, rexx, owed, world, now>>

TimerFires ==
    /\ timer = "device" /\ "port" \in held
    /\ timer' = "port" /\ port' = Append(port, "timer")
    /\ signals' = signals \cup {"port"}
    /\ NoData
    /\ UNCHANGED <<proc, auth, data, rexx, owed, world, now>>

\* A program that waits for no answer changes its credentials, or another
\* task takes over its address.
ChangeCreds(p) ==
    /\ ~Busy /\ owed[p] = 0
    /\ \A r \in Programs : Cardinality(masks[r]) < MaxMasks
    /\ creds' = [creds EXCEPT ![p] = NewCreds[p]]
    /\ masks' = [masks EXCEPT ![p] = @ \cup {NewCreds[p].umask}]
    /\ NoData
    /\ UNCHANGED <<proc, auth, data, input, now>>

-----------------------------------------------------------------------------

Init ==
    /\ pc = "startup" /\ step = 1 /\ held = {}
    /\ TimerUp \in {0, 1}
    /\ timer = "none" /\ port = <<>> /\ rexx = 0 /\ signals = {}
    /\ cur = None /\ msg = None /\ func = "none"
    /\ creds = InitCreds
    /\ masks = [p \in Programs |-> IF creds[p] = None THEN {DefaultUMask}
                                   ELSE {creds[p].umask}]
    /\ cr = Creds0 /\ cl_auth = None /\ reset = FALSE
    /\ handles = 0 /\ wbuf = {} /\ sent = {} /\ made = None /\ protected = FALSE
    /\ owed = [p \in Senders |-> 0]

HandlerStep ==
    StartupStep \/ G_WaitPkt \/ Dispatch \/ Reauthenticate \/ Exec \/ act_DIE
        \/ IgnoreBreak \/ act_TIMER \/ act_IOCONTROL \/ Shutdown

Environment ==
    \/ SendCommand \/ CtrlC \/ TimerFires
    \/ \E p \in Programs : Send(p) \/ ChangeCreds(p)

Next == HandlerStep \/ Environment

\* The handler is a task of its own and the timer device answers.
Spec == Init /\ [][Next]_vars /\ WF_vars(HandlerStep) /\ WF_vars(TimerFires)

-----------------------------------------------------------------------------
(* Properties.                                                             *)

\* Every variable has its type; nobody is answered twice.
TypeOK ==
    /\ pc \in {"startup", "getmsg", "getrexx", "wait", "break", "dispatch", "reauth",
               "exec", "cleanup", "remove", "drain", "exit", "unmount", "closerexx",
               "freerexx", "stopped", "wild"}
    /\ step \in DOMAIN Startup
    /\ held \subseteq UNION {ToSet(Parts(Startup[k])) : k \in DOMAIN Startup}
    /\ TimerUp \in {0, 1}
    /\ timer \in {"none", "device", "port", "taken"}
    /\ ToSet(port) \subseteq Programs \cup {"timer"} /\ rexx \in 0..1
    /\ signals \subseteq {"port", "rexx", "ctrl_c"}
    /\ cur \in Senders \cup {None} /\ (msg = None \/ msg \in Content(cur))
    /\ creds \in [Tasks -> Credentials]
    /\ cr \in [user : {None, UserUid}, fixed : BOOLEAN, umask : UMasks \cup {None},
               uid : Uids \cup {None}, auth : Uids \cup {None},
               cache : Tasks \cup {None}, cacheU : Tasks \cup {None}]
    /\ cl_auth \in Uids \cup {None}
    /\ handles \in 0..MaxHandles
    /\ wbuf \subseteq Uids /\ sent \subseteq [writer : Uids, as : Uids]
    /\ protected \in BOOLEAN
    /\ owed \in [Senders -> 0..1] /\ owed["timer"] = 0

\* Bytes a program wrote reach the server under that program's user, however
\* long they were buffered and whoever sent packets since; with a user given
\* at the start, under that user.  (SET USER at run time leaves the old
\* authenticator in place.)
WrittenAsOwner == ~reset => \A s \in sent : s.as = s.writer

\* A new object gets a mask its own program has had, never that of the
\* program served before, unless UMASK was set.
UMaskOwn ==
    made # None => \/ made.umask \in masks[made.program]
                   \/ cr.fixed /\ made.umask = "set"

\* The index of blocks finds for every packet type the function the action
\* table has for it, and nothing for a type that is not in it.
DispatchExact ==
    TypeOK /\ (pc = "exec" =>
        LET found == {i \in DOMAIN ActionTable : ActionTable[i][1] = msg.action}
        IN  IF found = {} THEN func = "none"
            ELSE \A i \in found :
                    func \in {ActionTable[i][2]}
                             \cup (IF ActionTable[i][2] \in WriteFlag
                                   THEN {"IS_WRITE_PROTECTED"} ELSE {}))

\* Wherever the startup fails and however the loop ends, everything is given
\* back and the mount is undone.  Two ways out are excepted: an early exit
\* keeps the strings, and when the ARexx port cannot be opened TimerUp has
\* no value and the timer may be left running.
NothingLeft ==
    pc = "stopped" =>
        \/ held = {} /\ timer = "none"
        \/ Startup[step] = "strings" /\ held = {"strings"}
        \/ Startup[step] = "rexx" /\ TimerUp = 0 /\ held = TimerParts

\* When the handler is gone nobody waits for an answer from it.
NobodyWaits == pc = "stopped" => \A p \in DOMAIN owed : owed[p] = 0

\* Every packet is answered: no signal is lost between the look at the ports
\* and the wait, and shutdown answers what is left.
EveryPacketAnswered == \A p \in Programs : owed[p] = 1 ~> owed[p] = 0

\* A command is answered unless packets keep the handler from ever looking
\* at the ARexx port.
CommandAnswered == <>[](owed["rexx"] = 1) => <>[](pc # "getrexx")

\* Buffered bytes leave without any packet of a program: the timer comes
\* back after every flush, whatever else happens.
DataLeaves == wbuf # {} ~> wbuf = {}

\* Everything a packet causes on the server happens in its sender's name: the
\* user of written bytes and the mask of new objects.
ActsForSender == WrittenAsOwner /\ UMaskOwn

\* The handler ends without anything left open and with nobody waiting.
CleanEnd == NothingLeft /\ NobodyWaits

\* Packets and commands are answered.
EveryoneAnswered == EveryPacketAnswered /\ CommandAnswered
=============================================================================
