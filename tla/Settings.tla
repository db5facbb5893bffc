------------------------------ MODULE Settings ------------------------------
(***************************************************************************)
(* The settings of a mount: the arguments (ParseArgs), their change at run *)
(* time by ARexx commands (act_IOCONTROL) and by ACTION_MORE_CACHE, and    *)
(* what depends on them: the pool of buffers, the limits and timeouts of   *)
(* the cache tables, the timeouts and pipeline depth of the RPC client.    *)
(* How memory is divided among pool and tables is DistributeBuffers.       *)
(* AttributesProofs extends this module and Attributes, the user of these  *)
(* caches; hence the names SettingsInit, SettingsNext, SettingsSpec.       *)
(***************************************************************************)
EXTENDS Integers, TLC

CONSTANTS
    Buffers,             \* values of the argument BUFFERS, also negative ones
    Args, Inputs,        \* numbers given as arguments, and to SET
    Counts,              \* numbers of buffers MORE_CACHE adds
    UMasks,              \* triples of digits given as UMASK
    Labels,              \* names of volumes
    MaxBuffers,          \* bound of g_NumBuffers after MORE_CACHE
    MaxCommands          \* bound of the commands that change something

\* BufMem is a LONG: 2^22 buffers would be two gigabytes.
ASSUME SettingsAssumption ==
    /\ Buffers \subseteq Int /\ \A n \in Buffers : -4194304 < n /\ n < 4194304
    /\ Args \subseteq Int /\ Inputs \subseteq Int /\ Counts \subseteq Int
    /\ UMasks \subseteq (0 .. 9) \X (0 .. 9) \X (0 .. 9)
    /\ MaxBuffers \in Nat /\ MaxBuffers < 4194304

VARIABLES
    numBuffers,          \* g_NumBuffers
    numMBufs,            \* g_NumMBufs, buffers in the pool
    missing,             \* history: buffers the start did not get for the pool
    attrMax, dirMax,     \* g_AttrCacheMaxEntries, g_DirCacheMaxEntries
    attrTable, dirTable, \* tht_MaxEntries and tht_TTL of the two tables
    attrTTL, dirTTL,     \* g_AttrCacheTimeout, g_DirCacheTimeout
    rpcTimeout,          \* g_RPCTimeout
    total, wait,         \* mcu_total, mcu_wait of the RPC client
    sizes,               \* ng_MaxReadSize, ng_MaxReadDirSize, ng_MaxWriteSize
    limit,               \* g_WriteBufferLimit
    slow, timeoutReq, async, \* flags
    numRPCs,             \* ng_NumRRPCs and ng_NumWRPCs
    umask, given,        \* the umask, and the digits it was given as
    label, volume,       \* dl_Name in the DOS list, g_VolumeName
    answer,              \* answer to the last command
    commands             \* number of commands that changed something

memory == <<numBuffers, numMBufs, missing, attrMax, dirMax>>
tables == <<attrTable, dirTable>>
timeouts == <<attrTTL, dirTTL>>
rpc == <<rpcTimeout, total, wait>>
flags == <<slow, timeoutReq, async, numRPCs>>
masks == <<umask, given>>
names == <<label, volume>>
settings == <<memory, tables, timeouts, rpc, sizes, limit, flags, masks, names, answer, commands>>

-----------------------------------------------------------------------------
MBUFSIZE == 8192
ATTRENTRYSIZE == 128
DIRENTRYSIZE == 110
NFS_MAXDATA == 8192
BIGTIMEOUT == 4

SizeNames == {"MAX_READSIZE", "MAX_READDIRSIZE", "MAX_WRITESIZE"}

\* The settings GET COMMANDS lists, and what may be done with each.
Codes ==
    [s \in {"COMMANDS", "VOLUME", "MNTHOST", "MNTDIR"} |-> {"GET"}]
    @@ [s \in SizeNames \cup {"DEBUG", "UMASK", "USER", "WRITEBUFFERLIMIT", "ATTRCACHE_TIMEOUT",
                             "DIRCACHE_TIMEOUT", "RPC_TIMEOUT", "TIMEOUTREQ", "SLOW_MEDIUM",
                             "ASYNC_RPC"} |-> {"GET", "SET"}]

ATTR_CACHE_TIMEOUT_DEFAULT == 30
DIR_CACHE_TIMEOUT_DEFAULT == 60
CACHE_TIMEOUT_MAX == 3600
RPC_TIMEOUT_MIN == 25
RPC_TIMEOUT_MAX == 600

Smaller(a, b) == IF a < b THEN a ELSE b
Larger(a, b) == IF a > b THEN a ELSE b

Clamp(low, high, i) == Larger(low, Smaller(high, i))

\* An argument is a ULONG: a negative number is above every maximum.
ClampArg(low, high, i) == IF i < 0 THEN high ELSE Clamp(low, high, i)

\* Mutant: the digits are taken as a decimal number.
UMaskOfArgDecimal(d) == d[1] * 100 + d[2] * 10 + d[3]

\* "umask was interpreted as an integer but is indeed an octal"
UMaskOfArg(d) == ((d[1] % 8) * 8 + (d[2] % 8)) * 8 + (d[3] % 8)

\* strtol with base 8 stops at the first other digit.
UMaskOfText(d) ==
    IF d[1] > 7 THEN 0
    ELSE IF d[2] > 7 THEN d[1]
    ELSE IF d[3] > 7 THEN d[1] * 8 + d[2]
    ELSE (d[1] * 8 + d[2]) * 8 + d[3]

UMaskDigits(u) == <<(u \div 64) % 8, (u \div 8) % 8, u % 8>>

-----------------------------------------------------------------------------
\* DistributeBuffers(NumBufs) with the timeouts at and dt and the flag sl.
BigTimeout(at, dt) ==
    at >= BIGTIMEOUT * ATTR_CACHE_TIMEOUT_DEFAULT \/ dt >= BIGTIMEOUT * DIR_CACHE_TIMEOUT_DEFAULT

BufMem(n) == n * 512

\* The division of C drops the fraction; n may be negative.
Quot(a, b) == IF a >= 0 THEN a \div b ELSE -((-a) \div b)

\* 1/2 of the memory, on a slow medium at most 50 buffers.
FirstMBufs(n, sl) ==
    LET m == Quot(Quot(BufMem(n), 2), MBUFSIZE)
    IN  IF sl /\ Quot(m * MBUFSIZE, 8192) > 50 THEN 50 ELSE m

FirstAttrs(n, big) ==
    LET a == Quot(Quot(BufMem(n), 4), ATTRENTRYSIZE) IN IF big THEN a ELSE Smaller(a, 200)

FirstDirs(n, big) ==
    LET d == Quot(Quot(BufMem(n), 4), DIRENTRYSIZE) IN IF big THEN d ELSE Smaller(d, 200)

FirstRest(n, big, sl) ==
    BufMem(n) - FirstMBufs(n, sl) * MBUFSIZE - FirstAttrs(n, big) * ATTRENTRYSIZE
              - FirstDirs(n, big) * DIRENTRYSIZE

\* "priority on buffers on fast lines"
MoreMBufs(n, big, sl) == IF ~big /\ ~sl THEN Quot(FirstRest(n, big, sl), MBUFSIZE) ELSE 0

\* Mutant: buffers given first to the pool are given to the tables too.
RestTwice(n, big, sl) == FirstRest(n, big, sl)

Rest(n, big, sl) == FirstRest(n, big, sl) - MoreMBufs(n, big, sl) * MBUFSIZE

\* The loop adds an entry to both tables until nothing is left.
Pairs(rest) == IF rest >= 0 THEN rest \div (ATTRENTRYSIZE + DIRENTRYSIZE) + 1 ELSE 0

MBufsFor(n, big, sl) == FirstMBufs(n, sl) + MoreMBufs(n, big, sl)
AttrsFor(n, big, sl) == Larger(FirstAttrs(n, big) + Pairs(Rest(n, big, sl)), 20)
DirsFor(n, big, sl) == Larger(FirstDirs(n, big) + Pairs(Rest(n, big, sl)), 20)

-----------------------------------------------------------------------------
Answered(record) == answer' = record /\ UNCHANGED commands

Reported(low, cur, high) == Answered([rc |-> 0, low |-> low, cur |-> cur, high |-> high])

\* A command that changes something.
Done == answer' = [rc |-> 0] /\ commands < MaxCommands /\ commands' = commands + 1

\* The two tables, with fthash_SetMaxEntries and fthash_SetTimeToLive (which
\* refuses negative values: none come).
attrs_SetCacheSize(n) == attrTable' = [attrTable EXCEPT !.max = n]
dc_SetCacheSize(n) == dirTable' = [dirTable EXCEPT !.max = n]
attrs_SetCacheTimeout(t) == attrTable' = [attrTable EXCEPT !.ttl = t]
dc_SetCacheTimeout(t) == dirTable' = [dirTable EXCEPT !.ttl = t]

\* ACTION_MORE_CACHE.  The buffers that stay in use after act_FLUSH are any
\* number, as long as mb_FreeSomeMBufs finds enough free ones (see ReadBuf);
\* the memory for new ones may be missing.  With 0 it only reports the number.
act_MORE_CACHE ==
    /\ \E num \in Counts :
         LET n == Larger(numBuffers + num, 0)
             big == BigTimeout(attrTTL, dirTTL)
         IN  /\ n <= MaxBuffers
             /\ \/ num = 0 /\ UNCHANGED <<memory, tables>>
                \/ /\ num # 0
                   /\ numMBufs' = MBufsFor(n, big, slow) /\ missing' = 0
                   /\ attrMax' = AttrsFor(n, big, slow) /\ dirMax' = DirsFor(n, big, slow)
                   /\ attrs_SetCacheSize(attrMax') /\ dc_SetCacheSize(dirMax')
                   /\ numBuffers' = n
                \/ num # 0 /\ MBufsFor(n, big, slow) > numMBufs /\ UNCHANGED <<memory, tables>>
    /\ Done
    /\ UNCHANGED <<timeouts, rpc, sizes, limit, flags, masks, names>>

\* SET of one of the three transfer sizes.
SetSize ==
    /\ \E s \in SizeNames, i \in Inputs : sizes' = [sizes EXCEPT ![s] = Clamp(256, NFS_MAXDATA, i)]
    /\ Done
    /\ UNCHANGED <<memory, tables, timeouts, rpc, limit, flags, masks, names>>

SetWriteBufferLimit ==
    /\ \E i \in Inputs : limit' = Clamp(0, 10000, i)
    /\ Done
    /\ UNCHANGED <<memory, tables, timeouts, rpc, sizes, flags, masks, names>>

\* Mutant: the timeout is noted but not given to the table.
SetAttrTimeoutNoted ==
    /\ \E i \in Inputs : attrTTL' = Clamp(0, CACHE_TIMEOUT_MAX, i)
    /\ Done
    /\ UNCHANGED <<memory, tables, dirTTL, rpc, sizes, limit, flags, masks, names>>

SetAttrTimeout ==
    /\ \E i \in Inputs : attrTTL' = Clamp(0, CACHE_TIMEOUT_MAX, i)
    /\ attrs_SetCacheTimeout(attrTTL')
    /\ Done
    /\ UNCHANGED <<memory, dirTable, dirTTL, rpc, sizes, limit, flags, masks, names>>

SetDirTimeout ==
    /\ \E i \in Inputs : dirTTL' = Clamp(0, CACHE_TIMEOUT_MAX, i)
    /\ dc_SetCacheTimeout(dirTTL')
    /\ Done
    /\ UNCHANGED <<memory, attrTable, attrTTL, rpc, sizes, limit, flags, masks, names>>

\* clntaudp_control: set the timeout, read it back, retry five times in it.
RpcTimes(i) ==
    /\ total' = Clamp(RPC_TIMEOUT_MIN, RPC_TIMEOUT_MAX, i) /\ rpcTimeout' = total'
    /\ wait' = rpcTimeout' \div 5

SetRpcTimeout ==
    /\ \E i \in Inputs : RpcTimes(i)
    /\ Done
    /\ UNCHANGED <<memory, tables, timeouts, sizes, limit, flags, masks, names>>

\* SET TIMEOUTREQ, SET SLOW_MEDIUM, SET ASYNC_RPC with zero or another number.
SetFlag ==
    /\ \E b \in BOOLEAN :
         \/ timeoutReq' = b /\ UNCHANGED <<slow, async, numRPCs>>
         \/ slow' = b /\ UNCHANGED <<timeoutReq, async, numRPCs>>
         \/ async' = b /\ numRPCs' = (IF b THEN 2 ELSE 1) /\ UNCHANGED <<slow, timeoutReq>>
    /\ Done
    /\ UNCHANGED <<memory, tables, timeouts, rpc, sizes, limit, masks, names>>

SetUMask ==
    /\ \E d \in UMasks : umask' = UMaskOfText(d) /\ given' = d
    /\ Done
    /\ UNCHANGED <<memory, tables, timeouts, rpc, sizes, limit, flags, names>>

\* RENAME_DISK, when there is memory for both copies of the name.  The copy
\* for the handler itself is made from a BPTR taken for an address: it is
\* whatever is there.
act_RENAME_DISK ==
    /\ \/ label' \in Labels /\ volume' \in Labels
       \/ UNCHANGED names
    /\ Done
    /\ UNCHANGED <<memory, tables, timeouts, rpc, sizes, limit, flags, masks>>

\* GET of VOLUME (MNTHOST and MNTDIR never change) and of the list itself.
GetText ==
    /\ Answered([rc |-> 0, text |-> volume]) \/ Answered([rc |-> 0, list |-> Codes])
    /\ UNCHANGED <<memory, tables, timeouts, rpc, sizes, limit, flags, masks, names>>

\* GET: the least, the present and the largest value, or the value.
Get ==
    /\ \/ \E s \in SizeNames : Reported(256, sizes[s], NFS_MAXDATA)
       \/ Reported(0, limit, 10000)
       \/ Reported(0, attrTTL, CACHE_TIMEOUT_MAX)
       \/ Reported(0, dirTTL, CACHE_TIMEOUT_MAX)
       \/ Reported(RPC_TIMEOUT_MIN, rpcTimeout, RPC_TIMEOUT_MAX)
       \/ \E b \in {timeoutReq, slow, async} : Answered([rc |-> 0, flag |-> b])
       \/ Answered([rc |-> 0, mask |-> IF given = <<>> THEN <<>> ELSE UMaskDigits(umask)])
    /\ UNCHANGED <<memory, tables, timeouts, rpc, sizes, limit, flags, masks, names>>

\* Neither GET nor SET, an unknown setting, one that cannot be set, or a SET
\* without a value.
BadCommand ==
    /\ Answered([rc |-> 10])
    /\ UNCHANGED <<memory, tables, timeouts, rpc, sizes, limit, flags, masks, names>>

-----------------------------------------------------------------------------
\* ParseArgs, then Startup with DistributeBuffers, and G_Mount, which gives
\* the timeouts to the client.  An argument that is not given has its default.
\* fthash_New does not make a table whose entries live for no time, and
\* without a table there is no mount: a timeout of 0 comes with SET only.
Given(default, low, high) == {default} \cup {ClampArg(low, high, i) : i \in Args}

MountTimes == total = rpcTimeout /\ wait = rpcTimeout \div 5

\* mb_AllocMBufs: without memory for all buffers there is a message and no
\* buffer; fewer than none are asked for until memory is used up.
StartPool(n) ==
    \/ n >= 0 /\ numMBufs = n /\ missing = 0
    \/ n # 0 /\ numMBufs = 0 /\ missing = Larger(n, 0)

SettingsInit ==
    /\ numBuffers \in {32} \cup Buffers
    /\ attrTTL \in Given(ATTR_CACHE_TIMEOUT_DEFAULT, 0, CACHE_TIMEOUT_MAX) \ {0}
    /\ dirTTL \in Given(DIR_CACHE_TIMEOUT_DEFAULT, 0, CACHE_TIMEOUT_MAX) \ {0}
    /\ slow \in BOOLEAN /\ async \in BOOLEAN /\ timeoutReq \in BOOLEAN
    /\ numRPCs = IF async THEN 2 ELSE 1
    /\ LET big == BigTimeout(attrTTL, dirTTL) IN
         /\ StartPool(MBufsFor(numBuffers, big, slow))
         /\ attrMax = AttrsFor(numBuffers, big, slow) /\ dirMax = DirsFor(numBuffers, big, slow)
    /\ attrTable = [max |-> attrMax, ttl |-> attrTTL]
    /\ dirTable = [max |-> dirMax, ttl |-> dirTTL]
    /\ rpcTimeout \in Given(RPC_TIMEOUT_MIN, RPC_TIMEOUT_MIN, RPC_TIMEOUT_MAX)
    /\ MountTimes
    /\ sizes \in [SizeNames -> Given(NFS_MAXDATA, 256, NFS_MAXDATA)]
    /\ limit = 2 * 8192
    /\ \/ umask = 0 /\ given = <<>>
       \/ \E d \in UMasks : umask = UMaskOfArg(d) /\ given = d
    /\ label \in Labels /\ volume = label
    /\ answer = [rc |-> 0] /\ commands = 0

SettingsNext ==
    \/ act_MORE_CACHE \/ SetSize \/ SetWriteBufferLimit \/ SetAttrTimeout \/ SetDirTimeout
    \/ SetRpcTimeout \/ SetFlag \/ SetUMask
    \/ act_RENAME_DISK \/ Get \/ GetText \/ BadCommand

SettingsSpec == SettingsInit /\ [][SettingsNext]_settings

-----------------------------------------------------------------------------
\* The variables hold what their comments say; two calls are pipelined exactly
\* when asynchronous RPC is on.
SettingsTypeOK ==
    /\ numBuffers \in Int /\ numMBufs \in Nat /\ missing \in Nat
    /\ attrMax \in Nat /\ dirMax \in Nat
    /\ attrTTL \in 0 .. CACHE_TIMEOUT_MAX /\ dirTTL \in 0 .. CACHE_TIMEOUT_MAX
    /\ rpcTimeout \in Int /\ total \in Int /\ wait \in Int
    /\ sizes \in [SizeNames -> 256 .. NFS_MAXDATA] /\ limit \in Int
    /\ slow \in BOOLEAN /\ timeoutReq \in BOOLEAN /\ async \in BOOLEAN
    /\ numRPCs = IF async THEN 2 ELSE 1

MemoryUsed == numMBufs * MBUFSIZE + attrMax * ATTRENTRYSIZE + dirMax * DIRENTRYSIZE

\* The pool and the tables have the memory BUFFERS allows, all of it but for the
\* buffers a start without memory went on without, and never more than the one
\* pair of entries the last round of DistributeBuffers may add and the minimum
\* of 20 entries, which is what there is of a negative number.  So it is after
\* a MORE_CACHE that failed, too, or one that finds other timeouts than before;
\* and buffers are missing only as long as the pool is empty, until a MORE_CACHE
\* gets them.
MemoryAccounted ==
    /\ MemoryUsed + missing * MBUFSIZE > BufMem(numBuffers)
    /\ MemoryUsed + missing * MBUFSIZE
          <= Larger(BufMem(numBuffers), 0) + 21 * (ATTRENTRYSIZE + DIRENTRYSIZE)
    /\ missing > 0 => numMBufs = 0

\* What GET reports is in force: the tables have the sizes and timeouts and the
\* client the timeout that the handler's own copies say.
InForce ==
    /\ attrTable = [max |-> attrMax, ttl |-> attrTTL]
    /\ dirTable = [max |-> dirMax, ttl |-> dirTTL]
    /\ total = rpcTimeout

\* The client waits between two sends, and sends at least five times before a
\* call times out (a wait of 0 would make select return at once).
RetryFires == wait > 0 /\ 5 * wait <= total

\* A umask means the same as argument, where it is read as a decimal number,
\* and in SET, and GET shows it as it was given.
UMaskMeant ==
    given # <<>> /\ (\A k \in 1 .. 3 : given[k] <= 7) => UMaskDigits(umask) = given

\* What was set is in force within its bounds, and retries fire.
SettingsInForce == SettingsTypeOK /\ InForce /\ RetryFires
=============================================================================
