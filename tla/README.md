# A TLA+ verification of aNFS

aNFS (`ch_nfs`) is an NFS version 2 client for AmigaOS: a file system handler
that receives DOS packets (open, read, write, lock, delete, ...) on a message
port and turns them into RPCs to an NFS server over UDP. This directory holds
TLA+ models of it, TLC configurations that check them on small instances, and
TLAPS proofs for all values of the constants.

Source paths below are relative to `src/src/`. `PROJECT.json` maps every
definition to the lines it models and lists components, runs, mutants, hazards
and theorems. The build that is modelled is the one of `nfs_handler.h`:
NO_DEVICE, no DEBUG.

## 1. The system

The handler is one process. Its main loop (`nfs_handler.c`) takes one message
at a time: a DOS packet, an ARexx command, or the packet its own timer sends.
It determines the credentials of the packet's owner, flushes all write buffers
if they changed, calls the packet's function `act_...`, releases what the
function used of the two caches (`attrs_UnLockAll`, `dc_UnLockAll`) and replies.
There are no threads: interleavings happen *between* packets, of different
programs and on different handles, and *inside* a packet whenever it calls the
server, whose answer may be late, missing, or the answer to an earlier attempt,
and whose files other clients change meanwhile.

| component | state | operations | hard because |
|---|---|---|---|
| write-behind cache (`wbuf.c`, `write.c`, `seek.c`) | per handle: sorted chain of buffers, each with a table of written intervals; position in the chain; pending error `efh_Res2` | WRITE, SEEK, FLUSH, SET_FILE_SIZE, END | writes are acknowledged before they reach the server; a flush can fail half way; a flush in the middle of a write releases what the write points to |
| read buffer and buffer pool (`rbuf.c`, `read.c`, `mbuf.c`, `filesys.c`) | one buffer and its range per handle; free list and counters | READ, WRITE, MORE_CACHE | stale data; pool exhausted or resized while buffers are in use |
| timed tables (`common/fthash.c`) under the attribute cache (`attrs.c`) and the directory cache (`dcache.c`) | hash lists, parked entries, free list, counts, limit and timeout | lookup, insert, mark removed, bury, unlock all, change limit or timeout | packets keep pointers to values that time out while the packet waits |
| locks and handles (`locks.c`, `lock.c`, `fh.c`, `find.c`, `object.c`) | list of locks, list of handles | LOCATE, FREE, COPY_DIR, the FIND packets, END, CHANGE_MODE, DELETE, CREATE_DIR, RENAME | an object is identified by a name, a cache or a file id; each packet tests locks in its own way |
| path names and links (`fn.c`, `lock.c`, `link.c`) | none | unify, scan, locate, PARENT, READ_LINK, MAKE_LINK | text rewritten in place; loops of links; failures between allocations |
| attributes, volume information (`attr.c`, `examine.c`, `info.c`) | the two caches | SET_PROTECT, SET_DATE, SET_OWNER, EXAMINE_OBJECT, GET_ATTRIBUTES, INFO | stale attributes; reused file ids; conversions in both directions |
| directory scans (`examine.c`, `dirs.c`) | directory handles keyed by object, cookie and name | EXAMINE_NEXT, EXAMINE_ALL | simultaneous and abandoned scans |
| NFS procedures and XDR (`nfs.c`, `ch_nfs_prot_clnt.c`, `ch_nfs_prot_xdr.c`) | static results | one per NFS procedure | short answers; failing allocations; a search in a directory that changes |
| asynchronous RPC client (`rpc/clnt_audp.c`) | slots of outstanding calls, transaction ids | send, wait, call, abort | retransmission, late and duplicate answers, timeouts |
| main loop, credentials, timer, ARexx (`nfs_handler.c`, `actions.c`, `cred.c`, `timer.c`, `simplerexx.c`) | current user, authenticator, ports, timer request, what is allocated | startup, dispatch, TIMER, DIE, shutdown | bytes of one user must not be sent as another; messages that come while the handler leaves |
| settings (`nfs_handler.c`, `iocontrol.c`, `filesys.c`) | limits, timeouts, sizes, in several copies | arguments, SET, GET, MORE_CACHE | bounds; copies that must agree |
| logging, debugging, string helpers | none of interest | - | - |

Interactions: the write cache and the read buffers take buffers from one pool
and call the NFS procedures, which call the RPC client. The lock and attribute
packets find objects through the two timed tables. The timer's packet buries
dead cache entries and flushes every handle. SET and MORE_CACHE change the
tables, the pool and the RPC client under open files.

## 2. The modules

| module | models | extends |
|---|---|---|
| `WBufInfo` | `WBufUpdateInfo`, `WBufDoMelt`: the interval table as operators | - |
| `WriteCache` | a MODE_NEWFILE handle and every packet that touches its buffers | `WBufInfo` |
| `ReadBuf` | handles with a read buffer, the pool, MORE_CACHE | - |
| `FTHash` | the timed table under the use `attrs.c` and `dcache.c` make of it | - |
| `Locks` | locks, handles, the server's directory and the two caches | - |
| `PathWalk` | path names, the walk to an object, soft links | - |
| `Attributes` | attribute packets, conversions, both caches with their timeouts | - |
| `DirScan` | scans of one directory and their handles | - |
| `Transfer` | abstract specification: what a transfer of data promises | - |
| `RpcClient` | the RPC handle and the transfers over it; implements `Transfer` | INSTANCE `Transfer` |
| `NfsProt` | the types and procedures of the protocol (`nfs_prot.h`) | - |
| `Xdr` | the XDR routines as forms that are encoded, decoded and freed | `NfsProt` |
| `NfsProcs` | the wrappers of `nfs.c` and the stubs, from argument to result | `Xdr` |
| `Handler` | startup, main loop, dispatch, credentials, timer, ARexx, shutdown | - |
| `Settings` | arguments, SET/GET, MORE_CACHE, `DistributeBuffers` | - |
| `MC...` | the above for TLC | the above |
| `WriteCacheProofs`, `ReadBufProofs`, `FTHashProofs`, `LocksProofs`, `DirScanProofs`, `RpcClientProofs`, `HandlerProofs` | theorems | the module of that name |
| `AttributesProofs` | theorems about `Attributes`, and about `Settings`, from which its caches have their sizes and timeouts | `Attributes`, `Settings` |

**`WriteCache`.** A write of a client is several steps, because the chain is
changed and flushed between them and the properties are about these intermediate
states: `act_WRITE` (pending error, size checks, direct write or
`WBufSeekAndPrepare`), `WBufPlace` (this buffer, the next, or a new one, with a
flush if there is none free), `WBufCopy` (the copy and `WBufUpdateInfo`),
`WBufCheckInfo` (the test of the interval table, its flush, the next pass).
`act_SEEK`, `act_FLUSH`, `act_SET_FILE_SIZE`, `act_END` and `act_FINDOUTPUT` are
the packets of these names; `OtherHandles` takes and returns buffers of the pool.
The content of a byte is abstracted to one fact: whether a copy of it is the
newest the client wrote at that offset. A buffer is its offset, the offsets it
holds (`dirty`) and those another buffer holds newer (`old`); `behind` are the
offsets where the server does not have the newest byte. `Lost` are the bytes
that exist nowhere any more, `told` those the client was given an error for. A
flush that fails may have written any part of the run it failed on, all runs
before it, and nothing after it. After a released header has been followed, or a
buffered write found no buffer, the model stops (`pc` is `"wild"`, `"nomem"`).

**`ReadBuf`.** Two handles on one file with buffers of their own; a byte is the
number of the write that put it there, so that old data can be told from new.
The write buffers of other handles are only counted. `fault` records the
assertion of `mbuf.c:53`.

**`FTHash`.** The hash lists are a set of entries; which ones are evicted is left
open. A packet is what happens between two `fthash_UnLockAll`; `found` and
`inserted` are the values it holds pointers to. Time may pass at any step.

**`Locks`.** One action per packet. All objects live in one directory; `dir` and
`type` are the server, `names` and `attrs` the caches. The find packets ask the
server, LOCATE, DELETE and RENAME ask `GetNameEntry`, which believes a cached
name while its attributes are cached. An RPC may fail before or after it took
effect, and the server may give the file id of a removed object, on which a lock
is still held, to a new one. `swapped` remembers that an object was replaced
behind the caches (see Observations).

**`PathWalk`.** A text is a sequence of characters. `fn_PathUnify` and
`fn_ScanPath` are functions on it, and a walk takes one component per step, with
at most one RPC or allocation that fails in a request. `dos.library`, which
answers ERROR_IS_SOFT_LINK with READ_LINK and tries again, is external. Where
the code frees a pointer it has not initialised `pc` is `"wild"`. `MCPathWalk`
holds the tree of the server and the reference definition of what a path means.

**`Attributes`.** A call is executed by the server in one step and its answer is
taken in a later one; in between other clients change, remove and create files,
and the answer may be lost. Dates, protection bits and owners are converted both
ways. `changed` and `rebound` remember when others last changed an object or
name, `lastSet` what a program set that nobody changed since.

**`DirScan`.** An entry is its slot in the directory, which is its cookie too. A
FileInfoBlock brings back only file id and name; an EXAMINE_ALL brings back the
address of its handle. Others create and remove files at any time, so that the
handles in the list hold lists of different times. An answer to READDIR is described
by what the protocol says of it, not computed: the first entries after the cookie, in
order, as many as fit. What a scan has to return is what is there when it starts and
stays (`stable`), except a file that a list read earlier and still kept lacks:
EXAMINE_NEXT may be handed that list (`Known`, and Observations).

**`RpcClient`, `Transfer`.** A datagram is transaction id, procedure, range of
bytes, and whether it is whole (a write that `clntaudp_wait` sends again lacks
its data). Requests and answers stay in sets and may be taken at any time, in any
order, any number of times or never. `Transfer` says that a success means the
server has carried out everything that was asked for; the mapping sends `want`
to the bytes asked for, `done` to those the server has stored, and `trust` to "no
slot is in use but those the running routine counts".

**`NfsProt`, `Xdr`, `NfsProcs`.** A type of the protocol is a form; `Encode`,
`Decode` and `Free` interpret forms as the XDR routines do, with the bytes left
and the allocations that still succeed. Property `ServerSeesArguments` compares
the bytes with `Wire`, which is written from the declarations in `NfsProt` alone.
`nfs_Lookup` is modelled call by call: the exact name, the search for one that
differs in case, and the second lookup.

**`Handler`.** `held` is everything opened or allocated and not given back;
startup may fail at each step. Of a packet's work only what dispatch, credentials
and shutdown depend on is kept: open handles, buffered bytes with the user who
wrote them, the creation mask. The action table and its index of blocks are
modelled as they are built by `act_Init`: a block is a run of consecutive packet
types in the table, and `act_Lookup` takes the last block that does not begin
behind the type.

**`Settings`.** Every variable of SET and GET with its bounds; the tables and the
RPC client have copies of their own. The division of memory is the arithmetic of
`DistributeBuffers` with its real constants. A start without memory for the pool goes
on with none (`StartPool`), as does one with a negative BUFFERS; `missing` remembers
the buffers it asked for.

## 3. The runs

| run | instance | what it shows |
|---|---|---|
| `write_cache` | 2-byte buffers, chain and pool of 3, file of 5 bytes, writes of 0, 2 and 3 bytes (3 is direct), SEEK and FLUSH, failing server | `CacheSound`: the chain stays sorted, PosData is where `WBufWrite` requires it, the length covers the buffers. `NoSilentLoss`: an acknowledged byte that is lost is reported. `PoolConserved`, `NeverNoMem`: no buffer leaked, a buffered write never runs out. `DataMoves`: every WRITE ends and every byte leaves its buffer |
| `write_packets` | 7-byte buffers, 3 table entries, 14 bytes, writes of 0, 1 and 8 bytes, all packets | `TablesExact`: the interval table never overflows and is exact for every next piece. `CallSound`: the inductive invariant of the proofs |
| `cache_values` | 3 keys, 4 values, limit and timeout up to 2, 4 ticks | `ValuesAlive`: no pointer in use is freed. `TableSound`: counts right, nothing freed twice. `LimitRestored` |
| `locks` | 2 names, 2 file ids, 3 locks, all packets, failures, reused ids | `HandlesLocked`: a handle's lock never leaves the list. `LocksProtect`, `ExclusiveAlone`: locked objects are not removed, cached names are right and an exclusive lock is alone, while nothing was replaced behind the caches |
| `paths` | all paths of up to 4 characters, 3 locks, 4 device names, a link with 7 targets | `UnifySound`: `fn_PathUnify` yields the name that is meant, inside its memory. `AnswerExact`: the request gets that object, its parent, its link text or its error. `RequestEnds`: also for a link to itself |
| `attributes` | 2 ids, 2 names, small calendar, one change by others, one SET | `ShownExact`: what is shown is late by no more than the timeouts of the caches. `SetIsShown`: what was set is shown again |
| `dir_scan` | 4 entries, two programs with EXAMINE_NEXT, one with EXAMINE_ALL, one file created or removed, one fault | `HandlesExact`: no handle lost, shared or left over. `ScanExact`: without repetition, and complete but for files that an older list lacks. `ScanEnds` |
| `read_buffers` | 2 handles, 3-byte buffers, pools of 1 and 2 | `PoolExact`; `ReadsExact`: a read returns what the server has unless another change made the buffer old; `FreesOnlyFree`: the only way to break the assertion of `mbuf.c:53` |
| `rpc_client` | 3 slots, 2 calls at a time, transfers of 1 and 5 bytes in parts of 2 | `SlotsAccounted`, `ReadExact`, `AnswersHonest` (the refinement of `Transfer`), `TransferEnds` |
| `nfs_procs` | small limits of names, paths and data, 6 directories, split writes of 1, 3, 4 and 8 bytes, one change by others | `ServerSeesArguments` (the bytes sent are those of the protocol but for the fill behind a split write), `ResultExact` (results and error codes are the answer's, no listing leaks), `LookupExact`, `CallReturns` |
| `handler` | 2 programs, an ARexx program, CTRL-C, timer, every startup failure | `ActsForSender`, `DispatchExact`, `CleanEnd`, `EveryoneAnswered`, `DataLeaves` |
| `settings` | a default, a large and a negative BUFFERS, a start with and without memory for the pool, arguments absent or above the bounds, three values of SET, four MORE_CACHE counts, two commands | `MemoryAccounted`: pool and tables have all the memory and no more, but for the buffers a start without memory lacks. `SettingsInForce`, `UMaskMeant` |

Every property has a mutant, a plausible bug in a definition, under which TLC
reports that property violated. Mutants stand in front of the definition they
replace, marked as such.

**Bounds.** A flush needs two buffers to fail between, an insert into the middle
of the chain three: the chain of `write_cache` has three and its file covers
them, with a last buffer that is half inside the file. Two-byte writes at odd and
even positions lie inside a buffer or across two. A table with three entries
overflows at four runs, which take seven bytes. `WriteBufferLimit` is one buffer
in these runs because larger buffered writes break the order of the chain
(Observations). The third key of `cache_values` makes the table exceed its limit,
the fourth value is the one a recycled entry gets, the four ticks are twice the
longest timeout. Three locks are two on one object and one on another. A path of
four characters has room for a name, two separators and a name, or two dots
between separators; the link's targets include itself, its parent and an
absolute path, and the device names the empty one, a beginning of the volume's name,
that name and another. `dir_scan` has an entry that both scans skip, a name that is
too long and one that does not match; answers of up to three entries, so that a list
is read at once or in two parts; and one free slot, between other entries, where
others may create a file. In `rpc_client` a transfer of five bytes has three
parts with two under way, so that one of them is waited for, one is late and one
not sent; the third slot is left over for an abandoned call. Two rounds are one
retransmission before the timeout. `nfs_procs` has `Base` 5 for the bytes of a
word, so that four of them hold every value used; names and data that reach their
limit, names and counts that exceed it, and pieces of a split write with three bytes
of fill, one and none. The clock of `attributes` runs past both
timeouts. The values of SET in `settings` are below the bounds of every setting (-1), between
them (300) and above them (10001); an argument is absent or, being unsigned, above
every clamp. Every other number is left to the theorems. BufMem is a LONG, hence fewer
than 2^22 buffers (`SettingsAssumption`, `MaxBuffers`).

**Symmetry** is used in `cache_values`, `locks`, `attributes` and `read_buffers`:
no definition tells two of the permuted values apart, and these runs check
invariants only.

**Fairness.** The handler is one process that runs a packet to its end, and an
RPC returns, with an error after its timeout: weak fairness of the handler's
steps (`WriteCache`, `DirScan`, `PathWalk`, `NfsProcs`, `Handler`) and, in
`RpcClient`, of the running operation, whose `select` returns at the latest with
its timeout. `Handler` adds weak fairness of the timer device. `WriteCache`, which
sees the timer only as `act_FLUSH`, has strong fairness of it: the request is
renewed after every expiry and its packet is queued in the FIFO port of the
clients, so that the flush happens although other packets keep disabling it.
No fairness is assumed of the network, the server or other clients; that a
server's READDIR answer has an entry or says eof is an assumption of `nfs_procs`.
In `DirScan` the programs keep asking; they may also give up.

**Deadlock** is checked except where the system may stop: a handler that has
ended (`handler`), a request that has been answered (`paths`), programs that have
made all their scans (`dir_scan`), transaction ids used up (`rpc_client`), and the
stop after a failed assertion (`read_buffers`). In the two runs of `WriteCache`
states with `pc = "wild"` or `"nomem"` have no successor, so these runs also show
that they are not reached.

## 4. The proofs

TLAPS checks the following for every value of the constants that satisfies the
named assumptions, that is, for any number of programs, handles, buffers, slots
and faults. Most of the properties the runs check are not inductive; what has to
be added to them says why the code is right.

`WriteCacheProofs` (`WriteCacheAssumption`: buffers hold at least one byte, an
interval table at least two entries (`wbuf.h` has 59), the other sizes are
natural numbers):

* `TypeCorrect`: `Spec => []TypeOK`;
* `BuffersConserved`: `Spec => []PoolConserved`. `avail` is changed on a dozen
  paths, together with the chain. The equation is not inductive alone: inserting
  a buffer needs `posData` to be an index of the chain, and `WBufSeekAndPrepare`
  to have found one;
* `NoMemUnreachable`: `Spec => []NeverNoMem`. `FitsCache` has counted at least
  one buffer in the chain or in the pool; `MustFlush` turns the former into the
  latter, and nobody else obtains buffers during a packet;
* `CallsSound`: `Spec => []CallSound`, the strengthening the others rest on:
  inside a WRITE, PosData is a buffer of the chain that does not start behind the
  current position, the target buffer holds the position, the bytes that are left
  are no more than those that came, and a closed handle has no chain;
* `CacheStaysSound`: `InPlace => (Spec => []CacheSound)`. `InPlace` says that the
  client does not seek, or that no buffered write exceeds a buffer; without it the
  property is false (`wbuf.c:655`, section 5). The invariant `LayoutInv` adds to
  the order of the chain where the position is with respect to the buffer after
  PosData at each of the steps of a write (`Near`), that a write is short or goes
  to the end of the chain (`Stays`), and that the length covers the buffers but
  for what the running write has copied (`Covers`);
* `NothingLostSilently`: `InPlace /\ FlushReported => (Spec => []NoSilentLoss)`.
  `FlushReported` excludes SET_FILE_SIZE with a failing server, the one packet
  that forgets the error of its flush (`find.c:646`). `Accounted` is the
  invariant: an error is pending, or each byte that the server lacks is in a
  buffer or was reported; a pending error means an empty chain. The order of the
  chain is needed because a flush writes its buffers from the first to the last
  and the newest byte must come last;
* `TablesStayExact`: `Spec => []TablesExact`: `wbh_Info` never overflows, although
  `WBufCheckInfo` counts the entries of PosData only, and it is the list of the
  dirty runs. `IsTable` describes the table of a set of bytes as a sequence of
  ascending, not adjacent runs; `TableUnique` says that there is only one, so that
  the invariant speaks of its existence and no induction over its entries is
  needed. `UpdateTable` is what `WBufUpdateInfo` does: the new table is the one of
  the enlarged set and at most one entry longer, and no longer when the first byte
  written was dirty. `TableInv` is why counting
  one table is enough: each buffer keeps two free entries, or one if its first
  byte is dirty; a write reaches the buffer after PosData only at its first byte,
  which is then dirty and adds no further entry; only PosData's table may be full,
  and only until the check.

`ReadBufProofs` (`ReadBufAssumption`): `PoolStaysExact`, `ReadsStayExact`,
`FreesStayFree`. Invariant: free, read and write buffers add up to the pool, only
open handles hold a buffer, a buffer that nobody made old has the bytes of the
file, and what an old one claims stays within the bound of the file, so that no
position leaves it.

`FTHashProofs` (`FTHashAssumption`: limit and slack are positive): `Invariance`,
and from it `ValuesStayAlive`, `TableAlwaysSound` and `LimitAlwaysRestored`. The
inductive invariant is the conjunction of all properties with `PacketSound`: the
table is locked while the packet holds a found value, so that dying values are
parked instead of freed, and entries it inserted are not older than the packet.
`UnLockEffect` says what `fthash_UnLockAll` leaves; cardinalities come from
`FiniteSetTheorems`.

`LocksProofs` (`LocksAssumption`): `HandlesLockedInvariant`,
`ExclusiveAloneInvariant`, `LocksProtectInvariant`. `ListInv` (the lock of a
handle is in the list, addresses differ, locks on the root are shared and no
handle's) holds whatever happens on the server; `Alone` and `NamesTrue` hold
until an object is replaced behind the caches. `Alone` is what makes it right
that the code tests only the first lock it finds for an object.

`DirScanProofs` (`DirScanAssumption`: finitely many programs): `HandlesStayExact`
and `ScansStayExact`, from one invariant.

* Handles: at most one handle stands on the directory itself, and then there is a
  program that would find it. Such a handle is left by a first entry whose lookup
  failed, and any program that starts goes on with it instead of making another;
  were there two, one could be left over. The others are counted: those that stand
  on an entry or belong to an EXAMINE_ALL are no more than the programs that stand
  on one, know an address or gave up. Addresses that a program of EXAMINE_ALL remembers are
  in use, so that `AllocVec` cannot give them away.
* Lists: the entries of a handle ascend and lie behind its cookie, and every
  ordinary file that is ahead of it and due (`Due`: wanted by a program that may be
  handed it) is in the list or will be read. A file that others create is due for no
  handle: the programs that run do not want it, and one that starts wants it only if
  every list it may be handed covers it.
* Programs: what a program was given ascends (hence no repetition) and leaves out
  nothing it wants up to the place where it stands, which for EXAMINE_NEXT is its
  FileInfoBlock and for EXAMINE_ALL the cookie of its handle. For EXAMINE_NEXT
  completeness must be stated of the place and not of the handle, because it may
  go on with any handle on that entry.

`RpcClientProofs` (`RpcAssumption`): `SlotsStayAccounted`, `ReadsStayExact` and
the refinement `ClientImplementsTransfer`: `Spec => AnswersHonest`, where
`AnswersHonest` is the specification of `Transfer` under the mapping of
`RpcClient`. `InvariantHolds` is the strengthening. Its parts: the count of free
slots (`Counted`); requests of the running operation ask only for what it was
asked for (`Current`); a good answer with the transaction id of an outstanding
call tells the truth about that call, whatever was lost, repeated or late
(`Truth`); while no abandoned call is attached, the slots are for disjoint parts,
and each part sent is outstanding or done (`Pipeline`); behind an abandoned write
a pipelined read sends nothing (`Abandoned`). The refinement has one step per
action: the start and end of a routine are steps of `Transfer`, a server that
carries out a request adds to `done`, all others stutter.

`HandlerProofs` (`HandlerAssumption`):

* `HandlerEndsClean`: `Spec => []CleanEnd`. `HeldInv` says at each place of `main`
  what has been opened, and that things opened together are closed together;
  `MsgInv` (`PortInv`, `OwedInv`, `FuncInv`) that who waits for an answer has its
  message in a port or is being served;
* `PacketsActForSender`: `Spec => []ActsForSender`. `CredInv`: the buffered bytes
  are all of the user in the authenticator, the cached umask is one its program
  has had, and the function of a packet that needs credentials runs with those of
  its sender;
* `PacketsDispatched`: `Spec => []DispatchExact`. The lemmas on the lookup hold for
  every action table that `act_Init` accepts, not only for the one in the source.

`AttributesProofs`, on `Attributes` (`AttributesAssumption`: the units of time,
the word and the largest id are positive, ticks divide the second, ids are
natural numbers; any number of names, objects, changes and SETs, any timeouts):

* `ShownStaysExact`: `Spec => []ShownExact`. `InvariantHolds` is the strengthening.
  Attributes, in a cache entry or in an answer, are `Right` when the server has
  them or others changed the object after they were read, and when they have what
  was set since. All are right but those of the object of a running SET, whose
  entry is replaced or, when the answer is lost, removed (`attrs_Delete`). No entry
  outlives its timeout between packets (`InTime`), and a cached name leads to its
  object or was given to another after the directory's entry was made
  (`NamesRight`). An answer is right when it is made and stays so, because a later
  change by others is later than its `seen`;
* `SetsStayShown`: `Spec => []SetIsShown`, the same invariant with the conversions:
  `RightsComeBack` (`au_Protection2umode`, then `NFSMode2Protection`),
  `OwnerComesBack`, and `DateComesBack` (`DateStamp2timeval`, then
  `timeval2DateStamp`), for any calendar and any number of ticks to the second.
  What has no counterpart on the other side is what `Expressible` excludes: "d"
  unlike "w", dates beyond 2^31 seconds, minutes and ticks that are none, ids that
  are mapped.

`AttributesProofs`, on `Settings` (`SettingsAssumption`: what is given are
integers, BUFFERS between -2^22 and 2^22, a umask three digits): `MemoryStaysAccounted`, `AlwaysInForce` and
`UMaskAsGiven`, for any arguments, inputs and numbers of buffers. `Distributed` is the
arithmetic of `DistributeBuffers`: the shares leave a rest that the last loop uses
up with at most one pair of entries too many, for every number of buffers, from
lemmas on the quotients; `DistributedNegative` is the same below zero, where the
division of C mirrors that above, no share is positive and the minimum of 20 entries is
all there is. A start without memory moves the pool's share to `missing`; `ClampBounded` and `FifthFits` are what `SettingsInForce`
needs of the clamps, `OctalDigits` of the umask. The inductive invariant adds that
the tables have the limits and timeouts of the globals.

Only model-checked:

* liveness (`DataMoves`, `RequestEnds`, `ScanEnds`, `TransferEnds`, `CallReturns`,
  `EveryoneAnswered`, `DataLeaves`): fairness and `ENABLED` are out of the
  prover's reach;
* `ServerSeesArguments`, `ResultExact`, `LookupExact`, whose forms are recursive
  operators, and `UnifySound`, `AnswerExact`, which are about texts: both need an
  induction over data.

## 5. Observations

Met while modelling. Where a property would fail for one of them, its statement
or the instance names the exception.

Write cache and pool

* `wbuf.c:655`: a buffered write that begins in the buffer after PosData and goes
  on beyond it leaves PosData where it was ("next buf will be o.k."). The next
  pass finds that neither PosData nor its successor holds the position and inserts
  a second buffer for a range the chain already has, out of order, against the
  requirement at `wbuf.c:620`. It takes a write of more than one buffer over
  buffered data; the default limit is two buffers. `CacheSound` fails with
  `WriteBufferLimit` 4.
* `wbuf.c:705`: the flush for a full interval table releases the header PosData
  points to; if the write is not complete the loop follows it.
* `find.c:646`: SET_FILE_SIZE continues after its flush failed, and its success
  hides the loss. `NoSilentLoss` fails when the packets of `write_cache` include it.
* `filesys.c:114` says "Remove all ReadBufs", but `RemReadBufs` passes `FlushProc`
  to `fh_ForEach`. MORE_CACHE then frees more buffers than are free, against the
  assertion at `mbuf.c:53`, and follows a NULL list pointer. `FreesOnlyFree` says
  that this is the only case.
* A pool of 0 buffers is possible (BUFFERS below 32), and `mb_ObtainMBuf` returns
  an uninitialised value for an empty pool. `rb_CreateRBuf`'s result is used
  unchecked.
* SET_FILE_SIZE and other clients' writes leave the read buffer as it is.

Locks

* `object.c:71`: FINDOUTPUT replaces a file and leaves the old id in the name
  cache (`find.c:481`), so that DELETE_OBJECT tests the wrong id and removes an
  open file.
* `find.c:464`: a lookup that fails for any other reason than a missing file is
  taken for one: FINDOUTPUT truncates and locks a file another program has locked
  exclusively.
* RENAME_OBJECT onto the name of an open file removes that file on the server;
  only the locks of the renamed object are tested (`object.c:213`).
* The table above `act_FINDOUTPUT` (`find.c:417`) promises an EXCLUSIVE_LOCK; the
  lock gets MODE_NEWFILE (`find.c:501`), which FINDINPUT does not refuse.
* CHANGE_MODE on a lock is always refused: the first condition of
  `act_CHANGE_MODE` (`object.c:251`) excludes the type its switch handles.

Paths

* DELETE_OBJECT, CREATE_DIR, CREATE_OBJECT and the soft MAKE_LINK go to their exit
  when `LRootLocateDir` fails and there free `Name` (and `FullName`), which is not
  initialised yet (`object.c:104`, `link.c:309`). RENAME and the hard link
  initialise theirs.
* A trailing dot is stripped from a name and "..." becomes "..", which the comment
  at `fn.c:343` calls illegal; the check at `fn.c:504` looks behind the text it
  means to test. Absolute link targets and "//" in them are resolved by `AddPart`
  against the link's directory. `PathWalk` (`link.c`) reports every failure as
  OBJECT_NOT_FOUND.
* `lock.c:373` compares only as many characters with the volume's name as the path
  has in front of its ":", so that a device or assign named like a beginning of the
  volume's name, the empty one included, is taken for the volume. The reference
  definition (`MeantNames`) follows the code here.
* `link.c:171` writes a 0 into the program's buffer without looking at its size.

RPC and NFS procedures

* `nfs.c:700`: when the send of one pipelined write fails, those before it are not
  aborted. Their slots stay in use (three such failures use up all), and a later
  pipelined write may take their answers for its own. This is `trust` in
  `Transfer`.
* `rpc/clnt_audp.c:645`: a split write is sent again without its data.
* `clntaudp_bufcreate` leaves `cl` or `cu` uninitialised on two of its error paths
  (`rpc/clnt_audp.c:209`).
* `clntaudp_sendsb` sends the data without the fill of the external representation,
  and the last piece of `nfs_MAWrite` is as long as what is left of a program's write
  (`nfs.c:690`, reached from `wbuf.c:226` and `wbuf.c:849`), so that a message may end
  up to three bytes early. `ServerSeesArguments` names the bytes that lack; without
  `Lacking` it fails.
* The search for a name copies it to `Name[255]` (`nfs.c:145`), which has no room for
  the end of a name of 255 characters; the model takes the byte behind as unused.
* NFSERR_IO, NXIO and NODEV are reported as OBJECT_NOT_FOUND. A name that is
  removed between the search and the second lookup makes the call fail although
  another one matches. `nfsproc_readlink_2` does not free the previous text.

Scans, attributes

* A READDIR or allocation that fails in the middle is reported as the end of the
  directory; abandoned scans keep their handles until the handler ends; "." and
  ".." are skipped only at the head of an answer (`examine.c:383`).
* EXAMINE_NEXT finds its handle by directory, cookie and name, the newest first
  (`dirs.c:121`). When two programs stand on the same entry, the one that goes on
  first takes the newest handle whoever made it, and the other goes on with the older
  list. If a file was created between the two lists, that program does not see it,
  though it was there during all of its scan. A handle that stays on the directory
  itself after a failed first lookup is picked up by a later scan with the same effect.
  `ScanExact` excepts just these files; without the exception it fails.
* `examine.c:94` says "days since 1.1.1978", but the seconds are the server's since
  1970. Seconds are signed: dates from 2^31 on are wrong.
* SET_OWNER passes ids as they are, EXAMINE maps root and nobody. EXAMINE of the
  null lock answers with the attributes of mount time when GETATTR fails. A WRITE
  does not update cached attributes; EXAMINE shows the old size until the timeout.

Handler, settings

* SET USER sets the name and uid, but the authenticator is not rebuilt
  (`cred.c:102`); only the uid is compared when credentials change, and the umask
  is kept with them.
* `G_Init` prints a message and goes on when `mb_AllocMBufs` finds no memory
  (`nfs_handler.c:199`): the handler runs with an empty pool. A negative BUFFERS
  (`nfs_handler.c:705`) has the same effect with the minimum of 20 entries in each
  table, and `mb_AllocMoreMBufs` then counts the negative number down until memory is
  used up, before it frees everything again.
* `TimerUp` is read uninitialised when `G_Init` fails (`nfs_handler.c:777`): with a
  timer request pending it may not be cleaned up. `CleanEnd` names this case.
* RENAME_DISK (`filesys.c:292`) uses a BPTR as a byte pointer, so that the name the
  handler keeps is not the new one, against `ChangeLog` ("relabel now changes both
  volumenames").
* The comment at `filesys.c:157` gives the tables a maximum of 200 entries, which
  the loop over the rest exceeds. A negative argument is unsigned and becomes the
  maximum. A timeout of 0 as argument makes startup fail.

## 6. Not modelled, and the plan

Not modelled: logging, debugging and string helpers; SAME_LOCK, which compares two
keys; the messages of the mount protocol; the outgoing half of the ARexx port;
code without callers (`nfs_Read`, `nfs_Write`, `fthash_Remove`, `fthash_Flush`,
`dir_LookupFromCookie`) or disabled by the preprocessor; a clock that is set;
a volume that cannot be removed from the DOS list at shutdown. Multi-part reads are
atomic in `ReadBuf` and taken apart in `RpcClient`.

Abstractions that compose only on paper: `WriteCache` and `ReadBuf` see the RPC
client as the promise of `Transfer` with `trust`; `Locks` has one directory and
`PathWalk` a fixed tree; `Attributes` sees a table of `FTHash` through its lookup.

Planned, in this order:

1. A composition of `WriteCache` with `Transfer` in place of its failing flush.
2. The refinement of a simple attribute store by `Attributes`.
