# A TLA+ model of MxAPI

MxAPI is a C implementation of the Multicore Association's communication
(MCAPI) and resource (MRAPI) interfaces for one machine, reworked so that
messages pass between nodes through shared memory **without locks**. This
directory models the lock-free shared-memory transport (the `_abb` build, under
`src/mca-2.0.3/mcapi/src/mcapi_trans/mcapi_trans_sm/`), checks it with TLC on
small instances and proves most of its safety properties with TLAPS for every size. It also models
the locks of MRAPI (the `_abb` build under `src/mca-2.0.3/mrapi/src/mrapi_impl/`),
which the repository offers to applications beside the lock-free messages.

## 1. The system

### Parts, state, operations

| Part | Source | State it keeps | Operations that change it | What makes it correct |
|---|---|---|---|---|
| Event messages (NBB) | `transport_sm_abb.c`, `Fragments/transport_sm_queue_abb.c` | per endpoint: `update_counter`, `ack_counter`, 65 entries with `state`, `buff_index`, `reserved` | `mcapi_trans_send`, `mcapi_trans_recv`, `push_queue`, `pop_queue` | in order, once each, none lost; sender and receiver on different entries; no assert fails; every call returns |
| Buffer pool | `transport_sm_abb.c`, `Fragments/transport_sm_pktchan_abb.c` | `buffers[b].magic_num`, payload, `parent` | `mcapi_trans_alloc_buffer`, `_free_buffer`, `mcapi_trans_pktchan_free` | one owner at a time, no leak, a held packet does not change |
| State messages (NBW) | `transport_sm_abb.c` | `update_counter`, a few entries and their buffers | `mcapi_trans_send_state`, `mcapi_trans_recv_state` | reads are whole and fresh; the writer never waits |
| Request pool | `Fragments/transport_sm_request_abb.c` | per process: bit set, `curr_count`, `state` of each request | reserve, complete, cancel, remove | no request shared; refused only when all are in use; a reserve returns |
| Non-blocking receive | `Fragments/transport_sm_msg_abb.c`, `_request_abb.c`, `_wait_abb.c` | requests with the entry each has reserved; handles of the application | `msg_recv_i`, `test`, `wait`, `wait_any`, `cancel` | requests served in order; a wait returns; success means a message |
| Channels | `mcapi_abb.c`, `Fragments/transport_sm_pktchan_abb.c`, `_sclchan_abb.c`, `transport_sm_abb.c` | flags of both endpoints (connected, open), channel type, the ends of the channel | connect, open, close, and the requests for them | a connect is seen by both ends and not undone; an open completes; a packet goes to the right end |
| Endpoints | `mcapi_abb.c`, `Fragments/transport_sm_endpoint_abb.c` | table of endpoints of a node, `num_endpoints` | create, get, delete | no index or port given twice; a live endpoint is found |
| Nodes | `Fragments/transport_sm_initialize_abb.c`, `_finalize_abb.c`, `_signal_abb.c` | table of domains and nodes in shared memory, `mcapi_db` of each process, thread-local indices | initialize, start, rundown, finalize, signal handler | each node has its own slot of one database; the last to leave, and only it, removes the memory |
| MRAPI locks | `Fragments/mrapi_impl_spec_sem_abb.c`, `_mutex_abb.c`, `_rwl_abb.c` | one table of entries with their shared locks, holders, keys; the guards | create, get, delete, lock, trylock, unlock, post, lock_multiple | exclusion, exact counts, keys of recursive locks, timed calls return |
| MRAPI, rest | `src/mca-2.0.3/mrapi/` | shared and remote memory, resource tree, nodes | create, get, attach, detach, ... | no lost resource |

Above them are the MCAPI entry points (`mcapi_abb.c`), which check arguments
and call the transport; beside them the locked builds (`transport_sm.c`,
`*_abl.c`), MTAPI, the conker test harness and a partial Rust port (`mca-rs`).

### How the parts interact

Everything shared lies in one shared-memory segment, reached by plain reads and
by the MRAPI atomic operations; the request pool is shared by the threads of a
process only. There are no messages between parts and no callbacks: parts meet
in the words they share. A send takes a buffer from the pool, hangs it on an
entry of the receiver's queue and moves `update_counter`; a receive takes it off
and moves `ack_counter`; a non-blocking receive on an empty queue leaves a
request that reserves an entry and that later calls of test or wait complete.
An endpoint is named by the node slot and the index in that node's table; a
channel is two endpoints whose words name each other, and a packet is sent to
the endpoint that the sender's words name. The node table lies in a shared
memory that MRAPI creates, finds by key and removes.

### What is hard here

* **Interleavings.** Every call is a sequence of single accesses to shared
  words. The counters are moved twice around each operation, so that an odd
  value says "in progress"; correctness is in the order of these moves.
* **The exchange.** `sys_atomic_xchg` (`sysvr4_atomic.c:1248`) is a read and one
  compare-and-swap whose result is ignored. It is not atomic and can do
  nothing. The models keep the two steps.
* **Asserts.** The code does not retry where it believes itself alone: it
  asserts. Which configurations keep those asserts true is a question for a
  model checker.
* **Wrap-around** of 32-bit counters, and `(counter/2) - 1` on an unsigned zero.
* **Limits**: queue full, pool of buffers empty, all requests taken.
* **Cancellation** by another thread at any point of a wait, and handles used
  after they were cleared.
* **Progress**: waits that spin until another thread has moved a counter.
* **Words with several flags**: port, valid, open and connected of an endpoint are
  one word, and connect (by anybody) writes it as well as open, close, create
  and delete (by the node). The same holds for the state of a node.
* **Coming and going**: the first node creates and wipes what the second may
  already use, the last removes what the next may be attaching, a signal ends a
  process in the middle, and thread-local identities outlive the node.
* **Locks that wait** give up the guard of the entry, which may be deleted and
  created anew before they look again.
* **Locks half created** can be found by their key, and locked, while the creator
  is still writing them: it holds the global guard, a lock call that of the entry,
  and a lookup none.

`PROJECT.json` lists these hazards at their lines, with the properties that
would catch each, and says which no property covers yet.

## 2. The modules

| Module | Models | Uses |
|---|---|---|
| `BoundedFifo` | what an event queue promises: a bounded FIFO | |
| `MessageQueue` | NBB queue and buffer pool, one action per shared access | instantiates `BoundedFifo` |
| `StateMessage` | NBW channel and its packets, one action per shared access | |
| `RequestPool` | the bit set, counter and states of requests | |
| `ReceiveRequests` | `msg_recv_i`, reservation, test, wait, wait_any, cancel | a queue whose push and pop are single steps, as `MessageQueue` shows them to be for one sender and one receiver |
| `Endpoints` | tables of endpoints: create, get, get_i, delete | |
| `Channels` | connect, open, close, where a send goes | extends `Endpoints`: both write the same words |
| `NodeTable` | initialize, start, finalize, signal handler, restart | |
| `MrapiLocks` | mutexes, semaphores, reader-writer locks of MRAPI | |
| `MC*` | instances for TLC (a symmetry set, channels, threads of processes) | |
| `MessageQueueProofs`, `StateMessageProofs`, `RequestPoolProofs`, `ReceiveRequestsProofs`, `ChannelsProofs`, `NodeTableProofs`, `MrapiLocksProofs` | theorems about the module of that name | extend it |
| `ModularArithmetic` | lemmas on `\div` and `%` for wrapping counters and rings | used by the proofs on queue and state messages |

Definitions keep the names of the code (`update_counter`, `buff_index`,
`magic_num`, `ep_qindex`, `mcapi_trans_queue_head` as `QueueHead`). Each action
is one access to shared memory by one thread, with the local computation that
follows it; `pc[p]` is the place in the call and the other per-thread variables
are the C locals that live across steps. A failed `assert()` sends the thread to
`"abort"`. Variables marked *history* only record what happened, for the
properties. Operators with a comment *(mutant: ...)* are plausible mistakes in
the operator after them; each shows that a property notices the mistake, and no
action uses them.

`MessageQueue`. A send runs `QueueTailAck`, `QueueTailUpdate` (is there room?),
`CheckEntry` and `ReserveEntry` (the two asserts on the tail entry),
`AllocBuffer` or `UndoReserve*`, `FillBuffer`, `LinkBuffer*`, `MarkAllocated`,
then `push_queue` as `PushReadUpdate`, `PushReadAck`, `PushBegin`, `PushEnd`. A
receive is its mirror image; with `Packet` the buffer goes to the application,
which frees it at any later time (`PktFree`). Counters are taken modulo
`CounterMod`, which is 2^32 in the code.

`StateMessage`. A payload is two words written and read one after the other, so
that torn copies exist. The writer may reuse the buffer of an entry, replace one
that a reader holds (`WriteOrphan`), or find none (`WriteFail*`).

`RequestPool`. `SetBit` tests and sets a bit at once, `Claim` is the
compare-and-swap from `REQUEST_FREE`; the removal clears the bit, decrements and
only then frees the state, in three steps.

`ReceiveRequests`. `RecvI` either takes the message at the head or leaves a
request; `Setup` reserves an entry later, so a message may come in between.
`mcapi_trans_test_i` looks twice at the state of the request (`TestEnded` /
`TestPending`, then `QueryEnded` / `QueryPending`), and completes a receive in
`TestReady`, `MarkReceived`, `CopyMessage`, `PopAndRemove`. `CopyMessage` reads the
entry that the request reserved (`qindex`), not the head of the queue; that the two
are the same is what the test in `MayReceive` is for. A canceller changes
the state first and the reservation later.

`Endpoints` and `Channels`. A node is a thread, since the index of the calling
node is thread-local. `state` is the 64-bit word with port, valid, open and
connected; `CreateFind` copies it with the flag connected as it happens to be,
and `ExchangeRead` / `Exchange` write it back. `num` is `num_endpoints`, which
bounds the search of get (`GetNext`, read anew for every index) but not that of
create. Connect runs `ConnectType`, `QueueRead`, `QueueExchange`, `ConnectRead`
and the exchange for the sending end and then for the receiving one; open and
close are a read and a compare-and-swap that is asserted. An open that finds no
connection leaves a request, which `CheckOpen` completes. `Target` is where a
packet would go; the queue it goes to is `MessageQueue`.

`NodeTable`. Initialize becomes an MRAPI node, finds the shared memory or creates
it, sets `mcapi_db`, wipes the table if it created it, finds or claims its domain,
looks for its number in all slots, claims a slot by compare-and-swap, and sets
its flags by copy and exchange (`Copy`, `ExchangeRead`, `Exchange`, with
`Changed` and `After` naming the six such changes). Finalize frees its slot,
looks whether any node is left (`Any`, one slot a step), detaches, deletes the
memory if it was the last, leaves MRAPI and clears `mcapi_db` if it was the last
of its process. The signal handler marks the nodes of the process and raises
the signal again; `Restart` is the environment's. Every step of the table goes
through `mcapi_db` (`Through`): null is a fault. MRAPI's own calls are one step
each, as they are under its lock. The model follows a mapping only through
`mcapi_db`; the flag `valid` of a domain, the zeroing of endpoints and the
registration of signal handlers are left out.

`MrapiLocks`. A call takes the guard of its entry (`Probe`, `Enter`), loops over
the locks of the entry one access a step, and gives the guard back (`Leave`); a
lock that fails gives it up, yields and takes it again (`Yield`, `Again`). A
mutex is looked at in one guarded section (`MutexLock`, `MutexUnlock`: recursion
and keys) and locked in another. A creation is a sequence of stores
(`CreateSearch`, the steps of `CreateSetup`, `CreateEnd`): the entry is found by its
key after the first, valid after the third, and only then do limit, locks, holders,
count and attributes follow one by one. They are under the global guard, which no
lock call takes and `mrapi_impl_sem_get` does not either, so that every other call
may come between two of them. `Early` says whether the application makes such
calls: a handle can be looked up at any time, and if `Early` is false it is used
once the creation has returned. Each caller decides by a local variable that
is never initialized which of two guards it takes: `Guards` is the set of values
that variable may have.

**Abstractions.** Memory is sequentially consistent: the code uses full-barrier
built-ins for its atomics and the models treat the plain accesses between them
as ordered (x86 does, for all but a store followed by a load). Message contents are model values; sizes, truncation, priorities and
debug output are left out. In `ReceiveRequests` the state of the queue entry is
not kept, since for one receiver it is determined by the counters.

## 3. The runs

| Run | Asks | Result |
|---|---|---|
| `queue_msg` | event messages with copy, across the wrap of the counters: asserts, separate entries, `available`, refinement of `BoundedFifo`; every send, and every receive with a message there, returns | holds |
| `queue_pkt` | packets freed in any order and at any time, a send may find no buffer: each buffer has one owner, a held packet stays intact, and every send returns, also after one that gave its entry back for want of a buffer | holds |
| `state_msg` | across the wrap, with writes that find no buffer: reads whole and fresh, none empty after a write; writes return though readers stop; reads return when writes end | holds |
| `state_pkt` | packets held by one reader stay intact, no assert fails, with a buffer for each write (`Plenty`, section 4) | holds |
| `pool` | two threads, two requests: none shared, none refused without need; only lost bits keep a reserve from returning | holds |
| `recv_one` | one request at a time, cancelled by any thread: only a cancelled reservation keeps a wait from returning, whenever the message comes | holds |
| `recv_many` | three requests on two entries, cancelled by their thread: order though each takes the message from the entry it reserved, handles, honest success | holds |
| `recv_bubble` | a cancelled request keeps its entry reserved | **wait never returns** |
| `channels` | two nodes create, find and delete endpoints and connect, open and close a channel between them, both perhaps connecting it at once: the tables are exact and ports distinct, connects and opens kept, no assert fails, packets go to the peer; a get of a reachable endpoint and an open of a connected one return | holds |
| `nodes` | three threads in two processes initialize, start, finalize; one process is ended by a signal and started again: own slots, one database, no fault, slots accounted for, memory removed by the last, no initialize refused without reason | holds |
| `locks` | an entry of any kind, found by its key at any time, locked with and without timeout, posted and deleted once its creation has returned, and not used again: counts, holders and keys, no lock granted on another creation, timed calls return | holds |
| `locks_multi` | two semaphores of one lock each, created free, locked singly and with lock_multiple (any, all), also while they are half created: exclusion, counts | holds |

In `recv_bubble` TLC finds a behaviour of the code that contradicts what its
documentation says; `findings` in `PROJECT.json` quotes the line and the place in
the code. The repository's tests do not meet it: they use one sender and one
receiver for each endpoint, wait for a request before they issue the next, and
stop long before a counter wraps.

Each module has a type invariant `TypeOK`. Those of the queue and of the pool are
proved; that of `NodeTable` is a conjunct of `NoFault`; the others hold on the
instances of the runs as well, and the parts of them that the proofs need are
proved there as parts of the inductive invariants. `FifoDelivery` of the queue
follows from `ImplementsFifo`, and the conjuncts of `BitAndStateGuard` from the
proof.

The passing runs leave out some instances on purpose. They are reached by other
values of the constants, or state a stronger property that the module defines,
and this is what TLC shows there:

| Instance or property | What happens |
|---|---|
| `MessageQueue`, `Producers = {p1, p2}` | `NoAssertFails` violated: two senders to one endpoint reserve the same tail entry, although a comment speaks of a retry "if multiple clients conflict" (`transport_sm_queue_abb.c:173`) |
| `MessageQueue`, `Consumers = {c1, c2}` | `NoAssertFails` violated: both receivers read the head entry as allocated, the slower one fails its compare-and-swap (`transport_sm_abb.c:970`) |
| `MessageQueue`, `Entries = NBuffers = 3`, `CounterMod = 16`, `MaxSends = 9` | `NoAssertFails` violated: 3 does not divide 8, as 65 does not divide 2^31, so at the wrap the tail of a full queue jumps to an occupied entry |
| `StateMessage`, 3 entries | `ReadUncorrupted` violated: a receive during the first write confirms a torn value (`src/README.md:123`: a read that completes successfully is guaranteed uncorrupted) |
| `StateMessage`, packets, two readers | `HeldPacketIntact` violated: both receive the same packet, one frees it (`transport_sm_pktchan_abb.c:433`), the writer reuses it under the other |
| `RequestPool`, `ReserveReturns` | violated: a bit is lost when a claim fails after its bit was set, and a reserve of the last request then never returns |
| `StateMessage`, packets, `NBuffers = NSlots = 2` | `NoAssertFails` violated: a reader between the two stores of a failing write (`transport_sm_abb.c:686-689`) meets a free entry that has a buffer |
| `StateMessage`, packets, `NBuffers = 4` | states at rest with a buffer marked `MAGIC_NUM` that nobody holds: a receive that is not confirmed leaves its mark (`transport_sm_abb.c:1051`) and the writer gives the buffer up. With 5 writes the last may find no buffer; from 6 on `NoAssertFails` is violated |
| `ReceiveRequests`, `MayCancel = {"other"}` | `pc = "abort"` is reached: a cancel between the mark of the entry and the swap of the state (`transport_sm_request_abb.c:566`); and `SuccessIsReceipt` is violated: a cancel between the two looks of `mcapi_trans_test_i` (`transport_sm_wait_abb.c:101`) |
| `ReceiveRequests`, `NHandles = 2`, `ReuseArray = TRUE` | `HandleIsLive` violated: `wait_any` with a cleared handle removes request 0 (`transport_sm_wait_abb.c:100`) |
| `ReceiveRequests`, `NHandles = 2` | `RecvI` takes the message at the head while an earlier request waits for that very entry (`transport_sm_msg_abb.c:209`): messages stay in order, requests do not |
| `Channels`, `Orderly = FALSE` | `OpenIsKept` violated: connect changes the word between the read and the swap of open or close, whose assert fails (`transport_sm_abb.c:1099`), or undoes them; `ConnectIsKept`, `TableIsExact`, `SentToPeer` violated too: an exchange does nothing, or a late one brings a deleted endpoint back |
| `Channels`, `Chans <- TwoReceivers` | `ConnectIsKept` violated: two connects that share one endpoint both pass the check and both succeed |
| `Channels`, `SentToConnected` | violated: an endpoint that is connected may be deleted; the other end keeps sending to its index, which the next create reuses |
| `Endpoints`, `GetReturns` | violated: the search stops at `num_endpoints`, and a delete leaves a hole below a live endpoint |
| `NodeTable`, `Overlap = {"first"}` | `NodeHasItsSlot`, `SlotsAccounted`, `NoFault` violated: the first node wipes the table after the second has its slot. The comment at `transport_sm_initialize_abb.c:63-69` names only the race of initialize with finalize |
| `NodeTable`, `Overlap = {"final"}` | `NodeHasItsSlot`, `SlotsAccounted`, `NoFault` violated: a node attaches the memory that the last one deletes |
| `NodeTable`, `Overlap = {"finals"}` | `NoFault` violated: both threads of a process find themselves the last of it, and one clears `mcapi_db` under the other; `NodeHasItsSlot`, `SlotsAccounted`, `FreedByLast` hold |
| `NodeTable`, `Overlap = {}`, two processes of two threads, `MaxDomains = MaxNodes = 1`, `MaxInits = 5` | `SameDatabase` violated: an initialize that is refused once it is attached leaves `mcapi_db` set; when another thread of its process later creates a new memory, the compare-and-swap from null (`transport_sm_initialize_abb.c:165`) does nothing, and the process goes on with the deleted one |
| `NodeTable`, `Overlap = {}`, processes of one and three threads, `MaxNodes = 1`, `MaxInits = 4` | `NodeHasItsSlot` violated for the same reason |
| `NodeTable`, `EntryFreedByLast` | violated: leaving MRAPI removes the memory without references while its entry stays, and the next node finds it and cannot attach |
| `NodeTable`, `InitAgain` | violated: `mcapi_pid` stays after finalize, so that a thread is taken for initialized as long as another of its process is |
| `NodeTable`, `NothingLeft` | violated: slots of a process ended by a signal stay allocated |
| `NodeTable`, `Num <- NumShared` | all invariants hold (two nodes with the same number) |
| `MrapiLocks`, `Guards = {"sem", "spin"}` | `Exclusive` and `CountIsExact` violated: two calls take different guards of one entry, since `attributes.spinlock_guard` is read uninitialized (`mrapi_impl_spec_sem_abb.c:526`, `582-593`) |
| `MrapiLocks`, `Early = TRUE` with the other constants of `locks` | `CountIsExact` violated: the first lock of a semaphore that is created locked is valid (`mrapi_impl_spec_sem_abb.c:351`) before it is marked locked (line 354); a lock call takes it in between, the creator overwrites the holder, and both count it. `HolderIsTold` violated: a writer that meets a reader-writer lock of which only the first lock is valid takes that one, does not find the second, times out and is told nothing. `TimedCallReturns` violated: node 0 unlocks a lock that the creator has marked locked but whose holder is still the 0 of the `memset`; the assert of the unlock fails with the guard taken, and the others wait for it for ever. `TypeOK` violated too (the count exceeds the limit). Comments on the creation say that get and create both use the global lock (lines 105 and 124); `mrapi_impl_sem_get` (line 39) takes none, and if it did it would wait for the creation to end |
| `MrapiLocks`, `ExtError = FALSE` | `GrantedAsAsked` violated: a lock that waits is granted on the lock created in the place of a deleted one |
| `MrapiLocks`, `Waits = {"all"}` with fairness | `TimedCallReturns` violated: reverting asks for a guard the call already holds (`mrapi_impl_spec_sem_abb.c:729`) |
| `MrapiLocks`, `FreedByLastUser` | violated: finalize wipes the node before it looks which locks it used (`mrapi_impl_spec_finalize_abb.c:75`) |

**Bounds, and why they are enough.** Queues have 2 entries: the head and tail
entries differ and coincide, and the queue is full, empty and half full. Every
entry is reused at least once (the messages are more than the entries), so what
one message leaves behind meets the next. Buffers run out where that matters: in
`queue_pkt` because the application may hold all of them, in `state_msg` because
other endpoints may have one (`MaxBusy`); in `state_pkt` there are as many as writes,
and each of the 2 entries is written 3 times, so that a buffer that was replaced is
followed by another (427,000 states). The counters wrap in `queue_msg` (7
messages, modulo 12) and in `state_msg` (7 writes, modulo 8), with calls in
progress on both sides of the wrap. `NoLap`
keeps a write from starting while a receive has lasted for as many writes as the
counter can tell apart, 2^31 in the code; beyond it the protocol cannot tell one
round from the next, which is known of it and not a fault of this code.
`MaxIssues`, `MaxOwned` and `MaxHeld` bound what the application does.
`channels` has 2 nodes with 2 endpoints each and 3 creates: one table has a hole
and is full, and one endpoint is deleted and its index used again while the
other end is connected (378,605 states). In `nodes` two of the three threads
share a process and there are 2 slots, so the table is full when the third comes
and a slot is reused; 4 initializes and a crash let a process die, restart and
meet its old slot (894,766 states). `locks` has 2 nodes, one entry with 2 locks
(a writer needs both, two readers fill it), two creates of any kinds, the second
refused while the first lock exists and after it was deleted (`ExtError`), so that no
entry is created twice: that deleted entries stay out of use is what `GrantedAsAsked`
shows, and its mutant uses one again. Timeouts are none, one and two attempts, and mutexes
are locked up to 3 deep (302,488 states). `locks_multi` has 2 semaphores of one lock each,
so that any and all differ, and meets them in every stage of their creation
(1,367,939 states). Deadlock
is not checked: every model ends when its bounded messages are used up, and an
aborted thread stops; that calls return is stated as a property instead.

**Restrictions of the application.** `Orderly` (no open, close or delete of an
endpoint while a connect names it) and `Overlap = {}` (phases of initializing and
of finalizing, as every test of the repository has) are what the code needs and
does not enforce. So is `Early = FALSE`: calls on a lock begin after its creation
has returned, as where one node creates it and tells the others, or where each tries to
create it and looks it up when it is refused because it exists
(`mrapi/tests/mutex2.c:94`, and MCAPI itself), for that refusal waits for the guard of
the first creation. The properties that hold are stated under them; the table above
says which fail without.

**Fairness.** Weak fairness on the steps of a thread inside a call: its next step
is always enabled, so this says only that the operating system schedules it,
which `sys_os_yield` in the waiting loops supports. No call is ever forced to
begin and no application to free a packet. The specification of `state_msg` is
fair to the writer alone, since the claim of `WriteReturns` is that readers
cannot hold it up; `ReadReturns` has the fairness of the readers as its
hypothesis. `RequestPool` adds strong fairness for drawing each index, for
`sys_os_rand`: each index is drawn again and again. `Channels` is weakly fair to
the steps of calls and to testing a pending request, as `mcapi_wait` tests it.
`MrapiLocks` is weakly fair to a call that has its guard and strongly fair to one
that waits for it: the guard is free again and again, and whoever fails to lock
yields the processor (`sys_os_yield`) between giving it up and taking it again.
`NodeTable` states no liveness.

## 4. The proofs

TLAPS proves the following for all values of the constants, that is for any
number of threads, nodes, entries, buffers, requests and messages. Every theorem
has the form *hypotheses* `=> (Spec => []P)`. The hypotheses are conditions on the
constants (one group of theorems of `NodeTable`, and `PacketAsserts`, also have one on the
behaviour, see there),
each stated as a definition and true in the instances that TLC checks;
what happens without one is in the table above or below. None of the properties
is inductive. In each module the invariant (`IInv`) is a conjunction of named
parts, every action has its own step in the proof of each part, and the
properties follow from the invariant. TLC checked the invariants first.

### The queue (`MessageQueueProofs`)

`TypeCorrect` needs no hypothesis: no entry, buffer or counter leaves its range,
however many senders and receivers there are. The other theorems are for one
sender and one receiver (`OneEach`), which is what the asserts of the code need,
and for `RingFits`: either the counters do not wrap within the messages sent, or
twice the number of entries divides the counter's modulus. For 65 entries and
32-bit counters that means: up to 2^31 messages.

| Theorem | What it says |
|---|---|
| `QueueInvariant` | the inductive invariant |
| `QueueAssertsHold` | no assert of send, receive or the pool fails (`NoAssertFails`) |
| `EntriesExclude` | sender and receiver are never in the same entry (`EntryExclusive`) |
| `PacketsIntact` | a packet that is held keeps its payload (`HeldPacketIntact`) |
| `BuffersOwned` | a buffer has one owner and none is lost (`BufferOwnership`) |
| `AvailableKept` | what `mcapi_trans_msg_available` reports is there (`AvailableIsKept`) |
| `QueueIsFifo` | the queue implements `BoundedFifo` (`ImplementsFifo`) |

The argument replaces each counter by a number that does not wrap: how many
pushes or pops have begun and ended (`CountInv`). A thread works with values of
the other's counter that it read earlier; the invariant bounds how far the other
may have gone on since, which only ever makes more room or more messages. Then
`WaitingInv` says what every entry between the two counters holds, `FreeInv` that
the others are free, `TailInv` and `HeadInv` what the sender and the receiver have
done to the entry they are at, `OwnerInv` and `MarkInv` who has which buffer, and
`OrderInv` that the entries hold the messages sent and not yet received, in order.
The refinement follows position by position: the content of the abstract queue is
the part of the history of sends between the two numbers.

### State messages (`StateMessageProofs`)

Readers that copy. Hypotheses: `~Packet`, and twice the number of entries divides the
counter's modulus (`RingDivides`). `StateInvariant` is the invariant; `ReadWhole`
proves `ReadUncorrupted`, `ReadNewest` proves `ReadFresh`, `StateAssertsHold` proves
`NoAssertFails`, for any number of readers, entries and buffers, across any number
of wraps, though the writer waits for nobody and may run out of buffers.

The argument: the entries always hold a window of the last writes, as many as
there are entries, less the one being overwritten (`ContentInv`, `WriteInv`,
`LinkInv`). Each stage of a read says which writes may by now be under its
hands; if the counter has moved so little that the confirmation accepts the value,
the write that the reader started from is still in the window. `NoLap` bounds how
long a read may last, as for the runs.

`RingDivides` is needed, and this is what the attempt to prove it showed. Before
the first write is complete `(counter/2) - 1` is the largest value of the counter's
type, and the entry it designates (`transport_sm_abb.c:1033`) is the last one only
if the entries divide it evenly. With 3 entries it may be the entry that the first
write is filling, and the confirmation (`transport_sm_abb.c:1068`) accepts the torn
value. The number of entries is a configured length
(`transport_sm_config_abb.c:625`), and `src/README.md:123` promises uncorrupted
reads without condition on it.

Packets. Hypotheses: `Packet`, `RingDivides`, and one reader that frees each packet
before it receives the next (`OneAtATime`; with two readers, or two packets at a
time, the same buffer is handed out twice and freed once, see the table above).
`PacketInvariant` is the invariant, `PacketIntact` proves `HeldPacketIntact`, and
`PacketWhole` that a packet is one whole write (`ReadUncorrupted`) and as new as the
newest that was complete when the receive began. The window of the last writes is
that of readers that copy. What is new is when nobody writes to a buffer (`Kept`):
the writer has given it up (`MAGIC_NUM`), or its entry is marked `BUFFER_RECEIVED`
and the writer is not past the place where it looks. A writer that comes to the
entry passes through five places, and `Linked` says for each whether it has seen the
mark or will, down to the two halves of the exchange. A reader marks the entry
before it knows that its read is confirmed; `PktReadAt` says that if the
confirmation accepts, the mark is on the entry whose buffer it took. The pool may
run out, and the link to a buffer that was given up stays until the entry has
another (`PktLinkInv`).

With too few buffers an assert fails, so `NoAssertFails` needs one hypothesis more:
that the writer finds a buffer whenever it needs one (`PacketAsserts`, from
`[]PoolLasts`), or that there is a buffer for each write besides those that others
use (`PacketPool`, from `Plenty`, which makes the pool last). `AssertInv` has what this
rests on: an entry with a buffer is never free, which is all that the receive's
assert asks (`BusyInv`); the parent that `mcapi_trans_pktchan_free` follows is the
entry that the buffer is linked to (`ParentInv`), so that the mark it takes away is
never that of an entry the writer is about to publish, whose compare-and-swap would
then fail; and no entry with a reader between its two looks at the buffer index loses
its buffer (`TakeInv`). `PoolInv` counts: a buffer once in use keeps its parent, so
that the buffers ever in use only grow, by one at most with each write, and a writer
that has passed by all of them has met as many as there are. As many buffers as writes
is a coarse bound, and the readers decide whether it is reached: a receive that is not
confirmed takes one out of circulation (section 3).

### Requests (`RequestPoolProofs`)

Every safety property of the pool, from the sole assumption that the requests are
finitely many (`PoolAssumption`): `NoRequestShared`, `RemoveAssertHolds`,
`RefusalIsReal`, `PoolTypeCorrect` and `GuardCorrect`. The invariant is
`BitAndStateGuard`:

* `BitIsGuard`: a thread between setting a bit and clearing it is the only one
  that answers for that bit, and the bit is set;
* `StateIsGuard`: a request in use is not free and has one user. The bit cannot
  show this, because the removal clears it while the request is still in use;
  that a claim is a compare-and-swap from `REQUEST_FREE` does;
* `CallsAgree`: the request a thread works on is not also one its application
  has, and one being removed has ended, so the assert holds;
* `CounterExact`: `curr_count` is the number of requests between increment and
  decrement. At the limit that is all of them, so a refusal is real; and it is
  never negative. This part needs the cardinality theorems of the library.

What the proofs do *not* give is that a reserve returns: it need not
(`ReserveReturns` above), since nothing in the invariant says that a set bit has
somebody who answers for it.

### Non-blocking receives (`ReceiveRequestsProofs`)

| Theorem | Hypotheses | What it says |
|---|---|---|
| `ReceiveInvariant`, `InOrder` | none | messages are delivered in order, each once (`DeliveredInOrder`), whoever cancels whatever |
| `HandlesLive` | `FreshArray` | a handle of the application is that of one live request (`HandleIsLive`) |
| `SuccessReceived`, `MarkAssertHolds` | `FreshArray`, `OwnCancels` | success means a message (`SuccessIsReceipt`), and the asserted swap succeeds |

`FreshArray`: the array given to `wait_any` is not used again, or has one handle;
a handle that was cleared decodes to request 0. `OwnCancels`: only the thread that
waits cancels; another's cancel seen at the second look is reported as success,
and one after the mark fails the assert. There is no theorem that a reservation is
exclusive: with two requests an immediate receive clears the flag that another set on
the head entry.
The first three parts of the invariant (`QueueInv`, `CallInv`, `OrderInv`) hold
without hypothesis: they say what is in the queue and, for each place of the
receiving thread, which entry it is about to take, in particular that the entry a
request reserved is the head of the queue once it has passed the test; `HandleInv` and
`SuccessInv` are inductive on top of them, each under its hypothesis.

### Endpoints and channels (`ChannelsProofs`)

For an `Orderly` application (no open, close or delete of an endpoint while a connect
names it) and a table whose size fits the counter of endpoints (`CountFits`):
`ChannelInvariant`, `TableExact` (`TableIsExact`) and `OpenKept` (`OpenIsKept`). If
in addition no endpoint both sends and receives (`OneWay`), `SentRight`
(`SentToPeer`); if no two channels share an endpoint (`Disjoint`), `ConnectKept`
(`ConnectIsKept`).

The difficulty is the word that holds port, valid, open and connected, written by
several calls that each read it first. `EntryInv` says what a call inside an
exchange has read and still finds; `CreateInv` and `DeleteInv` which endpoint a
create or delete has in hand, and that nobody else has it; `LiveInv` and
`PortInv` tie the words to the endpoints that were created and not deleted, and
`num_endpoints` to their number; `ConnectInv` says for each place of a connect
what it has written so far. Two threads may connect the same channel at once:
whatever they have written is the same (`Linked`), so that neither undoes the
other. `JoinedInv` and `OpenInv` tie the words to what connect, open and close have
reported.

### The table of nodes (`NodeTableProofs`)

For any threads, processes, numbers, domains and slots, and any number of crashes
and restarts:

| Theorem | Hypotheses | What it says |
|---|---|---|
| `NodesCorrect` | `Phases`, `[]PointerNull` | the inductive invariant (`IInv`) |
| `NoFaultProved`, `NodeHasItsSlotProved`, `SameDatabaseProved`, `SlotsAccountedProved`, `FreedByLastProved`, `RefusedForReasonProved` | `Phases`, `[]PointerNull` | the property of that name |
| `ApartCorrect`, `ApartSafe` | `Phases`, `Apart` | `PointerNull` holds; the invariant; all five state properties |
| `RoomyCorrect`, `RoomySafe`, `RoomyAccepted` | `Phases`, `Roomy` | `PointerNull` holds; the invariant; all five state properties; and a node is refused only where a finalize has left the entry of a removed memory (an action property) |

`Phases` is `Overlap = {}`. `PointerNull` says that the node which creates the memory
finds `mcapi_db` of its process null. The code takes it for granted: its
compare-and-swap from null (`transport_sm_initialize_abb.c:165`) has no branch for
failure. The attempt to prove it failed, and TLC found the reason: an initialize
that is refused after it is attached (no free slot, say) returns without clearing
`mcapi_db`, and if the memory is then deleted and another thread of that process
creates a new one, the process stays with the deleted one (the table in section 3).
So it is a hypothesis on the behaviour in the first two rows. It holds in all
894,766 states of `nodes`, where the four initializes are too few for that. The other
rows derive it from conditions on the constants alone. With processes of one node
each (`Apart`), a refused node stays a user of the memory in MRAPI's eyes, so that it
is refused again before it comes to `mcapi_db` (`SpoiledInv`; TLC: 38,963 states with
one slot, shared numbers and a crash). With a number of its own and a slot for every
node, and no crash (`Roomy`), nobody is refused once attached (`RoomyInv`; TLC:
1,473,461 states with 3 threads in 2 processes). The tests and examples of the
repository are of one or the other kind.

The invariant has these parts:

* `TypeInv`, `CallInv`: ranges, and where a thread can be in each of its calls;
  `PhaseInv`: what the phases exclude. The first initialize of all is alone until
  it is done, and finalizes of one process follow each other.
* `MemInv`: a thread uses the memory there is, from the step where it is attached
  to the one where it leaves; one that finalizes may have an older one. `RefInv`:
  MRAPI counts at least the threads that are attached, so that a memory somebody
  uses is not removed. `MadeInv`: memories are made one by one, at most one for
  each initialize.
* `SeatInv`: a thread that has claimed a slot keeps it, with its number and, once
  written, its owner; no two have the same. The words of a slot are changed by an
  exchange that is a read and a compare-and-swap whose result is ignored, so
  `SeatInv` says what is between the two: what the thread has read is still there,
  but for a signal handler of its own process.
* `AccInv`: a slot that is allocated has a thread, or a process that a signal ended
  or is ending. `ClaimInv`: the slots that an initialize found allocated stay so,
  whence a refusal is real.
* `LastInv`: a finalize that has not yet met a node of another process, or of its
  own, in the slots it has passed, has passed none. So the one that deletes is the
  last (`FreeInv`).
* `CountInv`: `num_nodes` is the number of threads between the increment and the
  decrement, and at least that after a crash. This and `RefInv` need the
  cardinality theorems of the library.
* `PointerInv`: `mcapi_db` of a process is set by one of its threads that uses it, or
  left by one that was refused.

For each action a lemma says what it does in the terms of the invariant
(`...Effect`). Then each part is kept by the step of a thread for that thread
(`...Own`), by the step of another (`...Others`), and by the end of a process. It is
the pairs of threads that make the properties hard to test, and the `...Others`
lemmas go through them all.

### MRAPI locks (`MrapiLocksProofs`)

| Theorem | Hypotheses | What it says |
|---|---|---|
| `GuardCorrect` | none | a call at work on an entry holds the guard it chose |
| `SectionsExclude` | `OneGuard` | no two calls are at work on one entry (`Exclusive`) |
| `BirthCorrect`, `GrantedRight` | `Once` | a lock is granted on the entry that was asked for (`GrantedAsAsked`) |
| `CountsKeep`, `CountsExact` | `OneGuard`, `Once`, `~Early` | the count is exact and no assert fails (`CountIsExact`) |
| `AccountsKeep`, `HolderTold` | `OneGuard`, `Once`, `~Early` | the table's holders are those that were told so (`HolderIsTold`) |

`OneGuard`: all calls choose the same kind of guard, which the code intends and
its uninitialized variable does not ensure. `Once`: an entry is created once, as
with extended error checking, which never uses a deleted entry again, or where
nothing is deleted; as the attribute that asks for the checking is the last thing a creator
stores, the former also needs `~Early`. `~Early`: calls on a lock begin after its
creation has returned. The creation is still interleaved with everything else, and a
node may look the lock up in the middle of it; the counts and the accounts are
not true of a lock that was called half created (the table in section 3).
There are four layers:

* `IInv`: a call at work on an entry holds its guard (`GuardHeld`), one about to enter
  has chosen (`GuardChosen`), and a call takes the guards of all entries if and
  only if it is one on several (`CallsAgree`), without which leaving would give up
  a guard that was never taken, or keep one.
* `BirthInv`: a call inside the library is about entries that are still the ones
  its node has handles for (`BornOnce`), though it gives up the guard each time it
  waits; a creator has the global guard, so that there is one at a time, and the
  entry it writes is not in use (`Creating`).
* `CountInv`: for each place of a call, how far the count of the entry, the locks
  that are locked and the locks granted are apart (`LockingWell`,
  `UnlockingWell`, `AtWork`), and that they agree where nobody is at work
  (`Resting`). At each step of a creation it says which of the locks are made,
  locked, held and counted so far (`Halfway`). A lock that needs several finds them because those it has passed
  are locked and enough are left; an unlock ends because enough of them are its
  own. A `lock_multiple` for all is one ahead on the entries it has passed.
* `ToldInv`: the locks in a node's name are those it was told of, up to what the
  call at work is about to report (`ToldOf`), and the keys of a mutex are without
  a gap from the first (`KeysOf`).

The lemma `EntryFrame` carries the weight: a step changes only entries that its
call is at work on. With `Exclusive`, what the invariant says of any other call
then stays true, and each action needs to be looked at for one call only.

### How the model is written for the proofs

Updates of several fields of one entry are written as nested `[@ EXCEPT ...]`
rather than as `![t].a = ..., ![t].b = ...`: they mean the same, and version 1.4.5
of the proof system translates only the former rightly for its SMT backend.
`ModularArithmetic` has the facts on `\div` and `%` with a modulus that is a
parameter, which no backend finds by itself.

### Only model-checked

* Liveness (`SendReturns`, `ReceiveReturns`, `WriteReturns`, `ReadReturns`,
  `LockFreeUnlessLost`, `WaitReturnsUnlessBubble`, `GetReturnsUnlessHole`,
  `OpenReturns`, `TimedCallReturns`) and everything else with fairness or
  `ENABLED`: outside the reach of the prover.
* `NoAssertFails` of `StateMessage` with `Packet` when the pool may run out: it does not
  hold for all values of the constants. Receives that are not confirmed leave marks,
  the writer gives up the buffers they are on and nobody frees them, so that with
  enough writes any pool runs out, and a reader then meets the entry of a failing
  write (`NBuffers = 4` and 6 writes, in section 3). `PacketAsserts` and `PacketPool`
  exclude that case, and so does `state_pkt`, an instance of `Plenty`.
* The half of `ReadFresh` about empty receives, with `Packet`: it fails while a write
  that finds no buffer is in progress, and `failed` records it only when it ends.
* `PointerNull` of `NodeTable` beyond `Apart` and `Roomy`: false in general, as above.
* `TypeOK` of `StateMessage`, `ReceiveRequests`, `Channels` and `MrapiLocks` as it is
  written: the proofs have the parts they need.

## 5. Not modelled

* Topology: the wiring of nodes and channels read at startup
  (`transport_sm_config_abb.c`); its effect is a sequence of the calls modelled.
* Requests on state buffers; attributes and argument checks (single fields).
* The locked builds (`transport_sm.c`, `*_abl.c`): every call is one section under
  one lock; their data structures are those of the models without interleaving.
* MRAPI's remote memory, resource tree and parameter checks; the entry points that
  only check arguments and forward.
* MTAPI: argument checks over POSIX threads with most calls left as stubs; nothing
  else depends on it. conker (a test harness), the utilities, the vendored XML
  parser, the examples and the Rust port: no part in messaging. They are most of
  the repository's lines.
* Address spaces: a buffer holds a pointer to its entry valid in the writer's
  process only (`transport_sm_abb.c:710`).
* Builds with `NDEBUG`: some asserts contain the call itself
  (`transport_sm_request_abb.c:590`), and without them the queue never moves.

## 6. Plan

Done: `MessageQueue` with its abstract specification, `StateMessage`,
`RequestPool`, `ReceiveRequests`, `Endpoints`, `Channels`, `NodeTable`,
`MrapiLocks`; proofs of every safety property that a run checks;
`NoAssertFails` on packets, which is not true of every instance, as long as the pool
lasts.

Left, in this order:

1. `NodeTable` with `Endpoints`: what a node finds in a slot that another has left.
2. Requests on state buffers in `ReceiveRequests`.
3. The startup wiring as a client of `NodeTable` and `Channels`.
4. A bound on the buffers that `NoAssertFails` of packets needs that counts the
   receives which are not confirmed instead of all writes.

## 7. Running it

`tlc -config MC_queue_msg.cfg MCMessageQueue`, and likewise for the other
configurations (`MC_queue_*` with `MCMessageQueue`, `MC_state_*` with
`MCStateMessage`, `MC_pool` with `MCRequestPool`, `MC_recv_*` with
`MCReceiveRequests`, `MC_channels` with `MCChannels`, `MC_nodes` with
`MCNodeTable`, `MC_locks*` with `MCMrapiLocks`);
`tlapm M.tla` for `ModularArithmetic` and each of the modules whose name ends in
`Proofs`. On four cores `NodeTableProofs`, the longest, takes some fifteen minutes,
`MrapiLocksProofs` thirteen, `MessageQueueProofs` six, `ChannelsProofs` four,
`StateMessageProofs` three, and the others one or two each.
