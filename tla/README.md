# TLA+ specifications of SmallProjects

SmallProjects is a collection of independent programs, most of them small and
many of them concurrent: lock-free and locked data structures, job queues,
load generation, coroutines, event loops, servers. They share no code, so this
directory holds one specification per program (component), with TLC
configurations that check it on small instances and TLAPS proofs for any
instance. `PROJECT.json` lists components, runs, mutants, hazards, findings and
theorems, and maps every definition to the lines of the source it stands for.

Contents: [1 Inventory](#1-inventory) · [2 Plan](#2-plan) ·
[3 Mvcc](#3-mvcc-the-multi-version-cell) · [4 Bio](#4-bio-background-jobs) ·
[5 LoadGen](#5-loadgen-the-load-generator) · [6 CMap](#6-cmap-the-concurrent-map) ·
[7 AeLoop](#7-aeloop-the-event-loop) · [8 Coroutine](#8-coroutine-scheduler-events-timers) ·
[9 Sequential structures](#9-sequential-structures) ·
[10 Interleaved structures](#10-interleaved-structures) ·
[11 Runs](#11-runs-bounds-and-fairness) · [12 Proofs](#12-proofs) ·
[13 Divergences](#13-where-the-code-differs-from-its-comments) ·
[14 Limits](#14-what-is-not-covered)

To repeat the checks, in this directory:

    tlc -workers 2 -config MCMvcc.cfg MCMvcc      # one run; see section 11
    tlapm MvccProofs.tla                          # one set of proofs

## 1 Inventory

Concurrent components, the ones worth a model first:

| component (src/) | state | operations | what is hard | what makes it correct |
|---|---|---|---|---|
| `mvcc` (`mvcc.hpp`) | one atomic `shared_ptr` to an immutable snapshot (version, value) | current, overwrite, update, try_update, try_update_until/for, assignment | lock-free retry loops, address reuse behind a compare-and-exchange, a deadline racing a success | linearizable versioned register; snapshots immutable; no lost update; operations end |
| `asyn_network/bio.c` | per job type: queue, counter, mutex, condition variable | create job, worker loop, pending count | signals and waits, the limit, jobs run outside the mutex | FIFO, each job in one hand, no lost wakeup, every accepted job is run |
| `loadgen` (`gen.go`, `gotickets.go`) | status word, context, result channel, ticket pool, call counter; per call a goroutine and a timer | Start, Stop, genLoad, asyncCall, sendResult | four kinds of goroutine racing for a status word; answer against timeout; panics; closing a channel with senders | the status is a lock; tickets balance; an answer or a timeout per call, never both; Stop returns |
| `cmap` (`cmap.go`, `segment.go`, `bucket.go`, `redistributor.go`) | segments with a mutex, bucket arrays of linked pairs, counters | Put, Get, Delete, Len, redistribution | Get walks lists without the lock while pairs are relinked and redistributed | a map at rest; Get linearizable; counters agree; no cycles |
| `asyn_network/ae.c` | registered file events by descriptor, fired array, list of time events | create/delete file and time events, processEvents | callbacks change the tables being iterated; descriptors are reused; clock set back | a callback runs only for an event its registration asked for; every due timer runs, once |
| `coroutine/coroutine_3` | run queue, current coroutine, tree of all coroutines, timer tree, event tree and epoll set, keys with destructors | create, yield, wait, wake up, kill, call, sleep, read, write, coloop | a coroutine can be in the run queue, the timer tree and the event tree when it is killed; edge-triggered events; callees that stand in for their callers | the run queue holds who can go on; every sleeper and reader is woken; nothing points to a freed coroutine |
| `coroutine/coroutine_1` | table of coroutines, one shared stack | new, resume, yield, close | saved stacks of different size, table growth | a coroutine resumes with the stack it left |
| `http_conn` | worker queue and semaphore, table of connections by descriptor, one-shot epoll | append, run, init, read, process, write, close | a descriptor closed by a worker is accepted again by the main thread | one thread per connection at a time; the user count |
| `LiveChat/src/backend/server.js` | redis: users, sessions; sockets by user | register, login, send, read, disconnect | handlers interleave at every callback of redis | who is in the room is on line; no message lost |
| `Skiplist_KV` | towers of nodes, element count, dump file | insert, search, delete, dump, load | a mutex taken by writers only | ordered, towers are sublists, search right |

Sequential components with state:

| component | state | correct when |
|---|---|---|
| `Circular_Buffer` | array, index, full flag | a bounded sequence that forgets its oldest element |
| `Consistent_Hashing` | ring of replica points, sorted hashes, member set and count | Get is the clockwise successor; counters match after any add/remove/set |
| `trfs` | block array, directory entries, counters | a file's block is in use by nobody else; names resolve |
| `KernelLinkedList`, `asyn_network/adlist` | doubly linked lists, iterators | forward and backward links agree |
| `MinWebFramework`, `WebSocket_1`, `WebSocket_2`, `fastcgi` | one request or connection | the handshake comes first; a record is parsed as it was built |

Interactions. Within `asyn_network`, `main.c` drives `ae.c` and calls `anet.c`
from its callbacks; `bio.c` shares only `adlist.c` with them. `http_conn/main.cpp`
hands ready connections to the thread pool, whose workers call
`http_conn::process`. `loadgen` calls a `Caller` it is given and returns its
results on a channel the owner reads. The front end of LiveChat talks to
`server.js` by socket messages. No other component calls another one.

## 2 Plan

Order: the components where a wrong interleaving does the most harm and where
tests do the least come first.

1. **Done.** `VersionedRegister` (abstract), `Mvcc` (refines it), `MvccProofs`.
2. **Done.** `Bio`, `BioProofs`.
3. **Done.** `LoadGen`, `LoadGenProofs`.
4. **Done.** `CMap`; `CMapProofs` about its counters, the map and its Gets until
   it first grows, the map while it grows, and lists that never cycle.
5. **Done.** `AeLoop`, `AeLoopProofs`.
6. **Done.** `Coroutine`, `CoroutineProofs`.
7. **Done.** `CircularBuffer` refining `RecentItems`, `ConsistentHash`;
   `AdList`, `KernelList`; `StructuresProofs` about these four; `RBTree`.
8. **Done.** `Skiplist`, `SharedStack`, `LiveChat`; `ThreadsProofs` about these
   three.
9. **Done.** Proofs about lists of nodes (`AdList`, `KernelList`, `Skiplist`, `CMap`):
   induction along a list by its first counterexample, since the induction
   theorems of the library cannot be instantiated (section 12).
10. **Open.** A proof about `RBTree`. It is the one component with invariants and
   no theorem: its walks and rotations follow links of a tree through folds and
   recursive functions, and the argument needs black heights of subtrees, a
   recursion over a tree and not along a list.

Conventions for all modules: parameters are CONSTANTS with named assumptions;
one action per critical section, atomic access or callback; invariants are
conjunctions of named parts, and a run names the conjunction; no RECURSIVE operator, so that every module can be
proved about; definitions called "Mutant" are variants of the action that follows them with a plausible
bug: they are used to show that a property can fail, and no specification
contains them.

## 3 Mvcc: the multi-version cell

`Mvcc.tla` models `mvcc/mvcc.hpp` at the level of atomic accesses to the shared
pointer. The heap is explicit: `heap[n]` is the snapshot at address `n`, and
`make_shared` (`Free`) hands out any address no `shared_ptr` refers to. This is
what makes the compare-and-exchange interesting: it compares addresses, and an
address can come back with another snapshot.

| TLA+ | code |
|---|---|
| `current[o]` | `mutable_current_` of object `o` |
| `expected[t]`, `desired[t]` | the locals of `overwrite_impl` (224-240) and `try_update_impl` (278-295) |
| `held[t]` | the `const_snapshot_ptr` returned to the caller |
| `Make`, `LoadOverwrite` | 226-232: build once, then in each round load and write the version |
| `LoadUpdate`, `Build` | 283-286: load, run the updater, build the successor |
| `CasWins`, `CasLosesOverwrite`, `CasLosesUpdate` | `atomic_compare_exchange_strong` and what each caller does with its answer |
| `Retry`, `Expire` | the loops of `update` (242-254) and `try_update_until_impl` (297-313) |
| `FetchOther`, `Store` | `operator=` (177-191): a load and a store, not one atomic step |
| `Current`, `Release` | readers (193-209) and the end of a `shared_ptr` |

`VersionedRegister.tla` is what a user may rely on: an array of registers in
which each `Publish` installs the successor of exactly the snapshot it replaces;
a thread may `GiveUp` only if somebody else stored something since its attempt
began; assignment copies a snapshot that some register had earlier, versions
included. `ImplementsRegister` is the refinement, with the register read through the pointer
(`heap[current[o]]`). `pubs` and `mark` are history variables.

Left out: the two smart-pointer back ends (std or boost, the same operations),
the back-off duration, and the copy and move constructors (163-175), which pass
the object itself to `atomic_load` and cannot be instantiated.

## 4 Bio: background jobs

`Bio.tla` models `asyn_network/bio.c` for one job type; every array of the file
is indexed by type and types share nothing. A critical section under
`bio_mutex[type]` is one step. A worker is `awake` (about to look at the queue
with the mutex), `asleep` in `pthread_cond_wait`, has `taken` a job, or is
`running` its function. `Signal` wakes a sleeper of the implementation's
choice; `WakeSpuriously` is the wakeup POSIX permits.

| TLA+ | code |
|---|---|
| `Accept`, `Refuse` | `bioCreateBackgroundJob` (177-203), either side of the limit |
| `Sleep`, `Pop`, `Start`, `Finish` | the loop of `bioProcessBackgroundJobs` (226-267) |
| `PendingJobs` | `bioPendingJobsOfType` (278-286) |
| `accepted`, `popped`, `finished` | history |

`job[w]` is the local variable of a worker, which keeps the address of the job it
freed last; `InOneHand` therefore speaks of the workers that are between taking
a job and the end of its function (`Holders`). `BacklogIsLimited` is what the limit is
worth: the counter never counts less than what waits. What the comments of the file
say of the counter and of the order of processing is more than that (section 13).

`bioKillThreads` (asynchronous cancellation while the process exits) is not
modelled; neither are the arguments of a job (line 253 passes `arg1` for both of
the first two of three arguments of `func`, which no job in the repository would notice).

## 5 LoadGen: the load generator

`LoadGen.tla` models `loadgen/gen.go` and the ticket pool. Actors: callers of
`Start` and `Stop`, one `genLoad` goroutine per run, one goroutine and one timer
callback per call. Each compare-and-swap, channel operation and Caller
invocation is a step. A panic sends a call to its deferred function
(`CallRecover`); a panic that nothing recovers sets `crashed`, after which only
a stutter is possible in the code. A context is the number of its run; `ctxDone`
grows by `StopCancel` and by `DurationExpires`.

| TLA+ | code |
|---|---|
| `StartCas`, `StartPrepare`, `StartGo` | `Start` (261-299) |
| `StopCas`, `StopCancel`, `StopReturn` | `Stop` (301-315) |
| `GenCheck`, `GenTake`, `GenThrottle` | `genLoad` (238-258), both `select`s |
| `GenStopping`, `GenClose`, `GenStopped` | `prepareToStop` (217-226) |
| `CallBegin` ... `CallReturn` | `asyncCall` (118-189), `callOne` (87-115) |
| `CallSend`, `CallPush`, `TimerSend`, `TimerPush` | `sendResult` (192-206): the check of the status and the send are two steps |
| `TakeTicket`, `ReturnTicket` | `lib/gotickets.go` |

Left out: durations (the deadline and a call's timeout may come at any moment),
the throttle's rate, contents of requests and results, and `NewGenerator`.

## 6 CMap: the concurrent map

`CMap.tla` models one segment of `cmap`, and `cmap.total`. Segments share
nothing else and the segment of a key is a pure function of its hash. What a
writer does with the mutex held is one step, unless a reader without the mutex can see the
middle of it: a Put is one store into `firstValue` of a prepared pair, a Delete
copies the pairs before its target and is one store as well, but the
redistribution clears and refills buckets access by access (`Clear`,
`MoveToEmpty`, `MoveToFound`, `MoveLink`, `MoveStore`). A reader is a walk:
`GetFirst`, `GetWalk` (one pair per step) and `GetElement`.

| TLA+ | code |
|---|---|
| `pair[n]`, `made` | pair objects, in the order they are allocated; Go never reuses one that is reachable |
| `first[b]`, `size[b]` | `bucket.firstValue`, `bucket.size` |
| `PutNew`, `PutReplace`, `Delete` | `segment.Put/Delete` over `bucket.Put/Delete` |
| `Check` | `redistribute`, `UpdateThreshold`, `CheckBucketStatus` and the collecting loop of `Redistribe` |
| `UpdateTotal` | `cmap.go` 80-111: the total is changed after the mutex is released |
| `truth`, `allowed` | history: what each key should have; what a Get under way may answer |

A fact of the code that shapes the model: `bucket.Put` stores a pair that goes
into an empty bucket with whatever `next` it has (61), and `Redistribe` hands it
pairs that still have the `next` of their old list. After a redistribution a
list may contain, behind its own pairs, pairs of other buckets. Lookups still
find the right pair first until the second redistribution (section 13).

## 7 AeLoop: the event loop

`AeLoop.tla` models `asyn_network/ae.c` over `ae_epoll.c`, as `main.c` starts
it: a listening socket, a periodic timer, a callback before each sleep. There is
one thread, and the nondeterminism is in what callbacks do: while one runs
(`callback`) it may perform any operation of the interface, one per step, on
its own descriptor or another one, and then returns. `phase` is where the loop is:
before sleeping, in `epoll_wait`, calling file callbacks, calling timers.

| TLA+ | code |
|---|---|
| `mask`, `proc`, `maxfd`, `setsize` | `events[fd]`, `maxfd`, `setsize` of the loop |
| `poll`, `open` | the kernel: the epoll set, the open descriptors |
| `fired`, `stage`, `invert`, `any` | the fired array still to be handled and the locals of 531-582 |
| `list`, `when`, `live`, `te` | the time events in order, their times, whether their id was replaced by `AE_DELETED_EVENT_ID`, the cursor of `processTimeEvents` |
| `CreateFileEvent`, `DeleteFileEvent`, `ResizeSetSize` | 131-193, 93-110, with the epoll_ctl calls of `ae_epoll.c` |
| `Accept`, `CloseFd` | the callbacks of `main.c` (84-110, 44-48): the kernel hands out the lowest free descriptor, so a number comes back |
| `StartPoll`, `PollReturns`, `PollTimesOut` | 450-524 and `aeApiPoll` (118-151) |
| `FireReadable`, `FireWritable`, `FireReadableLast`, `FireNext` | 531-582, one step per `if` |
| `StartTimers`, `RemoveTimeEvent`, `CallTimeEvent`, `SkipTimeEvent`, `TimerReturns` | `processTimeEvents` (326-417), one step per time event |
| `Tick`, `SetClockBack` | `gettimeofday` and `time`, which may go back |
| `owed`, `finalized` | history: time events due when the pass began; finalizer calls |

Assumptions the interface leaves to its callers: a callback removes the events of
a descriptor before it closes it (as `MainCloseFd` does), only registers open
descriptors, never removes the listening socket's event, and resizes the loop
only before it sleeps: `aeProcessEvents` keeps a pointer into the array that
`aeResizeSetSize` may move. `ae.c` as it stands does not compile
(`eventLoop->flags` is no member of the structure, and `ae.h` 81 declares
`wfileProc` as a pointer to an `aeFileEvent`); the model takes `wfileProc` for a
function, as it is used, and the flag for not set.

What the loop does *not* promise: readiness that was reported for a descriptor is
delivered to the new owner of its number if a callback closed it and accepted
another connection in the same iteration. `NoDeadCallback` says only
that the event is registered and the descriptor open when a callback is called.

Left out: `aeWait` (a `poll` of its own), `aeStop`, `aeDeleteEventLoop`, the
after-sleep callback, the data `main.c` reads and writes, `clientData`.

## 8 Coroutine: scheduler, events, timers

`Coroutine.tla` models `coroutine/coroutine_3/src`. There is one thread; the main
thread (0) and the coroutines take turns along a circular run queue, `ring`, and
a step is one operation of the `current` one. What makes it hard is that a
coroutine is in several structures at once (run queue, timer tree, event tree,
the call chain), that a killed one goes on until it is switched away, and that
epoll reports edges only.

| TLA+ | code |
|---|---|
| `ring`, `current` | the list through `rq_node` from `init` on, `current` |
| `at[n]` | where a coroutine's stack stands: in a wait, a sleep, a read, a call ... |
| `exit`, `parent`, `child`, `top` | the fields of `co_t` |
| `tree`, `when`, `sleeper` | `sleep_info_root`, the times in it, the value of `key_sleep` |
| `watch`, `fd`, `edge`, `data`, `room` | the event tree; a coroutine's `coevent_info`; the kernel's side of the descriptors |
| `SwitchTo` | `__switch_to` (sched.c 183-250) with the destruction of a coroutine whose exit flag is set, and its keys' destructors |
| `BlockIn`, `Yield`, `Wait` | `__schedule` (252-274), the next one looked up *before* the node is unlinked |
| `Kill`, `Woken` | `cokill` (350-361), `__cowakeup` (367-372) |
| `Call`, `Return` | `cocall`, `__call` (call.c): the callee's node replaces the caller's |
| `Sleep`, `SleepReturns`, `WakeSleepers`, `DoesNotWait` | syscall.c 38-199 |
| `Read`, `Write` | `coread`, `coread1`, `coaccept`, `cowrite` |
| `PollEvents`, `PollNothing` | `event_loop` (event.c 127-175) with its polling rounds |
| `Asleep` | of the coroutines that have an event or whose time has come, those that `__cowakeup` puts in the queue, one after the other |
| `MainSchedules`, `MainIdle`, `WakeSleepers` | `coloop` (syscall.c 292-298) |

A killed coroutine runs on and may call. The switch to its callee destroys it, and the
callee's own `co_t`, which `cocall` keeps on the caller's stack, goes with that stack (sched.c
199-247, call.c 15-26). From there the program's behaviour is undefined: the
model makes the step, so that the state in which it happens is checked, and stops
(`CallerFreed`). `exit` keeps those that were destroyed.

The peers of the connections (`PeerSends`, `PeerReads`) and the clock (`Tick`) are
external. `Write` models what the code does, which is not what was meant: a writer
without room waits for an edge that it is never registered for, and is resumed
only by an edge of incoming data or by a wake-up; no property says that it is.

`RBTree.tla` models the tree of `rbtree.c` and `rbtree.h` by itself, with left
and right as two sides of one code: `InsertTurn` and `EraseTurn` are one
turn of the rebalancing loops, `Succeeded` is the removal of a node with two
children. `IsRedBlack` also compares parents and children, which a removal could
leave inconsistent without any walk noticing at once. `Coroutine` uses its
outcome: a set ordered by time, which does not take a second node with the same key.

## 9 Sequential structures

`CircularBuffer.tla` (`Circular_Buffer.h`) is the array with its index and full
flag; `RecentItems.tla` is what it promises: the last items, oldest first.
`RingIsRecentItems` is the refinement; `items` is what `operator[]` shows, so it
also says that `operator[]` never shows a slot nobody assigned.

`AdList.tla` (`adlist.c`) has nodes in a bounded memory, so that every
allocation can fail, and wipes a node that is freed, so that a link into it is
noticed. `Fresh`, the node an allocation gives, is some unused one: nothing is
said about which. A list is worked on while an iterator stands on it; `watched` and `left`
are history for `IteratorSeesAll`. A second list is the target of `listDup`.

`KernelList.tla` (`list.h`) builds every operation from the two pointer writes of
its helpers (`Join`), reading pointers where the code does, after earlier writes
if it does so after them. `lists` records what each list should hold according
to the comment of the operation. `NextToWalk`, `WalkOn` and `WalkBody` are the
loops of the header: in both directions, from the head or from any entry, and,
when the loop is one of the `_safe` ones, around a body that takes the current
entry away. A body may delete other entries too (`WalkDrops`). A forward safe
loop may then read its pointer again with `list_safe_reset_next`, whose comment
asks for a `list_for_each_safe` loop (list.h 777) and which always takes the next
entry: in a backward loop it would turn the loop round, so backward safe loops
only delete entries they do not have in hand. `TestsAreTrue` compares `list_empty`, `list_is_singular`,
`list_is_first` and `list_is_last`, which look at two pointers at most, with
the whole list.

`ConsistentHash.tla` (`consistent.go`): every public function takes the lock, so an
operation is a step. `Search`, `GetMember`, `Met`, `GetN` are the lookups; the loop of `GetN` passes
the owners of the points clockwise (`OnTheWay`) and takes each at their first
meeting (`Met`);
`ReturnsTwo` and `ReturnsN` are the conditions under which the loops of
`GetTwo` and `GetN` end. A `Set` gets up to `MaxNames` names, of members or not, in any order.
`GetN` checks whether it has n members only after it has added one: asked for none it
goes on until it is round, so that it gives all members, or, when the search
starts at the first point, never returns although the count is right
(consistent.go 259-279). `LookupsReturn` states this boundary: for n = 0 it says
exactly when the loop ends and with what; from n = 1 on that it ends with n members. `NearestMembers` compares the lookups with a reference
definition by distance around the circle, `OnlyNeededKeysMove` is the point of
consistent hashing. Both assume what the code does not check: different hashes and
a count that did not drift (section 13).

## 10 Interleaved structures

`Skiplist.tla` (`skiplist.h`): a writer, which holds the mutex, changes one
pointer per step (`LinkLevel`, `UnlinkLevel`, `Lower`); a search holds nothing and
reads a pointer again each time the code names it: in the test for null, in the
comparison and in the assignment (`Test`, `Compare`, `Move`).
`LevelsAreSorted` speaks of every moment, in the middle of an insert or a delete too:
at each level the pointers lead through nodes in the order of their keys, each of
them in the level below but for the node that is being taken out.
`SearchesAreLinearizable` says what a search's answer is worth: a key found was there
while the search ran; a key missed was not, unless a delete or the insert of a
smaller key ran meanwhile; and only a delete can make it dereference null.

`SharedStack.tla` (`coroutine_1/coroutine.c`): `stack` and `sp` are the one
stack, `saved` a coroutine's copy of its part. What a coroutine puts there is
tagged with who it is (`mine`, history), so that `StackIsOwn` notices a byte of
somebody else's. `SlotsAreCounted` is what keeps `coroutine_new` from its
`assert(0)`.

`LiveChat.tla` (`server.js`): an event of a socket runs until it asks redis, the
rest is in callbacks. Redis is asked over one connection, so `replies` is a queue,
each with the data as it was when the command was executed and with the callback
that waits for it; other events come in between. `room` is the redis
set, `online` the server's own map. Neither `onRegister` nor `onLogin` looks
whether the socket has a name already or is still there: in the model a socket asks under any
names, and answers arrive after its end as well. `onDisconnected` takes out one
entry of the socket, the first in the order of the map's keys, which is left
open. So there are two ways to stay in the room for good with the entry of a
socket that is gone, and `stranded` remembers whom they befell: being let in after
the end of the socket, and being another name of a socket than the one its end
took out. `RoomIsAccountedFor` says that there is no third way; what the
comments say has no exception (section 13).

## 11 Runs, bounds and fairness

| run | instance | shows |
|---|---|---|
| `mvcc` (MCMvcc.cfg) | 2 threads, 2 objects, 2 operations, 4 nodes, 2 values | refinement of the register, across assignments; private drafts, immutable snapshots; operations return |
| `bio` (MCBio.cfg) | 3 workers, limit 4, 5 calls | order of taking, exclusive hand-over, the limit, no lost wakeup, jobs finish |
| `loadgen` (MCLoadGen.cfg) | 2 callers of Start, 1 of Stop, 2 runs, 2 tickets, 2 calls, buffer of 1, panics in one of the calls | tickets balance, no call reported both with its answer and as timed out, at least one report per call, the status word is a lock, Stop returns, the channel is closed, calls end |
| `loadgen_late` | 1 call | violation, section 13 |
| `cmap` (MCCMap.cfg) | 1 writer, 1 reader, 3 keys in one bucket, 5 operations | a map at rest, Get linearizable, counters agree |
| `cmap_move` (MCCMapMove.cfg) | 2 writers, 1 reader, 4 operations, 1 to 4 buckets | two redistributions under a reader: last elements kept (`GrowsFaithfully`), no cycles, Get returns, the total catches up |
| `cmap_deleted` | 1 writer, two redistributions | violation, section 13 |
| `ae` (MCAeLoop.cfg) | 2 descriptors, 2 callback functions, the main timer and another, clock of 3 ticks | table, kernel and `maxfd` agree; no callback for what is gone; timers live once, bound the wait, and run |
| `coroutine` (MCCoroutine.cfg) | 3 coroutines or calls, 1 descriptor, 5 operations of user code, clock of 2 ticks, 1 polling round | the run queue, no dangling records, no caller freed but one that was killed, killed coroutines end, sleepers and readers wake |
| `co_sleep` (MCCoroutineSleep.cfg) | 2 coroutines, no descriptor, 4 operations | violation, section 13 |
| `structures` (MCStructures.cfg) | ring: capacities 1, 2, 3, 5; adlist: 4 nodes; kernel list: 2 heads, 3 entries; tree: keys 1 to 8; hash: 3 members with 2 points each on a circle of 7, 12 hash functions, Sets of up to 3 names, lookups of 0 to 3 members | section 9 |
| `threads` (MCThreads.cfg) | skip list: 3 keys and nodes, 3 levels, a writer and a search; stack: 3 coroutines, 2 cells; chat: 2 users, 2 sockets, 3 requests in all (`MaxEvents`), up to 2 of them registrations or logins of one socket, up to 2 messages, a read | section 10 |

The invariants that a run names, and their parts where they have several:

| invariant | says together |
|---|---|
| `CallsAreAccountedFor` (LoadGen) | `TypeOK`, `TicketsBalance`, `ReportsExclude`, `EveryCallReports` |
| `StopEnds` (LoadGen, temporal) | `StopReturns`, `RangeEnds` |
| `CountedMap`, `GrowsIntact` (CMap) | `TypeOK`, `MapsKeys`, `CountsAreRight`; `GrowsFaithfully`, `NoCycles` |
| `TablesAgree` (AeLoop) | `TypeOK`, `EpollAgrees`, `MaxFdIsLargest` |
| `TimersAreKept` (AeLoop) | `OneLifePerTimer`, `WaitCoversTimers`, `DueTimersRun` |
| `NobodyIsFreedEarly` (Coroutine) | `NothingDangles`, and of callers that they know their callee and are alive or were killed; `TypeOK` is in `RingIsRunnable` |
| `ListsAreRight` (AdList) | `ListTypeOK`, `ListsAreLists`, `IteratorSeesAll`, `IndexCountsBothWays` |
| `ListsAndWalksAreRight` (KernelList) | `ListsHoldWhatTheyShould`, `WalkMeetsAll`, `TestsAreTrue` |
| `TreeIsRight` (RBTree) | `IsRedBlack`, `WalksAreSorted` |
| `LookupsAreRight` (ConsistentHash) | `NearestMembers`, `LookupsReturn` |
| `StacksAreKept` (SharedStack) | `StackTypeOK`, `StackIsOwn`, `SlotsAreCounted` |
| `LoginsAreAccountedFor` (LiveChat) | `ChatTypeOK`, `OneAnswerEach`, `RoomIsAccountedFor` |

The `TypeOK` of Mvcc and Bio is in no run, because it is proved (section 12).

Bounds. `MaxOps`, `MaxJobs`, `MaxStarts` and `MaxCalls` stop the callers; they never disable
a step inside an operation. In Mvcc an operation keeps at most one node of its
own alive, so `MaxOps` plus the number of objects nodes never run out, while
fewer nodes than allocations force addresses to be reused; two values with an
inverting and an identity updater tell apart an update of the replaced snapshot and of an older one.
In Bio the limit of 4 with five calls is reached with jobs queued,
and by counting refused calls. In LoadGen two calls with a buffer of one fill
the channel; panics are allowed in every stage of a call. In CMap the real
threshold (at least 75 pairs per bucket) is scaled down to 2, so that a
redistribution needs two pairs instead of 75, and `Threshold = 20` in
`cmap` switches it off; the 64-bit counters wrap at `Word = 32`, above every
count a run reaches without wrapping (`CMapBounds` demands that `Word` exceeds pairs and
operations, as 2^64 does in the code). `MaxNodes` bounds allocations (an operation
that would need more is disabled) and `MaxBuckets` the redistributions.
Three keys give lists with a first, a middle and a last pair;
`MCHash` splits them 2 : 1 over two buckets, `MCHashTogether` keeps two of them
together in four, which is what it takes for a moved pair to be linked in front
of another (`MoveLink`). The properties of `cmap_move` were also checked once
with four keys, seven operations and eight buckets, without a reader. In AeLoop two
descriptors let one callback disturb the other's firing and let a number be
reused; `MCBudgets` lists how many operations of each sort go together: three on
file events, or two on time events and one setting back of the clock, or one of
each of the first two, on top of what the loop and the timers' own returns do. `MaxTime` of two ticks, two to a second, gives a second
that can be set back, and `MaxTimers = 2` a list whose order differs from
that of the times. `CHECK_DEADLOCK FALSE` appears
where callers may have used up their calls and everybody rests (and in LoadGen
after a crash of the process); Mvcc and Bio never stop, because readers and spurious wakeups go on.

`structures` and `threads` put components that do not interact into one run: a
variable `which` chooses one in the initial state, the others keep a single
state. In the tree eight keys reach a black height of three, and every case of
removal: a sibling that is red, black with black, near red and far red
children, on both sides. In the lists, four nodes and three entries let operations meet the first, a
middle and the last element, and neighbours; two heads are what splicing and
cutting need. The capacities 1, 2, 3, 5 are resized into each other with more
items than fit, as many, and fewer. `MCHashes` has hash functions with and
without collisions and with the members' points in several orders. In `threads`
a search meets two writers and every level; a coroutine's saved stack is
shorter than, as long as and longer than what ran in between; two sockets under one
name, under two, or one under both register, log in, send and leave in every order, with
answers on the way. Two ticks of the clock give `Coroutine` two
sleepers that wake at different times, and five operations let one coroutine create another that calls, sleeps or
reads and is killed there.

The run `threads` uses the symmetry of users and of sockets; its properties are invariants that treat all
of them alike. No other run uses symmetry.

Fairness. Weak (but for the passing of time in AeLoop), and only of steps inside an operation that has begun:
threads are scheduled, mutexes are eventually granted, functions given by the user
return. Callers never have to call. For Mvcc (`Step`): a compare-and-exchange
fails only because another succeeded, and a bounded number of operations
compete, so the loops end. For Bio (`Work`): a worker gets the mutex and its
job's function returns. For LoadGen: of Start and Stop in progress, of
the generator, and of calls and timers, some goroutine that can go on does, the
context's deadline passes, and a Call returns or panics; the receiver of the results is *not* required to read, which is the
point of `CallsEnd`. For CMap: the redistribution and a Get in progress
proceed. For AeLoop: the loop's thread runs, callbacks return and time passes
(strongly fair in the model, where it stands still between two file callbacks
because nothing reads the clock there); no descriptor ever has to become ready, which makes
`TimersFire` depend on the timeout alone. For Coroutine: the one thread runs
(functions return, what blocked goes on when it is switched to, coloop goes
round) and time passes; `MaxOps` stands for the coroutines' duty to come to
an end or to block, since coloop does not look at timers and events as long as anybody can
run.

Every property of a passing run has a mutant in `PROJECT.json`: a bug in one
mapped definition under which the same run finds the property violated.

## 12 Proofs

Proved by TLAPS for every value of the constants that satisfies the
assumptions of the modules (any number of threads, workers, nodes, calls,
descriptors, timers, coroutines, users). Each `...Proofs` module has an invariant
(`IInv`; `RingInv`, `HashInv`, `KernelInv`, `ListInv`, `StackInv`, `ChatInv`, `SkipInv`
in the modules about several components; `TotalsAgree`, `TypeInv`, `MapInv`,
`ListsEnd` and `GrowInv`, one on top of the other, in `CMapProofs`)
that every step preserves; the other theorems follow from it.

Many of these proofs are inductions: along a list, over the levels of a
skip list, round a circle of points. They are made without an induction theorem,
whose parameter the provers cannot instantiate: the set of the places where the
claim fails is a set of numbers, so if it is not empty it has a least member
(`LeastExists`, from the library's theorem that `<` on `Nat` is well founded), and what
holds just before that place contradicts it. A recursive function is known by its
values in the same way (`Recursion` and `Throughout` in `CMapProofs`, `AlongIs` in
`StructuresProofs`), given a sequence that spells out the list it walks. The
invariants then speak of such sequences, or sets, and the recursive functions of the
properties are left for the last step.

`MvccProofs.tla`. `Invariance`: the inductive invariant is the conjunction of
`TypeOK`; `Locals` (which locals are set at which point of an operation);
`DesiredIsPrivate`; `IsSuccessor` (a writer at the compare-and-exchange has in
`desired` the successor of the snapshot at `expected`); `OnlyBeaten` (if the
pointer differs from `expected`, somebody stored since the mark). Privacy is
needed because the version of a draft is written in place: without it the
write could change a snapshot that is published, or somebody else's successor.
From the invariant follow `TypeCorrect`, `Privacy`, `Immutability`
(`SnapshotsAreImmutable`, an action property: a node written to was free or a
private draft, so not published) and `Refinement` (`ImplementsRegister`: every
action maps to one action of the register or to a stutter; a winning exchange is
`Overwrite` or `Update` by `IsSuccessor`, a failed one with nullptr is `GiveUp`
by `OnlyBeaten`).

`BioProofs.tla`. `Invariance`: `TypeOK`, `AcceptedOnce` (the accepted jobs are
pairwise different call numbers, none in the future), `TakenInOrder`,
`InOneHand`, `CountsRefusals` (the counter is the queue's length plus the refused
calls), `BacklogIsLimited`, `EnoughAwake`. `AcceptedOnce` is what
makes `InOneHand` inductive: the job at the head of the queue is not
already in someone's hands or finished, because accepted = popped followed by
the queue and no job occurs in it twice. `EnoughAwake` counts: a signal that
finds a sleeper removes one from the sleepers for each job added, and a worker
goes to sleep only with an empty queue. Theorems: `TypeCorrect`,
`FirstInFirstOut`, `OneHand`, `BacklogAlwaysLimited`, `NoLostWakeup`. `OneHand` is about the workers that
have a job in hand, whatever the locals of the others still point to.

`LoadGenProofs.tla`. `CallsAccounted` and `StatusIsALock` are the two invariants
of the run. A call is never reported both with its answer and as timed out
(`ReportsExclude`); a panic after either may add a report of its own, since
nothing stops the timer then (gen.go 118-163). That a call has reported by the time its goroutine ends is
inductive only with what it has reported at every place before (`CallInv`: by
place, status and timer). `TicketsBalance` counts the calls under way, a set
that grows and shrinks by one (`CountMoves`, `CallMoves`). `RunsInOrder` says that
whoever is between its compare-and-swap and its next store has a run to
prepare or to cancel.

`AeLoopProofs.tla`. The invariant has a part for the file tables, one for the
events under way, one for the list of time events, and an action of one part
leaves the variables of the others alone. `TablesAlwaysAgree` needs that the
listening socket stays registered (`Listening`), so that the search for the new
`maxfd` (ae.c 181-186) finds a descriptor; `CallbacksAreForOpenFiles` is
an action property and needs that the table is not cut while events are
under way (`FiredInside`). `TimersAlwaysKept` needs to know where the pass is:
what it owes lies at the cursor or behind it (`OwedAhead`), which insertion at
the head and removal of any other event leave true.

`CoroutineProofs.tla`. The theorems have no hypothesis: killed coroutines call,
too. A state is `Reached` if it satisfies the inductive invariant, or if a killed
caller has just been freed (`Lost`: then the two properties still hold, and no
step follows). `Consistent` has six parts over the ring, the exit flags, the places, the call chains, the
timers and the event tree, with these as parameters: an action first leaves
something consistent behind, and `SwitchTo` then destroys the current coroutine or not
(`Destroyed`, `SwitchKeeps`). What carries the proof is `CallsOK`: the calls of a
created coroutine are a chain by their ids, so that only its last one runs or
waits (`LastOfItsCalls`), which is why one sleep key per created coroutine is
enough and why a switch destroys nobody's caller, but for the one that was
killed and calls (`CallLeaves`, `KilledCalls`). `QueueIsRight` and
`MemoryIsKept` are the two invariants of the run.

`StructuresProofs.tla`, of the ring. `Refinement` shows `RingIsRecentItems` for any capacity:
additions and resizes that grow, shrink or keep the ring map to one step of the list. Its invariant
says that every slot behind the index is assigned, and all of them once the ring was full.

`CMapProofs.tla`. `TotalIsAccountedFor`: the map's total and the segment's count
differ by exactly the Puts and Deletes that have released the mutex and not yet
done their addition, modulo the size of the counter (`Len` can be read while it
has wrapped below zero). `TotalAlwaysCatchesUp` follows, because two numbers below
`Word` that are the same modulo `Word` are equal (`SameBelow`); a bound on the number
of writers is not needed.

`CMapProofs.tla`, of types (`MapIsTyped`). Pairs are never freed, so pointers lead to
pairs that were made; that readers' pointers do, too, is what rules out a Get that
follows one into nowhere. `Held`: only the holder of the mutex is inside the
redistribution.

`CMapProofs.tla`, of the map until it first grows (`BeforeGrowing`). `MapInvariance`: each bucket
has a list with exactly its present keys, once, with their elements, and
its count (`BucketIs`); `total` counts the present keys; and of every Get under way,
what it will find from where it stands is allowed (`Expects`): the first pair with its key has
an element the key had during the call, and if there is none the key was
absent at some time. This is inductive because a Delete copies what was before its target
and leaves the old pairs linked as they were, so that a reader on a stale list still ends
in a current one. `MapCountsUntilItGrows` and `GetSeesUntilItGrows` follow. Both
say "until": after the first redistribution the counts of buckets are no longer those of
their lists and a Get may miss a key that is there (sections 6 and 13), so the
unconditional statements are false; the run `cmap` has a threshold that it never reaches
and checks the same states.

`CMapProofs.tla`, of cycles (`ListsNeverCycle`). The list of every pair ever made, not only of
those in buckets, ends without meeting a pair twice (`ListsEnd`). The step that
could break this is `MoveLink`: the pair that gets a new `next` is not in the list it is
put in front of (`LinkedTo`), which is why no Get can walk for ever.

`CMapProofs.tla`, of growth (`GrowthInvariance`, `GrowsAlwaysIntact`). A list may have
pairs of other buckets behind its own, so the invariant says of bucket b only that a lookup in its
list finds what b should have (`Own`). During the redistribution the pairs are
split into those already put (M) and those in `moving`: together they have
every present key once (`Faithful`, `Complete`), each pair of M is reached from the head of its bucket through
pairs of M alone (`Reached`), and each pair of `moving` still has the `next` it had when it was collected, the one
behind it or nothing (`Ordered`). So a pair put into an empty bucket with its old `next`
brings only pairs that are not yet put, and these do not hide any that are.
With Deletes all this holds up to the second redistribution, which may collect a
leftover of a deleted key: the condition `deleted` of `GrowsFaithfully`
stands in the invariant for the same reason, and section 13 has the counterexample beyond it.
The assumptions are `CMapAssumption` and `CMapBounds`, and that `Free`, the value of
an unlocked mutex, is no writer.

`StructuresProofs.tla`, of consistent hashing. `CircleAlwaysOfMembers` holds for any
hash function, collisions included. `OnlyNeededKeysEverMove` needs in addition that
without collisions the circle has every point of every member (`HashInv`): the
point a name belonged to is then still there if its member is, and the point it
belongs to now was there if its member was, so that they are the same one
(`SearchFinds`, `Follows`). That `Sorted` sorts is a count of ranks (`RanksAreAll`).
In both a `Set` has any number of names up to `MaxNames`, which is any number.
`LookupsAlwaysRight`: from any name the way round comes to every point, in the order of
distance (`WayRound`); the first meeting with a member is its nearest point
(`EveryMemberIsMet`), so `Met` lists the members once each by distance (`MetIs`), and
`GetTwo` and `GetN` take a prefix of it, and `GetN` of none takes all of it or never
returns, the boundary that `LookupsReturn` names. As in the run, this supposes hashes without
collisions and a count that did not drift, and section 13 shows why it must.

`StructuresProofs.tla`, of the kernel's lists. `KernelInvariance`: the pointers show the lists
(`Shows`), that is, head and entries are circles in both directions, place by
place (`Nth`), and no entry is in two. There is a lemma for each way in which pointer
writes rearrange circles (`Inserting`, `Removing`, `Replacing`, `BulkMoving`,
`Rotating`, `Splicing`, `Cutting`, `Settling`), about any lists and any places in them, the
first and last included, where two of the writes go to the same cell. The
operations of list.h are compositions of these: a swap is a removal, a
replacement and an insertion, in both cases the code distinguishes
(`Swapping`). The walks are in the invariant by their place (`AtPlace`), or, when the body of a safe
loop took its entry away, by the place they go on at (`Gone`); entries that a body
deletes elsewhere, with or without a reset of the loop's pointer, shift these places.
`ListsAndWalksAlwaysRight` adds that the tests of two pointers tell what the
whole list says.

`StructuresProofs.tla`, of adlist. `ListInvariance`: the nodes of each list are a
sequence, linked both ways between head and tail and counted by `len` (`Strung`), the two share no node,
and the nodes in use are those of both. `Threading` puts a node anywhere, `Unthreading` takes
one out, `Turning` moves the last to the front; a copy is made node by node
(`NewNodes`). The iterator stands at a place of the sequence, and what it has not yet
returned is ahead of that (`ComesTo`); a deletion moves the place of all that follows
(`WatchesShorter`). The theorems are `ListsAlwaysRight` and the action property
`OperationsAlwaysOnSequences`.

`ThreadsProofs.tla`, of the shared stack. `StacksAlwaysKept`: whoever is not running is new or has in its copy what it had on the
stack (`RestingAreSaved`). `NewFindsASlot`: the search of `coroutine_new` goes round
the whole array (`AroundTheArray`) and the count is that of the slots in use.

`ThreadsProofs.tla`, of the chat server. `LoginsAlwaysAccountedFor`: of each socket, questions are answers plus replies of
redis that wait (`AnswersDue`), a count over the queue that an append raises and
an arrival lowers by one; `InRoom` relates room, `online`, the ends of sockets and the disconnects in the queue,
with the two exceptions that `stranded` remembers.
Nothing is assumed about the names a socket asks under or about when it is answered.
`MessagesAlwaysKept` adds `SavedInAccounts`: who has no account has nothing saved.

`ThreadsProofs.tla`, of the skip list. `SkipInvariance`: every level is a chain of nodes in the
order of their keys (`IsChain`, stated pairwise, without following pointers; `ChainIsLinked` shows that its pointers
reach just these), part of the level below but for the node a writer is taking out. A
writer changes a level at a time (`Linking`, `UnlinkingOne`) with predecessors that
it found before and that are still right, since writers hold the mutex. A search without
it is `Undisturbed`, standing on a chain before its key, unless a Delete ran meanwhile; a Delete
can leave it on nodes that were taken out, from where it reaches only
those and the list. `LevelsAlwaysSorted`, about every state and not only those between two
writers, and `SearchesAlwaysLinearizable` follow, the second with the exceptions that the property names.

Only model-checked: everything under fairness (`OperationsReturn`, `JobsFinish`,
`StopReturns`, `RangeEnds`, `CallsEnd`, `GetReturns`, `TimersFire`, `KilledEnd`,
`SleepersWake`, `ReadersWake`), since the prover has no support for liveness under
fairness or ENABLED; and `TreeIsRight` of RBTree. Its insertions and removals climb the tree in loops that are
folds, with an operator as parameter that the provers cannot instantiate; its
invariant, equal black heights, is a recursion over a tree, for which the
induction above would have to run over subtrees that the rotations rearrange.
The run covers every case of both.

## 13 Where the code differs from its comments

Each has a run whose single property is what the comment says, and TLC's trace
is the code doing otherwise:

* `loadgen_late`: the status is checked and the channel used in two steps
  (gen.go 194-200); if `prepareToStop` closes it in between, the send panics. In
  the body of a call this is recovered, in the timer callback it ends the process.
* `cmap_deleted`: a redistributed pair keeps its old `next` (bucket.go 61); its
  list then shows pairs of other buckets, a Delete there does not remove
  them from this list, and the next redistribution collects them again. For the
  same reason a stale copy can overwrite the element of a key that was put
  again; `GrowsFaithfully` marks how far the map can be trusted.
* `co_sleep`: the timer tree is keyed by the time alone. A coroutine that sleeps
  until a time at which another one already wakes is not inserted (rbtree.h
  116-118), nobody looks at what `rb_insert` returns (syscall.c 65, 98, 145), and
  `co_wakeup` (185) never finds it.

Seen in the models and not given a run. They are what the model does, too, and
the passing properties name them as their exceptions where they touch them:

* `bioCreateBackgroundJob` counts a job before it checks the limit and does not undo
  it when it refuses (bio.c 188-192), so the counter, described as the jobs waiting
  in the queue (105-111, 274-276), drifts up until everything is refused. `BacklogIsLimited` is the
  direction that holds, `CountsRefusals` in the proofs says how far it drifts.
* bio.c 44-46 promises that jobs of a type are processed in order; they are taken in
  order (`TakenInOrder`), but several threads run them.
* A killed coroutine that calls is freed by the switch to its callee, which then
  returns into it (sched.c 199-247, call.c 15-26): the exception in `NobodyIsFreedEarly`.
* `GetN` looks whether it has enough only after adding a member (consistent.go
  259-279); asked for none, it gives all or never returns: `LookupsReturn`.
* A login that is answered after its socket was disconnected stays in the room with
  nobody on line, and so does a second name of a socket (server.js 84, 164-196);
  neither can log in again (168): `stranded` in `RoomIsAccountedFor`.
* `onSendMsg` and `onRead` write back sessions they read before another callback
  wrote (server.js 199-236): the other's message is gone. `overlapped` in `MessagesAreKept`,
  which says that nothing else loses one.

Seen besides: bio.c 107-110 lets a
thread wait until no job of a type is pending, but the counter falls when
a job is popped (244), before it runs; main.c 40 says that a timer whose
function returns 0 runs once, but only -1 (`AE_NOMORE`) stops it and 0 makes it
due again at once; ae.h 24 says that the barrier keeps the writable event from an
iteration in which the readable one fired, but the readable callback may set it
after `invert` was computed (ae.c 549); a second `Start` of
a generator uses a channel that the first run closed (gen.go 223, 266);
`Len` of a map wraps for a while when a Delete's subtraction overtakes the Put
it undoes (cmap.go 108); after a redistribution a bucket's size and the number
of pairs on its list differ (bucket.go 61-62); a Get that walks its bucket while
a redistribution empties it (redistributor.go 148-154) answers nil for a key
that is present (cmap.go 18).

In `coroutine_3`: the comparison of `modify_event` (event.c 110) means
`(events == new) | EPOLLET` and is always true, so a writer without room is never
registered for EPOLLOUT; an interrupted `cosleep` returns
without freeing its record (syscall.c 105-111). In `coroutine_1` a resumed coroutine's
status becomes its id (coroutine.c 159).

In the skip list a search that runs next to a delete can dereference a null
pointer between its test and its use (skiplist.h 290-291), and next to any
writer can miss a key that is there, because it reads pointers again;
`SearchesAreLinearizable` says exactly when. In consistent hashing, adding a member twice or
removing one who is not there makes `Count` drift (consistent.go 82, 100); `GetTwo`
and `GetN` with a start of 0 then never meet their start again and loop with
the lock held (213, 265).

## 14 What is not covered

Components with status `not_modelled` in `PROJECT.json`, each with its reason.
`coroutine_2` and `coroutine_4` are context switches of a few
lines of assembly or ucontext, `anet.c` a system call per function, `MapReduce`
a skeleton, `MyTinySTL` one allocation helper; front ends, build scripts,
logging, the console chat bot, text conversion (`record2sql`), the request router
(`MinWebFramework`) and circuit descriptions (`Adder`) keep no state that
operations compete for. `http_conn` does not compile, and not by misspellings
alone: `threadpool.h` calls `post()` on its list of requests (81), and
`http_conn.cpp` switches on `m_checked_idx`, so that a model would have to guess
what is meant. `trfs` is a kernel module whose behaviour is mostly that of the
VFS around an array it never frees. The web sockets and the `fastcgi` client
parse one message after the other.

Assumptions of the new models. Coroutine: `cocall` is made by coroutines, not by
the main thread, and on a stack of its own; what the program does after a killed
caller was freed is undefined and not followed; a coroutine reads and writes the descriptor it was created for; what a
coroutine does between two operations takes no time. `AUTOSTACK` coroutines, whose stacks
are copied by mapping memory (sched.c 69-181), are treated like the others.
AdList: while an iterator is in use only the node it returned last is deleted, as
the comment in adlist.c (307) demands. KernelList: a head is not used after
`list_splice` before it is initialised again. Skiplist: pointer reads are
sequentially consistent, and each mention of one in the code is a read (the
Makefile does not optimise). LiveChat: redis answers in order and does not fail.

Memory model: Mvcc's and LoadGen's accesses are sequentially consistent atomics
in the code. CMap's readers use atomic loads and stores of Go, which are
sequentially consistent too. Bio's shared state is under its mutex.
