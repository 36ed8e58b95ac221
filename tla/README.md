# Models of aim

aim runs an Android userspace on macOS. Its processes are Darwin processes; what
they expect of a Linux kernel and of Android's init is provided by Rust code. This
directory has TLA+ models of four parts of it in which processes or threads meet:

* **the binder driver**, `crates/aim-binder-driver` (the kernel driver written
  again) and the part of `crates/aim-binder-host`, the daemon that runs it for all
  guest processes, that parks and resumes calls;
* **the fast message queue**, `hal/fmq`: a ring in memory shared by a HAL and its
  client;
* **init's services**, `crates/aim-guest-init`: what starts, stops, restarts and
  reaps them, the action queue an `exec` holds up, and the shutdown;
* **the property area**, `crates/aim-android-init/src/props`: memory that init
  writes and everyone reads, and the wait for a property to change.

TLC checks the models on small instances; TLAPS proves theorems about the allocator,
the message queue, the services and the property area for every instance.

The driver is one `Mutex<State>`. An ioctl takes the lock, executes its commands,
reads, and leaves with the lock dropped and a set of wake-ups to deliver. Nearly
everything under the lock is therefore one atomic step of the model. What can go
wrong is what long sequences of such steps by many processes do to the shared
bookkeeping, and what happens at the places where the lock is *not* held: a read
that waits, wakes on their way, a call parked in the daemon. The message queue and
the property area have no lock at all; there a step is one access to the shared
memory. init has one main thread; there the order of requests, exits and due
restarts is what varies.

## Modules

| module | models | state | run(s) |
|---|---|---|---|
| `BinderAlloc` | `alloc.rs`: the receive area of one process | free ranges, buffers, `free_async_space`, the spam flag | `alloc` |
| `BinderRefs` | nodes, handles, reference counts: `state.rs`, object translation in `transaction.rs`, `node_work` in `read.rs`, reference commands in `write.rs`, `release.rs`, the context manager | processes, nodes, each process's refs, buffers and what they hold | `refs`, `refs_two` |
| `BinderTxn` | calls, replies, one-way calls and their failure: `transaction.rs`, `deliver_transaction`, `release.rs`, `reject_delivery` | threads (stack, list, error slots), transactions, buffers, per-node async queue, `outstanding_txns` | `txn`, `txn_torn`, `txn_live` |
| `BinderDeath` | death notifications: `write.rs`, `state.rs`, `read.rs`, `release.rs` | registrations with state and location, work lists, handles | `death` |
| `BinderWait` | waiting and waking: `driver.rs`, the wakes of `state.rs`, `Call::run` of the daemon's `server.rs` | per thread: where its ioctl is, list, flags, parked call; `waiting_threads`; wakes collected and not delivered | `wait`, `wait_live` |
| `BoundedFifo` | what a message queue promises: whole writes go in, reads take from the front, never more than the ring holds | the bytes in the queue | |
| `Fmq` | `hal/fmq/src/lib.rs`: `read`, `write`, the blocking forms, `wake` and `wait` | ring, counters, EventFlag word, where each end is | `fmq` |
| `Supervisor` | `supervisor.rs`, the service commands of `executor.rs`, the exec wait of the action engine, the shutdown in `boot.rs` | flags of each record, processes, `init.svc.*`, delayed starts, queued `onrestart` commands, phase of the shutdown | `supervisor` |
| `PropArea` | `props/area.rs`, `areas.rs`, and `wait_property` of `aim-guest-init/src/props.rs` | the area's words, the stores under way, the reader's copy | `prop_area` |
| `BinderAllocProofs`, `FmqProofs`, `SupervisorProofs`, `PropAreaProofs` | theorems about the module they are named after | | |

`MC<module>` gives each its instances. The four views of the driver meet in
`release.rs` and in the work lists; each module keeps of the others what its
properties tell apart and says at its head what that is. `BinderRefs` reduces a
transaction to the references its buffer holds. `BinderTxn` lets every process
call every node (who holds handles is `BinderRefs`' matter) and leaves open which
idle thread is chosen (that is `BinderWait`'s). `BinderWait` reduces work to
whether a read ends with it. Splitting this way is sound for the properties
stated because each module lets the parts it leaves out behave in every way they
can, never in fewer.

Definitions keep the source's names where they can: `inc_node` is `IncNode`,
`free_buffer` is `FreeBuf`, fields of records are the fields of the structs.
`PROJECT.json` maps each definition to its lines. Operators that compute on a
record of the state (`S`) translate the methods of `State` that call each other;
an action applies them and sets the variables at once (`Become`). Definitions
introduced by a comment "Mutant: ..." are wrong variants of the definition that
follows; no specification uses them. They record which mistake each property
would catch.

### BinderAlloc

`Allocate` and `Free` are `Allocator::allocate` and `free`, and `Map` creates the
area as `Driver::mmap` does. Sizes are aligned as `align8` does, with the padding
of zero-sized buffers. Best fit with ties broken by the lowest offset, the async half, the
spam check with its "flag once per episode" bit, and the error for each refusal
are kept.

### BinderRefs

A node has its four counts, the two `has_*` flags (what the owner was told), the
two `pending_*` flags (what it has yet to acknowledge), and where its work is
queued. A parcel has at most two objects, so that the second can fail after the
first was translated. Process ids and node ids are used once, as in the code
(`next_id`). Work lost with an exiting thread (`release_work` drops `Work::Node`)
is recorded in `lost`: `OwnerTold` is stated for nodes that did not lose any.

### BinderTxn

One action per command and per item read. Copy failures of a parcel are the
`torn` argument, refusals of a delivery the `refused` one. `Fails` says which
threads meet failures, to bound the state space. A thread exit with an unread
one-way call leaves the node's `has_async_transaction` set with nobody to free
the buffer; `stuck` records those nodes and `OneWayProgress` exempts them.

### BinderDeath

A registration is `Armed`, `DeadBinder`, `DeadBinderAndClear` or `Clear`, and is
nowhere, on the list of a process or of a thread, or delivered. Lists hold ids, as in
the code, so the model can tell an id on a list from the registration being where
it says it is.

### BinderWait

The only module of the driver in which a step is smaller than an ioctl: a read stops
where the code drops the lock (to deliver wakes, to sleep on the condition variable, to
park) and goes on with what it computed before. Threads are *local* (they sleep
in the driver) or *hosted* (the daemon parks their call and retries it when
resumed; `Call::run` races with the resume). Collected wakes wait in `out`, one
set per actor, until `Deliver`; `Ext` stands for actors outside the process. A
condition variable may wake for nothing (`Spurious`). The constants `Writes` and
`Events` select what threads write and what the world does in a run.

### Fmq and BoundedFifo

A step is one access to the shared memory: the load of the peer's counter, the copy
of one byte, the store of the own counter, the atomic operations on the EventFlag
word, the futex calls. Whether the queue has an EventFlag word is chosen in `Init`;
without one the calls give up where they would have waited. The futex compares and
sleeps in one step, may return for no reason, and may fail. The loads and stores of
the counters are acquire and release, so the order of steps is the order the peer
sees. `BoundedFifo` is the promise: a queue of bytes to which a write appends all or
nothing and from which a read takes the oldest. The mapping (`Fifo`, at the end of
`Fmq`) takes `queue` to `Contents`, the bytes between the two counters; copying is
a stutter, the stores of the counters are `Put` and `Get`.

### Supervisor

All of it runs on init's main thread, so one handler is one action; what varies is
the order of requests, exits, due restarts, whether a launch succeeds and how a
process ends. Handlers queue events that the owner drains before it does anything
else: their effects on `init.svc.*` and on the action queue are part of the handler,
the commands of `onrestart` are `pending` and run first. `asked` is a history
variable, what was last asked of a service, for `StopWins` and `Revives`. A temporary
service (`exec`) is a record in `Temp` while it runs. Times are left open: a restart
may fall due at any time, a crash be inside the window or not.

### PropArea

Memory is modelled store by store. Between two release fences the writer's stores
become visible in any order, and the reader's `read(2)` of the area's file copies its
words in any order. A value is a sequence of cells ended by 0, so that a mixture of
two values can be told from either. A read that overlaps a set may return such a
mixture: `read_property` takes one copy and does not look at the serial again. The
model has this; the properties are what `wait_property` can rely on all the same.

## What the runs check

Bounds are small because the interesting cases need few actors; each run was
chosen so that every mutant of its properties is caught in it.

| run | instance | distinct states | checks |
|---|---|---|---|
| `alloc` | areas of 40 and 48 bytes (the second capped from 100), at most 4 buffers, 2 senders | 114,465 | `Tiled` `AsyncAccounting` `EnospcIsHonest` |
| `refs` | 3 processes, 1 node, 2 buffers | 109,809 | `BuffersPinNodes` `CountsExact` `OwnerTold` |
| `refs_two` | 2 processes, 2 nodes, weak references | 116,352 | `HandlesNameNodes` `ReleaseIsSound` `NoSilentRemoval` |
| `txn` | 2 processes, 3 threads, 3 transactions, 2 buffers, nested and one-way | 332,400 | `ReplyFindsCaller` `StacksSound` `CallerIsOwedAnswer` `OutstandingExact` `BuffersAgree` `OneWaySerial` `OneWayProgress` |
| `txn_live` | 2 processes of one thread calling each other, 3 transactions, 2 buffers | 18,728 | `CallsEnd` |
| `txn_torn` | | | finding, below |
| `death` | 2 processes on each other's nodes, 3 threads, 2 registrations | 4,375 | `LocationsExact` `HandlesAgree` `ToldInOrder` `NoticesEnd` |
| `wait` | a hosted and a local thread with nested calls; node work taken off lists, readers without room for files, exit, release | 896,604 | `NoLostWake` `ResumedOnce` `WorkFindsThread` `NoSpin` |
| `wait_live` | the same threads serving; work arriving, interrupts, flushes | 138,669 | `NoLostWake` `WaitingExact` `WorkIsRead` |
| `fmq` | ring of 3 bytes, messages and reads of 1 and 2 bytes, 5 bytes in all | 324,800 | `NoLostWake` `ImplementsFifo` `BlockedCallsEnd` |
| `supervisor` | a service disabled in its script and a critical one, each with `onrestart` commands, one temporary service | 123,782 | `StopWins` `Revives` `PublishedSound` `ExecHasProcess` `KillIsFinal` `ShutdownEnds` |
| `prop_area` | 2 properties, values of 1 and 2 cells, 3 sets | 777,711 | `NoLostWake` `QuietRead` `WaitEnds` |

The type invariant of a driver module is a conjunct of the property that says most
about the same state (`CountsExact`, `StacksSound`, `LocationsExact`,
`WaitingExact`); those of the other four are proved.

In `fmq` the ring is as small as it may be: the longest read and the longest write
fit in it together less one byte. In a smaller ring both ends can block for good, a
limit of the protocol. Five bytes take both counters round the ring. In `death` the fairness
matters only when one thread can clear registrations for ever, for which three are
needed; `NoticesEnd` was also checked with three (30,475 states, too slow to keep).

The comment above each property says what it means. The ones to know:

* **CallerIsOwedAnswer**: a thread that waits for a reply always has some
  transaction in the system, queued or being served, whose end reaches it, even
  when every process in between has gone.
* **CallsEnd**: a call ends unless all that could serve it wait for each other in a
  circle. A thread that waits for an answer takes no work of its process, so two
  processes with no thread to spare can call each other and wait for ever, as on
  Linux; the driver has no other way to leave a caller waiting.
* **CountsExact**: each of a node's counts is the number of things it counts:
  handles, buffers, unacknowledged tellings. The code uses saturating
  subtraction, so a miscount would never show by itself.
* **LocationsExact**: a death registration is on exactly the list its location
  names, and lists hold nothing that is gone. `BC_DEAD_BINDER_DONE` indexes the
  table with what it finds on a list and would panic under the driver lock.
* **NoLostWake**, **WorkFindsThread** (driver): no thread sleeps on work of its own
  with no wake on the way, and no work of the process waits while a thread could be
  woken for it and none is coming.
* **NoSpin**: a read never finds `process_todo` set with nothing to read. It
  would go round under the driver lock for ever. This rests on the order in
  which a command queues node work and its completion.
* **ImplementsFifo**: the two ends of a message queue, access by access, do what a
  bounded queue does in one step.
* **StopWins**, **Revives**: what was last asked of a service holds, whatever exits,
  failed launches and due restarts come in between.
* **ExecHasProcess**: the action queue never waits for an `exec` whose process does
  not exist.
* **QuietRead**: a read of a property that no set overlaps returns the value last
  set; with the area's `NoLostWake`, nobody sleeps on an old one.

Deadlock is checked in `alloc`, `wait_live`, `fmq` and `prop_area`. Elsewhere
processes may all be released, or init shut down, and the system stops, so the cfg
says so.

### Finding

`txn_torn`: a one-way call whose parcel cannot be copied is aborted through
`free_buffer`, which starts the node's next one-way call (or marks the node idle)
though the aborted call was not the running one. Two one-way calls of a node are then
out at once, which `docs/binder-driver.md:61` excludes. `OneWaySerial` holds in
`txn`, where copies of one-way parcels succeed.

## Fairness

Liveness is checked under what the code, or the program on the other side, does:

* `txn_live`: threads of a live process come to the driver (weak), read what is
  queued to them and reply to what they serve (strong: other steps may disable the
  read in between), and buffers are freed (weak). Nothing is assumed of exits
  and releases; they may happen at any time or never.
* `death`: threads read what is queued to them and processes read their lists and
  acknowledge what was delivered (strong), and again and again some thread of a
  process is in the driver with nothing of its own to read. The last is needed:
  whether a read may take process work is decided before it, and a thread with
  work of its own does not. Thread pools of libbinder satisfy it.
* `wait_live`: an ioctl under way goes on, a collected wake is delivered (the
  code does both unconditionally before it returns), and a thread in user space
  comes back to read and replies to what it serves (strong: what it may write
  depends on what others do). The threads of this run serve and make no calls, for
  the same reason.
* `fmq`: both ends run, and the reader keeps reading; the writer need not write. A
  futex call need never return for no reason.
* `supervisor`: init drains its events and ends the shutdown (weak), its wait has a
  deadline (strong: commands run in between), and a killed process is reaped (weak).
  Nothing is assumed of processes that were not killed.
* `prop_area`: the event loop finishes a set it began and the waiting thread runs
  (weak). No deadline need pass and no set need begin.

## Proofs

Assumptions are those named in the modules (`AllocAssumption`, `FmqAssumption`,
`SupervisorAssumption`, `PropAreaAssumption`): types of the constants and, for
`Supervisor`, that services are finitely many and temporary ones others than those.

**`BinderAllocProofs`**, for every size of the area and every bound: `TypeCorrect`,
`AlwaysTiled` (free ranges and buffers tile the area: no byte is lost, handed out
twice or outside), `AlwaysCoalesced` (no two free ranges touch),
`EnospcAlwaysHonest` (a call or reply is refused for room only if no gap between the
buffers is long enough). None is inductive alone. `Inv` is the type invariant with
`Tiled`, `Coalesced` and the fact that nothing is allocated before the area is
mapped: tiling is needed to know that merging a freed range with its neighbours
covers exactly what they covered, and coalescing that after the merge there is
nothing left to merge. `free_async_space` cannot underflow because `NoRoom` refuses
first. For the last theorem they make each gap between buffers a single free range,
so "no free range is long enough" says the same as "no gap is long enough".

**`FmqProofs`**, for every ring size, message and read length: `FmqTypes` (the
counters are never further apart than the ring), `FmqNoOverlap` (the two ends never
touch a byte of the ring at once, which is what makes plain copies race-free),
`FmqNoLostWake`, and `FmqImplementsFifo`, the refinement. `IInv` adds to the types
that what `Check` found still holds while an end copies, since its peer only adds
(`Room`), that what was copied is what is in the ring (`Copied`), and where the
wake-up of a waiting end is between the peer's store and its futex call (`Waking`).
`OffsetDistinct` carries the ring arithmetic: positions less than the ring apart
have different offsets.

**`SupervisorProofs`**, for any services, definitions, `onrestart` commands and
requests: `SupervisorTypes`, `StopAlwaysWins`, `RestartAlwaysRevives`,
`PublishedAlwaysSound`, `ExecAlwaysHasProcess`, `KillAlwaysFinal`. The properties need
each other: whether the queue's process exists depends on launches that fail only
for services without one (`PublishedSound`), and that nothing starts after `kill_all`
on every service being stopped (`StopWins`). `IInv` has them together with three
facts: temporary services are records only while they run, a restart asked for
survives changes of `ONESHOT`, and no command is left after `kill_all`.

**`PropAreaProofs`**, for any properties and values: `PropAreaTypes`,
`PropAreaNoLostWake` and `PropAreaQuietRead`. `IInv` adds that what the reader has copied is still what the
area holds as long as the serial is the one it loaded and no set is under way. A set
that overlaps the copy stays under way until it has bumped the serial, so it does not
matter which of its stores the copy caught. `SInv`, inductive with `IInv`, says what
the area holds: each record shows the value last set, except while a set writes it,
and then every store already made is one of the new value. Between two sets a copy
is the area (`IInv`) and the area reads as the value last set (`SInv`), which is
`QuietRead`.

Only model-checked: `BinderRefs`, `BinderTxn`, `BinderDeath` and `BinderWait`;
`AsyncAccounting` (a sum over a set, which needs induction over data);
and all liveness.

## What is not modelled

`PROJECT.json` lists every part of the repository. Of the driver: tracing and
shadow copies (they decide nothing), credentials and security contexts, the bytes
of parcels (scatter-gather, fd arrays), the looper pool, non-blocking and polling
readers, forwarded transactions. Of the daemon: opening, ports, readiness
sockets, the files that travel in transactions. Of the message queue: descriptors
and mappings. Of init: builtins that touch files, mounts and properties, triggers and
the order of the event queue, the boot stages before the main loop, the dry-run and
`simulate_after` options, the launch of a process. Of properties: long and `ro.` values
(written once, before they can be found), allocation in an area, the trie's shape, the
wrap of the serials, permissions, the socket protocol.

Sync files were looked at and left out: a merge is registered and counted down
under one lock, and what is left is the host's kqueue and Metal events. The rest of
aim is outside a model checker's reach or would be a project of its own: instruction
rewriting in the loader, device I/O in the host crates, image tools, 106,000 lines of
system-call translation and half a million of system services.

## Inventory

The parts of the repository; `PROJECT.json` has their files and what was left out.

| part | status | modules or reason |
|---|---|---|
| binder driver: receive-buffer allocator | modelled | `BinderAlloc`, `BinderAllocProofs` |
| binder driver: nodes, handles and reference counts | modelled | `BinderRefs` |
| binder driver: transactions | modelled | `BinderTxn` |
| binder driver: death notifications | modelled | `BinderDeath` |
| binder driver: waiting, waking and parking | partly | `BinderWait` |
| binder driver: tracing and shadow copies | not modelled | Diagnostics recorded next to a transaction; they decide nothing in the driver. |
| binder driver: wire structures | not modelled | Layout of ioctl structures and the traits a host implements; no state. |
| binder driver: forwarded transactions | not modelled | forward_inbound_transaction hands a queued call to another process; left out with the daemon's ports, which are its only users. |
| binder daemon: worker pool and parked calls | partly | `BinderWait` |
| binder daemon: client side | not modelled | The guest's half of the Mach protocol: message layouts and port rights. |
| binder daemon: files carried in transactions | not modelled | Rights of files moved between processes: port lifetimes that the Mach kernel, not this code, decides. |
| sync files | not modelled | Fences with merge and wait. Not modelled: a merge is registered and counted down under one lock; what is left is in sockets, kqueue and Metal events, which belong to the host. |
| Linux ABI: files, epoll, futex, signals, fork | not modelled | 106,000 lines translating Linux system calls to Darwin. epoll, eventfd and the descriptor table are candidates for modules of their own. |
| Linux ABI: loader and translator | not modelled | Instruction decoding and rewriting; sequential, out of TLC's reach at the level of instructions. |
| Android init: rc language and action engine | partly | `Supervisor` |
| Android properties | partly | `PropArea`, `PropAreaProofs` |
| guest init: supervisor and boot | partly | `Supervisor`, `SupervisorProofs` |
| storage: mounts, leases, verity, cgroups, ptys | not modelled | Lease and owner protocols are candidates; the rest is file-system I/O. |
| system services | not modelled | Android services reimplemented in Rust (548,000 lines, much of it bindings and tables); single services would be projects of their own. |
| host display | not modelled | Windows, layers and input on macOS; mostly AppKit and I/O. |
| host GPU and Vulkan | not modelled | Thunks to Metal, and fences of its queues; the order of commands is Metal's. |
| host audio | not modelled | Streams to CoreAudio; device I/O. |
| host Bluetooth | not modelled | An emulated HCI controller over CoreBluetooth; not reached yet. |
| host camera, sensors, location, health, memory, Wi-Fi | not modelled | Reading of host devices; pure I/O. |
| host calls and host lock | not modelled | The guest-to-host call gate, and a file lock; small and without state that a step could leave wrong. |
| input transport | not modelled | Key maps and event injection; the injection queue is a candidate. |
| shared memory and memory info | not modelled | ashmem regions over Mach memory and counters; no protocol. |
| images, APKs and Android XML | not modelled | Parsers, formats and image assembly; sequential. |
| build, control and process tools | not modelled | The build graph and the command line; not part of the running guest. |
| native daemons: lmkd, netd, vold, apexd, log, keyboard, windows, app-host agent | not modelled | Guest daemons in Rust; the cores of lmkd and windows are candidates. |
| fast message queue | modelled | `BoundedFifo`, `Fmq`, `FmqProofs` |
| HALs | not modelled | Vendor HALs over host calls: device I/O. |
| Java overlays, image contents and patches | not modelled | Framework overlays, packaging and patches to upstream; configuration rather than protocol. |
