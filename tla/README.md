# A TLA+ model of the Roc Toolkit

Roc streams audio over the network in real time. This directory models the parts of
its code that are hardest to test: the lock-free queues, timers and task schedulers that
let an audio thread, a control thread, a network thread and any number of user threads
share one pipeline without blocking the audio thread; the network loop and its ports; the
receiver node that joins loop and pipeline; and the FEC stream over an unreliable network.
The modules are translated from the C++ sources under `src/internal_modules`, checked with
TLC on small instances, and, where marked, proved with TLAPS for every instance.
`PROJECT.json` lists the runs, the seeded faults, the lines each definition models, the
findings and the hazards.

Paths below are relative to `src/internal_modules`.

## 1. The system

| Part | State | Operations | What is hard about it |
|---|---|---|---|
| Pipeline loop (`roc_pipeline/pipeline_loop.cpp`) | pending task and frame counters, processing state, two mutexes, task queue, next frame deadline | `schedule`, `schedule_and_wait`, `process_tasks`, `process_subframes_and_tasks` | only `try_lock` on the task paths; a decision taken on a value read earlier; tasks on the caller's stack |
| MPSC queue (`roc_core/mpsc_queue_impl.cpp`) | intrusive list, stub node, head and tail | `push_back`, `pop_front_exclusive`, `try_pop_front_exclusive` | the list is cut between tail swap and link |
| Timer (`roc_core/timer.cpp`, `seqlock.h`, `semaphore.cpp`) | deadline, next wake-up, post flag, semaphore | `try_set_deadline`, `wait_deadline` | a deadline set while the waiter goes to sleep |
| Control task queue (`roc_ctl/control_task_queue.cpp`) | per task: state, flags, requested and effective deadline, semaphore; ready, sleeping and paused queues | `schedule`, `schedule_at`, `resume`, `async_cancel`, `wait`, the event loop | every field of a task is changed by several threads without a lock |
| Network loop (`roc_netio`, libuv) | pending tasks, open and closing ports, resolve requests | add, remove, resolve, stop | closing is asynchronous; shutdown order |
| TCP and UDP ports (`roc_netio`) | connection state, readiness, send queue, counters | connect, accept, read, write, terminate, close | user threads and the loop thread switch the state and send |
| Receiver node (`roc_node/receiver.cpp`) | slots, used interfaces and protocols | configure, bind, unlink, get metrics, destroy | three threads meet; every step of a call can fail |
| Receiver pipeline (`roc_pipeline/receiver_*`) | slots, endpoints, session groups, pending packets, mixer | pull packets, route, create and remove sessions, reclock | counters that decide "active"; lists changed by tasks |
| FEC (`roc_fec/reader.cpp`, `writer.cpp`) | current block, queues, sequence and block numbers | read, write, repair, resize | loss, reordering, duplicates, wrap-around |
| Packet order (`roc_packet/units.h`, `sorted_queue.cpp`) | sorted list | compare, insert | order under wrap-around |
| Control loop (`roc_ctl/control_loop.cpp`) | endpoint tasks | create, bind, connect and delete endpoints | tasks that pause |
| Sender node and pipeline (`roc_node/sender.cpp`, `roc_pipeline/sender_*`) | slots, endpoints, sessions | add endpoints, write frames | order of endpoint creation |
| RTP, RTCP (`roc_rtp`, `roc_rtcp`) | validator and builder state | validate, build, traverse | jumps, legal call order |
| Audio (`roc_audio`) | positions, timeouts | packetize, depacketize, mix, watch | gaps and late packets |

How the modelled parts interact:

- The pipeline loop keeps its tasks in an MPSC queue. It asks an
  `IPipelineTaskScheduler` to call `process_tasks()`; the sender and the receiver
  implement it by scheduling or cancelling one `ControlTask`.
- The control task queue keeps ready tasks in an MPSC queue. Its thread sleeps in a
  timer, which the other threads set to zero to wake it.
- The timer is built of two seqlocks and a semaphore.
- The network loop takes its tasks from an MPSC queue, and so does a UDP sender its
  packets and a receiver endpoint the packets of its port.
- The receiver node makes pipeline tasks and network tasks and waits for each. It relies on
  the exclusion of tasks and frames that `PipelineLoop` shows, and on what `NetworkLoop`
  shows of removed ports.
- A receiver session reads its packets from a FEC reader, which keeps them in sorted
  queues; these compare wrapping numbers.

The hazards of these parts, each at its line, are in `PROJECT.json`.

## 2. The modules

| Module | Models | Level |
|---|---|---|
| `PipelineLoop` | `pipeline_loop.cpp` | every access to a shared field is a step |
| `MpscQueue` | `mpsc_queue_impl.cpp` | every atomic access is a step |
| `MpscFifo` | what `mpsc_queue.h` promises | abstract specification |
| `Timer` | `timer.cpp`, with seqlock and semaphore | every shared access is a step |
| `ControlTaskQueue` | `control_task_queue.cpp` | every shared access is a step |
| `NetPorts`, `UdpPorts`, `TcpPorts` | the ports of `roc_netio` | calls of users: every shared access; callbacks of the network thread: one step, or one per access that users race with |
| `NetworkLoop` | `network_loop.cpp`, `resolver.cpp`, composed with the ports | as above |
| `ReceiverPipeline` | `receiver_source.cpp`, `_slot`, `_endpoint`, `_session_group`, `_state` | operators on a record |
| `ReceiverNode` | `roc_node/receiver.cpp`, `receiver_loop.cpp`, composed with the pipeline and the network thread | a task, a callback or a turn of a loop is a step |
| `PacketUnits`, `SortedQueue` | `units.h`, `sorted_queue.cpp` | operators |
| `FecWriter`, `FecReader` | `writer.cpp`, `reader.cpp` | a call of `write()` or `read()` is a step |
| `FecStream` | writer, network and reader composed | |
| `PipelineLoop_proofs` (also of `MpscQueue`); `ReceiverNode_proofs` (also of `Timer` and `PacketUnits`); `ControlTaskQueue_types`, `_ready`, `_tasks`, `_requests`, `_progress`, `_proofs` | proofs | |
| `MCPipelineLoop`, `MCTimer`, `MCControlTaskQueue`, `MCNetworkLoop`, `MCReceiverNode`, `MCFecStream` | symmetry sets, scenarios and constant values for TLC | |

Conventions. Variables and actions keep the names of the code, mostly without the trailing
underscore. `pc[t]` (`upc[u]`, `net`, `call`, `reader`) is the place of a thread in the code. An action is one step of one
thread between two accesses that another thread can observe; what a mutex protects
changes together with the access before it. Code that one thread runs alone (the FEC
reader, the inside of the pipeline) is a set of operators from the state before to the
state after. Definitions introduced as a *seeded fault* are the mutated form of the
definition below them. They are used only by the entries `mutants` of `PROJECT.json`,
which name for every checked property a plausible bug that TLC finds with it.

All atomics are sequentially consistent. The fields of type `Atomic` are; the seqlock
and `MpscQueueImpl` use acquire/release and relaxed operations, with fences in the
seqlock. Reorderings that a weaker memory model would allow there are not modelled.

### PipelineLoop

User threads own one task each, which has the name of its thread. `Waiters` are the users
that call `schedule_and_wait()`. Frame threads call `process_subframes_and_tasks()` over
and over, in the mode that `precise` says. `Proc` is the thread of the control loop.

- Time is not modelled. `InterframeAllowed` and the choice in `FrameFinishTask` let the
  clock be inside or outside the interval in which tasks are prohibited.
- `task_queue` with `linking` is the abstract queue that `MpscQueue` implements: an
  element takes its place at the tail swap, and until it is linked a pop may see an empty
  queue.
- `deadline_busy` is a store to the seqlock `next_frame_deadline_` in progress, when
  `try_load()` fails and the caller gives up.
- `requested` is the scheduler: it has at most one outstanding call of `process_tasks()`,
  which may come at any time, also before the caller has stored `ProcScheduled`.
- A frame may end early because its processing failed (`NextSubframe`).
- Statistics are left out, except that `report_stats_()` takes the scheduler mutex.

### MpscQueue and MpscFifo

Each node is its own producer, since `change_owner_()` allows a node in one queue once.
`queue` and `stub_at` are history variables: the nodes in the order of their tail swaps,
and where the stub is among them. `MpscQueue` is shown to implement `MpscFifo` with
`linking` mapped to the nodes between swap and link.

### Timer

`deadline` is stored in two steps, because a setter that meets another one gives up and
the waiter spins. `clock_offset` is the difference between the clock that
`sem_timedwait()` goes by and the monotonic one that the code means.

### ControlTaskQueue

`loc[x]` holds the locals of thread `x`. The ready queue is the abstract queue again. The
timer is its deadline and the thread whose `try_set_deadline()` is in progress; that the
waiter is woken when the deadline has come is what `Timer` shows. `Stop` is the
destructor. It is called when every requested execution has completed, since a task
may not be destroyed before (`control_task.cpp:17`). A task function is plain (it succeeds,
fails or continues) or pausing (it starts an operation, pauses, is resumed and finishes),
as the ones of `control_loop.cpp`. Users may cancel either kind at any time. `panic`
records that a `roc_panic` was reached; the program stops.

### NetworkLoop and its ports

A port is a record of its members. A libuv handle is not there, open, or closing; a
`uv_async_t` is a flag that coalesces signals. The network thread runs one callback at a
time. `Become` applies what a callback does to ports, lists and tasks at once, since user
threads see nothing of it but the state of a connection, the readiness of a socket and the
send counter, and callbacks that race with users on those are split at each access
(`PollEstablished`, `PollBroken`, `PollReport`, `WriteSemCb`, `SendNext`).

- Opening, connecting, accepting, sending and resolving may fail at each place where the
  code checks for it.
- `life` is what users know of a port. What the headers ask of users is in the guards of
  their actions: a port is not used while it is removed, a TCP port is terminated before,
  the loop is destroyed when nobody uses it any more.
- A user may terminate a connection while another one is inside `try_read()` or
  `try_write()` and while the network thread handles a poll error. `panic` tells the
  `roc_panic` that this leads to (`"io"`, `"broken"`) from all others (`"assert"`); the
  program stops. A system call on a socket that is closed, or on a port that is destroyed,
  counts as `"io"`.
- `send_failed` remembers that `uv_udp_send()` has returned an error for a port.
- `told` records the callbacks a connection handler has had, `fresh` whether a poll event
  came after the last system call, `sent` the packets in the order in which the socket took
  them. They are history variables, read by properties, except that users know a connection
  from its callbacks.

### ReceiverPipeline and ReceiverNode

A pipeline slot has a handle, which is its address: a handle may be used again once its
slot is deleted. The network thread, a reader of frames and one call of a user at a time
(the node has a mutex) interleave. `call.at` is the step a call is at. Pipeline tasks have
a begin and an end, between which no frame is processed, and the other way round
(`inside`). Network tasks are steps taken while the network thread is between callbacks.

- A packet is the address it came from and whether it parses. A session is named by its
  address. That a session ends (watchdog, latency monitor) or cannot be created is a free
  choice.
- The endpoint writes a packet in two steps, the counter and then the queue, as the reader
  takes it in the opposite order.
- `orphans` is a history variable: the pipeline slots that `get_slot_()` has left behind.
- `get_metrics()` is called for broken slots, too. The panic that follows stops the program.
- `TaskInReclock` lets tasks run during a reclock, as the code does. It is on in
  `receiver_reclock`, which shows what that breaks (finding 3), and off in `receiver_node`,
  so that the other properties are checked apart from it.

### FecWriter, FecReader and FecStream

The writer numbers source packets within blocks and ends each block with its repair
packets. Packets go to a set, from which they are delivered in any order, twice, or
never. A `read()` fetches what has arrived, fills the current block, restores what it can
and returns a packet, as one step: one thread runs it. Its loops are folds over the queues
and one recursion over blocks.

- The codec is external. A Reed-Solomon block with as many packets as it has source packets
  is restored completely; an LDPC block completely, in part, or not at all. What comes out
  of a decoder that was given packets of two blocks is no packet of the stream. A restored
  packet that does not parse or cannot be allocated is left out, also in a Reed-Solomon
  block.
- A restored packet has no FEC header. A second attempt to restore its block dereferences
  it; the reader ends with `panic = "null"`.
- `id` and `blk` are the true positions of a packet and its block. Only properties read
  them; the reader works with the wrapped numbers.
- Allocations fail by `nomem`; a reader that dies returns nothing more.
- `MaxEvents` bounds what is unusual (resizes, other payload sizes, failed allocations,
  duplicates); loss and reordering are free.

## 3. The runs

| Run | Instance | Properties |
|---|---|---|
| `pipeline_loop` | 2 users that wait for their tasks, 1 frame thread, frames of up to 2 subframes, both modes | exclusion, accounting and lifetime of tasks |
| `pipeline_loop_live` | 1 user that does not wait, 1 frame thread, precise mode | frames and tasks complete |
| `pipeline_loop_lost` | 2 waiting users, 1 frame thread | finding 1 |
| `mpsc_queue` | 3 nodes, pushed again and again | order, ownership, refinement, progress |
| `timer` | 2 setters, 5 calls, two clock offsets | no lost wake-up, bounded posts, wake-up when due |
| `control_task_queue` | 2 users, 1 task: plain with 4 calls, plain with a completer and 3 calls, or pausing with or without one and 3 calls; deadlines 0 and 2 | queued once, counted once, waiters woken, panics, nothing forgotten |
| `control_task_queue_sleep` | 2 users, 2 plain tasks, 2 calls, deadlines 1 and 2 | sleeping queue, `wait()` returns |
| `control_task_queue_cancel` | 2 users, 1 plain task, 4 calls, one deadline | finding 2 |
| `network_loop` | 2 users; a UDP sender, sender and receiver, resolving, a TCP client, or a TCP server with one connection | panics, nothing left of a port, order, events, callbacks, progress |
| `receiver_node` | 2 slot indices, 3 handles, 1 address, 4 URIs; 5 calls, or 4 calls and a packet, or 2 and 2 | ownership, sessions, sleep, panics, protocols |
| `receiver_reclock` | the same, with tasks during a reclock | finding 3 |
| `fec_stream` | 4 source packets that begin with a block of 2+1, or 3 that begin with one of 3+3; blocks of 2+1, 1+1 and 3+3, both schemes, 1 unusual event, numbers that wrap | panics, order, nothing skipped, no waiting |

What the properties say:

- `PipelineExclusive`, `SchedulerSerialized`: one thread at a time is inside the
  pipeline, and one inside the scheduler. The second is what `IPipelineTaskScheduler`
  promises its implementers.
- `PendingCount`, `RunOnce`, `WaitReturnsLast`, `SafeToDestroy`: the counter is exact at
  every step, a task is run once by one thread, `schedule_and_wait()` returns when nobody
  will touch the task again, and the panic of the destructor is not reached by an owner
  who has waited.
- `FrameCompletes`, `TaskCompletes`: a frame gets the pipeline; with precise scheduling a
  task is processed as long as frames keep coming, in spite of finding 1.
- `ListInOrder`, `OwnersMatch`, `IsFifo`: the list is one chain in the order of the tail
  swaps, with a gap only in front of unlinked cells; an element comes out once and in
  order; `NULL` means an empty queue or a push in progress.
- `PopReturns`, `PushedIsPopped`: a pop ends, and no element is stuck behind the stub.
- `NoLostWakeup`, `PostsBounded`, `WakesWhenDue`: a deadline moved forward is never slept
  over, posts do not pile up, the wait returns when the deadline has come.
- `ReadyOnce`, `SizeCounts`: a task in `StateReady` is in one place, and
  `ready_queue_size_` counts it there. The intrusive queue would be corrupted otherwise.
- `NoTaskForgotten`: the event loop thread sleeps only when nothing is left to do before
  its wake-up time, though renewals, resumptions, cancellations and failed attempts to set
  the timer race with it. Left open are requests for a paused task, which wait until it is
  resumed, and what a task that pauses is scheduled with while it is cancelled (section 5).
- `SleepersKept`: the sleeping queue is sorted, and sleeping tasks are in it or paused.
- `WaiterWoken`, `WaitReturns`: a `wait()` that blocks has a post coming, and returns.
- `OnlyCancelPanics`: of the panics that catch impossible states one is reachable, that of
  finding 2.
- `NetworkLoop`: `OnlyTerminatePanics` (no port is closed twice or destroyed with handles,
  packets or connections, no callback meets a state it does not expect, no signal goes to a
  closed handle, except where `async_terminate()` races with a poll error or with a read or
  write, see section 5); `RemovedIsClosed` (when RemovePort has finished, or an Add task has failed,
  nothing of the port is left); `SentInOrder` (packets of one thread are not overtaken on
  the fast path); `EventKept` (a poll event during a read or write is not overwritten);
  `ConnCallbacks` (established or refused once, then terminated, before the port goes);
  `TaskFinishes` and `StopReturns` (every task and the destructor come to an end, except the
  removal of a sender port for which `uv_udp_send()` has failed, and a loop that has one).
- `ReceiverNode`: `PortsHaveEndpoints` (the network thread never writes to an endpoint that
  is gone); `OwnsAll` (between calls, whatever failed, the node knows every endpoint, port
  and pipeline slot, except empty slots that `get_slot_()` left behind); `SessionsMixed` (the mixer reads the sessions that exist, and they
  are counted); `SleepsWhenEmpty` (a receiver that says it is idle has no packets);
  `SameProtocols` (slots agree on the protocol of an interface); `OnlyQueryPanics` (nothing
  panics but a query of a broken slot).
- `FecStream`: `OnlyRepairAgainPanics` (the reader's bookkeeping is right, and the one
  dereference that fails is at the second attempt to restore a block); `InOrder` (packets come out once, in stream order, and a restored
  packet is the one that was lost); `SkipsOnlyLost` (a packet is passed over only if it is
  not there and cannot be restored); `NoDataMeansEmpty` (the reader never waits while
  packets are queued).

### Bounds

- Two users and one frame thread meet in every pair of places in the code. A third thread
  of either kind takes no path of its own; the theorems of section 6 hold for any number.
- `MaxSubframes` is 2 so that a frame has a first and a later subframe.
- Three nodes let the list have a gap, a linked node and a node being pushed again.
- The timer's deadlines are never, at once, and a later time. Five calls let both
  setters call, meet and overtake a time-out.
- Three calls suffice for schedule, re-schedule and wait while a task pauses, four for
  schedule, cancel, schedule and cancel of one task. `MaxTime` is the last deadline, so that
  every sleeper becomes due. Two tasks are needed only for the order of the sleeping queue.
  `Workloads` says which kind of task goes with how many calls.
- Executions that continue count as calls, or the loop could go round for ever.
- The scenarios of the network loop separate what does not meet: UDP packets (3, so that one
  is sent directly, one queued and one in flight), two ports that close together, resolve
  tasks, a client with 3 reads or writes, a server whose connection is read once.
- Two slots of the receiver can disagree on a protocol and use each other's freed address; five
  calls bind two slots and unlink and bind one again. Packets need fewer calls, so calls
  and packets share a budget. The theorems hold for any number.
- Block numbers have 8 values and start at the last, sequence numbers 16 and start at 14:
  both wrap within 4 packets and never span half of their range in a queue. Two blocks and
  the beginning of a third let a block be left, resized and skipped. In a block of 3+3 two
  packets can be lost, one of them restored, and the block be tried again.

The users of the pipeline loop, the timer, the network loop, the receiver and the FEC
stream may stop calling, so these runs do not check for deadlock. In the MPSC queue nodes
are pushed for ever, in the control task queue everything ends with the destructor, and
deadlock is checked. Symmetry is used in runs of invariants only.

### Fairness

Each thread inside a call is scheduled by the operating system: weak fairness of its
steps. The locks are taken with `try_lock`, or are free infinitely often only if the
holder runs, which is a thread inside a call. In `PipelineLoop` the pipeline clock keeps
asking for frames (`StartFrame`), and the control loop makes the call it was asked for. In
`Timer` the event loop calls `wait_deadline()` again. In `ControlTaskQueue` the clock goes
on, and an operation that a task waits for ends. In `NetworkLoop` the network thread
makes the callbacks that libuv owes it (signals, closed handles, sent packets, resolved
names); what peers do is not fair. No user is obliged to call anything.

## 4. Findings

1. `pipeline_loop_lost`. A user that has processed its task in place reads
   `pending_frames_` before it unlocks the pipeline and decides with it afterwards. If a
   frame ends in between, a task queued meanwhile is left in the queue, with nobody to
   process it until the next frame or task. The header guarantees the opposite.
   `TaskCompletes` shows that with precise scheduling the next frame repairs it.
2. `control_task_queue_cancel`. Schedule, cancel, schedule and cancel before the event
   loop looks: `cancel_task_()` finds the effective deadline of the first cancellation and
   panics, though no cancellation was repeated. Senders and receivers schedule and cancel
   one task in turn.
3. `receiver_reclock`. `ReceiverLoop::read()` reclocks all sessions after the frame has
   left the exclusion of the pipeline loop, so that a task processed by another thread can
   delete a slot while `reclock()` walks through the list of slots. `receiver.h` says that
   slots can be removed while frames are read.

## 5. Exceptions and observations

The findings above have a run each. Most places in the first list below contradict a comment
or a test, too, and the others leave something undone. They are in the model as they are in the code, and the property they would
break names them as its exception: with the exception left out of the property, TLC finds
the counterexample described. So each run shows at once that the rest of the promise is kept
and how far the exception goes. The lists after it have places where code and comment differ
and that no property is about.

Exceptions that a property names:

- *A cancelled task pauses* (`NoTaskForgotten`). `control_task_queue.h:194-198` says of a
  task cancelled while it is processed: "if the task asked to pause or continue, then
  cancellation request is fulfilled". If it continues, so it is. If it pauses, it is not:
  `reborn_task_()` expects `StateProcessing` (line 633 of `control_task_queue.cpp`) after
  `pause_task_()` has moved the task to `StateSleeping`. The cancellation waits until the
  task is resumed.
- *A paused task is cancelled and scheduled* (`NoTaskForgotten`).
  `control_task_queue.h:151-152` says that a task in cancellation phase is "scheduled to be
  executed again after completion or cancellation finishes". The paused flag stays set while
  the task is cancelled, and `request_renew_guarded_()` (line 220) returns when it sees it:
  a `schedule_at()` made then is lost. No pausing task of the repository is cancelled.
- *A connection breaks and is terminated* (`OnlyTerminatePanics`).
  `tcp_connection_port.cpp:682` is to "ignore all state changes after termination, except
  closing", but the condition below it never holds in `Terminating`. A poll error that was
  read while the connection was established, then `async_terminate()`, then the switch to
  `Broken` leaves `start_terminate_cb_()` with a state that it panics on.
- *A connection is read and terminated* (`OnlyTerminatePanics`). `iconn.h:25` says "All
  methods are thread-safe and non-blocking." A `try_read()` or `try_write()` in one thread
  while another one calls `async_terminate()` may find the state it panics on, the socket
  closed, or the port destroyed. `tcp_connection_port.h:108` allows I/O "before it's
  terminated" only, which both callers may think they obey.
- *A failed send* (`TaskFinishes`, `StopReturns`). When `uv_udp_send()` itself returns an
  error the packet stays counted (`udp_sender_port.cpp:254`), the port is never closed, and
  neither its removal nor the destructor of the loop finishes.
- *A slot that cannot be allocated* (`OwnsAll`). `get_slot_()` leaves the pipeline slot
  behind when the slot of the node cannot be allocated or inserted (`receiver.cpp:337`). It
  never gets an endpoint, but nobody can remove it before the receiver is destroyed.
- *Metrics of a broken slot* (`OnlyQueryPanics`). `get_metrics()` does not look whether the
  slot is broken and makes a task from its null handle (`receiver.cpp:269`,
  `sender.cpp:241`).
- *A block is repaired again* (`OnlyRepairAgainPanics`). The test `multiple_repair_attempts`
  (`src/tests/roc_fec/test_writer_reader.cpp:1033`) says "Reader must try to decode once
  more." It does, but if the first attempt restored a part of the block, the second one
  looks at the FEC header that a restored packet does not have (`reader.cpp:204`). With LDPC
  this takes more repair packets that arrive in between, with Reed-Solomon in addition a
  restored packet that could not be parsed or allocated.

Control task queue and timer:

- `resume()` of a task that is not paused queues it all the same, and a task that was
  resumed stays in `paused_queue_` until it is renewed or cancelled.
- A `wait()` that decided not to block leaves its semaphore attached until line 552. A task
  re-scheduled and completed in that moment posts it, and a later `wait()` with the same
  semaphore would return too early.
- The POSIX semaphore hands a monotonic deadline to `sem_timedwait()`, which goes by the
  realtime clock (`semaphore.cpp:46`). The wait times out at once and the caller spins
  until its deadline. `NoLostWakeup` and `WakesWhenDue` hold on either clock.

Network loop:

- A readable or writable callback that has begun may still be made after
  `async_terminate()` was called, though `iconn_handler.h:45` says that "no other callbacks
  except `connection_terminated()`" come then. The model has no steps for these two
  callbacks: they change no state of the port.
- An Add or Remove task still pending when the loop is destroyed is processed after the
  ports were closed (`network_loop.cpp:299`); the model asks users to wait for such tasks.
- A server that accepts a connection between the decision to remove it and the task panics;
  the model lets users stop accepting first.

Receiver:

- `pending_packets_` is not decremented for a packet that cannot be parsed
  (`receiver_endpoint.cpp:130`) nor for packets queued in a slot that is deleted: the
  receiver is then reported active for ever. Nothing promises the opposite.
- The protocol of an interface is remembered after the last slot that used it is unlinked.
  This is stricter than `SameProtocols` needs.

FEC:

- A reader that joins in the middle of a block remembers the sizes of that block until
  decoding starts; it does not start if the sender changes them first.
- The packets before the first complete block are forwarded, while the log says that they
  are dropped.

## 6. The proofs

The theorems hold for every value of the constants that satisfies the named assumptions
of the modules: finitely many users, threads that are distinct from each other and from
the "nobody" value, a positive number of subframes; nodes distinct from the stub and from
NULL; integer deadlines and a clock that is not behind; finitely many slot handles and
addresses. For the control task queue: finitely many users, none of them the event loop
thread, finitely many tasks, and deadlines that are not negative. How many calls are made
and of which kinds and how far the clock runs is arbitrary. The theorems about the receiver
node have one hypothesis more, `~TaskInReclock` (finding 3).

| Theorem | Statement |
|---|---|
| `PipelineLoop_proofs`: `TypeCorrect`, `LocksHeld`, `Exclusion`, `SchedulerCallsSerialized` | `TypeOK`, `LockInv`, `PipelineExclusive`, `SchedulerSerialized` |
| `PipelineLoop_proofs`: `TasksPlaced`, `TasksRunOnce`, `WaitIsLast` | `TaskInv`, `RunOnce`, `WaitReturnsLast` |
| `PipelineLoop_proofs`: `PendingCounted`, `DestroySafe` | `PendingCount`, `SafeToDestroy` |
| `PipelineLoop_proofs`: `QueueTypeCorrect`, `ListStaysInOrder`, `OwnersStayMatched`, `QueueIsFifo` | `QueueOK`, `ListInOrder`, `OwnersMatch`, `IsFifo` of `MpscQueue` |
| `ReceiverNode_proofs`: `TimerTypeCorrect`, `NoWakeupLost`, `PostsAreBounded` | `TimerOK`, `NoLostWakeup`, `PostsBounded` of `Timer` |
| `ReceiverNode_proofs`: `DiffIsDistance`, `OrderInWindow` | the wrapping comparisons of `PacketUnits` are those of the numbers before they wrapped |
| `ControlTaskQueue_proofs`: `TypesCorrect` | `TypeOK` |
| `ControlTaskQueue_proofs`: `MutualExclusion`, `ReadyHeldOnce` | `LockInv`, `ReadyInv` |
| `ControlTaskQueue_proofs`: `TasksInStage`, `TasksKept`, `SleepersAreKept`, `PanicsOnlyInCancel` | `StageInv`, `TasksInv`, `SleepersKept`, `OnlyCancelPanics` |
| `ControlTaskQueue_proofs`: `ReadyOnceHolds`, `SizeCounted`, `WaitersKept`, `WaiterIsWoken` | `ReadyOnce`, `SizeCounts`, `WaitInv`, `WaiterWoken` |
| `ControlTaskQueue_proofs`: `TimerIsSet`, `RequestsKept`, `TasksMoveOn`, `NothingForgotten` | `WakeInv`, `RequestInv`, `ProgressInv`, `NoTaskForgotten` |
| `ReceiverNode_proofs`: `NodeOwns`, `PortsAreConnected`, `NothingLeftBehind`, `SessionsAreMixed` | `Inv` and `Orphaned`, `PortsHaveEndpoints`, `OwnsAll`, `SessionsMixed` |
| `ReceiverNode_proofs`: `ProtocolsAgree`, `IdleIsEmpty`, `OnlyQueriesPanic` | `SameProtocols`, `SleepsWhenEmpty`, `OnlyQueryPanics` |

**Pipeline loop.** `TypeOK` says also that a thread stays inside the code of its own entry
points and where its calls return to, which makes it inductive. `LockInv` says that a
thread holds a mutex exactly when its place is between lock and unlock. It is inductive
with `TypeOK`, and both exclusion theorems follow, since a mutex has one holder.
`RunOnce` is not inductive: one has to know where a task is before it is run. `TaskInv`
says that a task is in the hands of its user, or in the queue once, or in the hands of the
thread that popped it, and what its state is in each place. `WaitInv` adds the value of
the semaphore of a waiting user. Most steps are *silent*: they move no task. One lemma
shows that a silent step keeps both invariants, and one lemma per kind of thread that its
other steps are silent; the eleven that are left are treated one by one. For
`PendingCount` the same split is used: a silent step keeps the set of counted tasks,
`Schedule` adds one element to it, and the three steps that decrement the counter remove
one, which the placement of tasks shows to be in it.

**MPSC queue.** `Inv` adds to types, order and ownership what the threads know between two
steps: a producer before its swap has its node outside the list with `next` NULL, and the
consumer's local head is the head of the list with a second cell behind it once it has
loaded one. The history variables turn the statement about pointers into one about a
sequence: a tail swap appends, a link closes one gap, moving `head_` drops the first cell.
From `Inv` each step maps to a step of `MpscFifo` or to a stutter; the interesting ones
are the two that return NULL.

**Timer.** `TimerInv` adds to `NoLostWakeup` that the waiter's announcement agrees with
its place (`AnnouncedInv`) and that a set flag means a post that is there, coming or just
taken (`FlagInv`). The first shows that a setter which decides not to post has set no
earlier deadline, the second that one which finds the flag set may leave the post to
another. `PostsBounded` is not inductive, as it does not say that the flag stands for a post.
`PostsInv` allows one post more while the flag is set and one less while the waiter, having
taken its post or timed out, has not reset the flag yet.

**Control task queue.** The proof goes up in layers, each inductive with those below it.
`TypeOK` says for each thread at which labels it may be and which of its locals are set
there. `LockInv` says that `task_mutex_` is held at exactly the labels between lock and
unlock, so that two threads are never in the code it protects. `ReadyInv` is `ReadyOnce`
without the counting: no task is queued twice, held by two threads or both queued and
held, and the ready ones are those that are. It is kept because every thread that moves a
task to `StateReady` does so by one exchange, and the one that finds it in another state
is the one that queues it. `SizeCounts` follows with the set of users between the
increment and the push. `StageInv` says that a task which a thread works on under the lock
is still in the state this thread moved it to, or has been made ready again by a user: the
only change users make without the lock. `TasksInv` then relates flags, deadline and
queues of each task with the places of the threads: where the `Paused` flag may be set
while the task is not in the paused queue, that what is executed or completed is not
asleep, that what sleeps is in a list, and that the sleeping list is sorted. `SleepersKept`
and `OnlyCancelPanics` are consequences. `WaitInv` follows the semaphore of a waiting user
through attach, take, give back and post; its hard case is a user that attaches it while
the event loop completes the task, which is why `wait_task_()` reads the state and the
pointer again after attaching.

`NoTaskForgotten` speaks of the moments when nobody works, so it says nothing about what
the threads owe each other before. Three invariants do. `WakeInv`: while the ready queue is
not empty the timer is zero, or some thread is at a place from which it will set it so or
look whether to; the same for the first deadline of the sleeping queue. It rests on this:
`try_set_deadline()` fails only when another thread is inside it, users set the timer to
zero only, and the event loop looks again after it has set the timer. `RequestInv`: at each
place of `renew_scheduling_()`, the deadline and the version that the user has read or
stored are the latest ones of the task, because `renew_guard_` lets one user in at a time;
and a deadline that is stored half way belongs to a user at the store. `ProgressInv`: a task
in a state that is none to rest in is in the hands of a thread, and a task whose latest
deadline is not in effect is ready or in the hands of a thread that will bring it into
effect or make the task ready again; or it is one of the exceptions of section 5, paused or
cancelled while it was. That there are no others is why `ProgressInv` also says that a task
whose execution ends asleep has the paused flag set: were it not, `reborn_task_()`, which
leaves a sleeping task alone, would forget a request.
The end of an execution (`CheckRenewed`) is where this could break: the
user that stored a deadline too late for it finds the task in a state in which its own
exchange makes the task ready. While all users are idle or in `wait()` and the event loop
sleeps, no thread is at any of these places, and `NoTaskForgotten` is what is left.

That an invariant is kept is shown by one lemma per group of actions, which takes the
invariants below it as hypotheses; the theorems put the layers together. `_types` has the
invariants, lemmas about where each action leads, and the steps of `TypeOK`; `_ready` has
the steps of `LockInv`, `ReadyInv` and `WaitInv`; `_tasks` those of `TasksInv`; `_requests`
those of `WakeInv` and `RequestInv`; `_progress` those of `StageInv` and `ProgressInv`;
`_proofs` has the theorems and `SizeCounts`. What a proof has in scope makes every one of
its steps slower, so a module extends only what it needs, and `PipelineLoop_proofs`
instantiates the theorems about finite sets in front of the section that counts. The model
has its own `RemoveAt` and `InsertAt` on lists: with the large community module for
sequences in scope the prover needs many times as long for every step. That
`insert_sleeping_task_()` finds the first later task needs the least element of a set of
positions, which the lemmas about lists have as a hypothesis (`FirstExists`) and `_proofs`
shows from the well-founded order of the naturals (`FirstPosition`).

**Receiver node.** `OwnsAll` speaks of the moments between calls, so it is not inductive.
`Inv` says what holds during one. `Owned`: at every step the handles of the slots of the
node are pipeline slots, each of one slot, and the ports are the ports of those
slots. `Orphaned`: the other pipeline slots are the ones `get_slot_()` left behind, which
stay as they were created. `Connected`: a port that the node knows has an endpoint. `Unfinished`: an endpoint
without a port, a broken slot that still has its handle and a whole slot that has lost it
exist only while a call is at a step that will take care of them. `CallKnows` and
`ReaderKnows` say what the later steps of a call and of a frame rely on, and `Mixed` is
`SessionsMixed`. There is one lemma per operator of the pipeline (which slots, endpoints
and sessions it keeps) and one per action. One behaviour is assumed away in the
theorems, as in the run: tasks during a reclock (finding 3), which contradict
`ReaderKnows`. `ProtocolsAgree` adds
`Compatible` to `Inv`: the endpoint of every open port has the protocol recorded for its
interface, and a `bind()` past its check still agrees with what is recorded.
`IdleIsEmpty` adds `Counted`: the packets in the queues of all endpoints, and the one that
the network thread has counted and not queued yet, are at most as many as `ReceiverState`
counts (packets that were queued when their slot was destroyed stay counted). The packets
are counted as places, pairs of an endpoint and a position, so that one set stands for all
queues and a write or a read changes it by one element; a sum over the queues would need an
induction. `OnlyQueriesPanic` adds `Checked`, that no call but a query gets as far as making
a task for a broken slot, and takes from `Counted` and `SessionsMixed` that no counter goes
below zero.

**Wrapping numbers.** A counter of m values stands for a number modulo m. The difference of
two counters and that of their numbers differ by whole turns (`ModShift`), and the signed
reading picks the one in the half-open range from -m/2 to m/2. So the comparisons of
`units.h` are right, for every width, as long as the numbers compared are less than half of
the range apart. This is the condition under which `fec_stream` chooses its moduli.

### What is only model-checked

- Liveness under fairness (`FrameCompletes`, `TaskCompletes`, `PopReturns`,
  `PushedIsPopped`, `WakesWhenDue`, `WaitReturns`, `TaskFinishes`, `StopReturns`): out of
  the prover's reach.
- The safety of `NetworkLoop`.
- The FEC modules. `FecReader` uses a recursive operator for the loop over blocks, and what
  a recursion computes would need an induction over data that the installed provers cannot
  instantiate.

## 7. What is not modelled

- Sample processing (resamplers, mixers, frequency estimation, channel maps) is
  floating-point arithmetic. These and the generated format conversions are the larger part
  of the code.
- Text and byte formats (URIs, SDP, RTP and RTCP layout) are parsing and formatting.
- Sound devices, libuv, SoX, PulseAudio, OpenFEC, the command line tools and the public C
  API are external or pure input and output.
- The inside of a receiver session. What it does with packets and frames is sequential; the
  FEC reader is the one part of it that is modelled, on its own.
- The sender node and the sender pipeline. They are built like the receiver's, without a
  network thread that writes to them.
- `recv_cb_()` of the UDP receiver, which turns a buffer into a packet and hands it to the
  endpoint: in `ReceiverNode` this is `WriteBegin`.
- Liveness of the receiver (a packet of a bound port is routed): the state graph is too
  large for TLC's liveness checking at bounds where calls and packets meet.
- Weak memory, as said in section 2.

## 8. Plan

1. `NodeTasks`: the composition of the pipeline loop with the control task queue through
   `schedule_task_processing()` and `cancel_task_processing()`, and the destructor of
   the sender and the receiver, which cancels and waits. Finding 2 is to be followed to
   its callers.
2. `SenderNode` and `SenderPipeline`, on the pattern of the receiver.
3. `Packetizer`, `Depacketizer`, `Watchdog`, `Interleaver`, `RtpValidator`: positions and
   time-outs of the chain inside a session.
4. `SlabPool` and reference counting.

Proofs planned: the refinement of an abstract timer by `Timer`, for use in
`ControlTaskQueue`; the safety of `NetworkLoop`.
