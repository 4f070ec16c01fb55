# A TLA+ model of https-server-sim

This directory models the concurrent and protocol core of the server in
`src/codes/core`: TLA+ modules translated from the C++ sources, TLC
configurations that check them on small instances, and TLAPS proofs of every safety
property they check, for every value of the constants.
`PROJECT.json` is the index: which definition stands for which lines, which run
checks which property, what was found, which hazards are covered by what.

    tlc -workers 2 -config MCEventQueue.cfg MCEventQueue     # a run
    tlapm EventQueueProofs.tla                               # the proofs

## 1. Inventory

| Component | State | Operations | Interacts with | Hard because |
|---|---|---|---|---|
| `EventQueue` | one FIFO per priority, `size_`, `queue_closed_`, a condition variable | `push`, `pop`, `try_pop`, `pop_all`, `wake_up` | event loop, I/O threads, workers | wakeups, capacity over all priorities, notification after the unlock |
| `WorkerPool` | task queue, `running_`, `queue_closed_`, threads | `start`, `stop`, `post_task`, `worker_thread` | posts completion events to the event queue | flags and notification outside the mutex, draining on stop |
| `EventLoop` | `running_`, `started_` | `run`, `stop`, `wait_for_started` | drains the event queue | SHUTDOWN may be refused by a full queue; what is queued when it leaves is dropped |
| `IoThread` | kqueue descriptor, fd tables, wake-up pipe | `start`, `stop`, `add_*_fd`, `remove_fd`, the kqueue loop | pushes READ, WRITE, ACCEPT, ERROR events | kernel events about descriptors that changed meaning |
| `MsgCenter` | owns the four above, `running_`, `post_mutex_` | `start`, `stop`, `post_event`, `post_callback_task`, fd registration | everything | teardown order, racing `stop`, calls that race teardown |
| `Server` | status, flags, `listen_fds_`, `listen_ports_`, message centre, connection manager | `init`, `start`, `stop`, `cleanup`, destructor | message centre, connection manager, sockets | partial failure of `init`, any order of calls, bounded waits |
| `Connection`, `ConnectionManager` | table of shared connections, each with fd, state, times | create, get, remove, transitions, timeout sweeps, `close_all` | server shutdown, serving thread | object lifetimes, fd reuse, check-then-store transitions |
| `Http1Handler`, `HttpParser` | parse state, request, plaintext buffer | `on_read`, `reset`, `close` | TLS | input cut anywhere, pipelining, failed writes |
| `Http2Handler`, `Http2Stream` | streams, settings flags, plaintext buffer | `on_read`, a handler per frame type, `close` | TLS, HPACK | interleaved streams, flags split over frames, failed writes |
| `TlsHandler` | SSL object, handshake flag, two BIOs | handshake, `read`, `write`, `close` | connection buffers | partial reads and writes |
| `CallbackStrategyManager` | strategies by port | register, deregister, invoke | protocol handlers (stubbed there) | deregistration during an invocation |
| `DebugChain` | ordered handlers | register, unregister, process | protocol handlers (stubbed there) | lazy sorting, early exits |
| `Buffer` | vector, read and write index | write, reserve and commit, read, unskip, compact, grow, shrink | connections, TLS, handlers | growth in steps, compaction under `unskip`, the limit |
| `LockFreeQueue` | linked list with a sentinel, head, tail | push, pop, batches | nothing yet | two threads at the sentinel, freeing what the other may hold |
| HPACK, factories, configuration, statistics, logger, time, errors | small or none | codecs, construction, counters, I/O | | |

What makes each correct: the queue and the pool lose nothing, duplicate nothing,
keep their order and never leave a thread asleep that should run; the message
centre never destroys what a thread still uses and ends when told to; the server
neither leaks nor closes twice a descriptor and finishes a shutdown in bounded
time if its message centre stops; a
connection object closes only its own descriptor and lives as long as somebody
uses it; a protocol handler answers every request once, with its own body, in
the right order, however the input was cut up; an I/O thread reports only what is
registered, gives its descriptors back and ends when told to; the buffer is a
stream and the lock-free queue a FIFO; a strategy or debug handler lives exactly
as long as somebody may call it.

The thread structure: `Server` is called by the program's main thread;
`MsgCenter` runs one event-loop thread, some I/O threads and some workers. In
this repository the protocol handlers, the callbacks and the debug chain are
built and tested but not yet called from the event loop, so they are modelled on
their own and no fairness is assumed of whoever will call them.

## 2. Modules

| Module | Models | Uses |
|---|---|---|
| `EventQueue` | `event_queue.cpp` | |
| `WorkerPool` | `worker_pool.cpp` | |
| `MsgCenter` | `msg_center.cpp`, `event_loop.cpp`, I/O threads as producers | instances of `EventQueue` and `WorkerPool` |
| `Server` | `server.cpp` | |
| `ConnectionManager` | `connection.cpp`, `connection_manager.cpp` | |
| `Http1Handler` | `Http1Handler`, `http_parser.cpp`, `http_message.cpp` | |
| `Http2Handler` | `Http2Handler`, `http2_stream.cpp` | |
| `IoThread` | `io_thread.cpp` | |
| `LockFreeQueue` | `lockfree_queue.hpp` | `Fifo`, the abstract queue it implements |
| `Buffer` | `buffer.cpp` | |
| `DebugChain` | `debug_chain.cpp` | |
| `Callback` | `callback.cpp` | |
| `EventQueueProofs`, `WorkerPoolProofs`, `ConnectionManagerProofs`, `IoThreadProofs`, `ServerProofs` | theorems | extend the module of the same name |
| `MsgCenterProofs` | theorems about the composition | instances of `EventQueueProofs` and `WorkerPoolProofs` |
| `Http1HooksProofs` | theorems, each about one component | extends `Http1Handler`, `DebugChain` and `Callback`, the protocol handler and what it is to call |
| `Http2UtilsProofs` | theorems, each about one component | extends `Http2Handler`, `Buffer` and `LockFreeQueue`, the protocol handler and the data structures below it |
| `MC*` | constants for TLC | extend the module of the same name; `MCUtils` takes `Buffer` and `LockFreeQueue`, `MCHooks` takes `DebugChain` and `Callback`, one of the two moving in each behaviour (they share no state) |

**EventQueue.** A method that holds the mutex from start to end is one action;
`pop_all` takes one event per action but keeps the mutex (`batch`), and
`wake_up` is two actions, since it notifies after the unlock (`closing` counts
the notifications still to come). `Waiting` are the consumers blocked on the
condition variable, `Woken` those on their way back. `pushed` and `popped` are
history variables.

**WorkerPool.** The mutex is explicit, because `start` and `stop` store their
atomics and notify without it: a worker's evaluation of the wait predicate and
its blocking are two steps (`Check`, `Block`) and the stores of `stop`
(`StopRunning`, `StopClose`, `StopNotify`) may come between them. `ctl` is where
the caller of `start`/`stop` is, `wpc` where each worker is. `executed`,
`accepted` and `acceptedAtStop` are history.

**MsgCenter.** The actions of `EventQueue` and `WorkerPool` are used as they
stand; `stop` is split at every store, join and reset. Several threads may call
`stop` at any time; a `start` does not overlap another `start` or an unfinished
`stop` (the class documents no such use). A `start` that timed out is final:
what follows in the program is `std::terminate` on a joinable thread. Posters
never post SHUTDOWN. Spurious wakeups are left to the `WorkerPool` run.

**Server.** One action per step of `init`, `start`, `stop` and `cleanup` between
which something may fail or another thread may look. `socket[fd]` is the port
the descriptor is bound to, or `Closed`; `badClose` remembers a
close of a descriptor that was not open. A message centre that fails to start
counts as not running (what its timeout leaves behind is in section 5). One that
is told to stop need not return: `MsgCenter::stop` joins the workers and can hang
(run `worker_pool_stop`), so a caller inside it (`InCentreStop`) is given no
fairness. `ConnOpens`/`ConnEnds` are the clients. The module
allows several callers; the runs have one, because two concurrent calls of
`stop` do close descriptors twice (section 6).

**ConnectionManager.** Objects are numbered; `Referenced` is what keeps one
alive: the table, a sweep's vector, the serving thread's handle. The kernel may
hand out a descriptor number again as soon as it is closed. Sweeps collect under
the lock and close outside it. Only the shutdown thread closes, as in the
source; `late` connections are chosen freely, which covers every clock.

**Http1Handler.** Input units are lines and body bytes, labelled with the
request they belong to; the handler never looks at the label. A read takes any
number of units up to the temporary buffer, none when a line is cut short. `WholeHeads = TRUE` is an assumption
on the environment (a request head is not cut by the end of a read), needed
because of the finding that `MCHttp1Split.cfg` shows, where it is dropped. Clients state
their body lengths truthfully. `on_write` does nothing and `send_response` is
called by nothing, so neither is an action.

**Http2Handler.** Input units are frames: an incomplete frame stays in the
buffer and is the same as one not yet sent, which is also why the client sends
only between calls of `on_read`. A reply is written frame by frame (`SendHeaders`,
`SendData`), and each write may fail before the frame or between its header and
its payload. The client follows RFC 9113 except for header blocks that do not
decode and DATA on idle streams; the connection preface, which `read_frame`
does not know, is not sent. It sends no PADDED or PRIORITY flags and no
trailers: the handler strips no padding, so a padded DATA frame, legal as it is,
would be echoed with its padding. `out` is a log of frames for each
stream; a frame header whose payload could not be written (`whole`) stays one
entry in it and does not shift the framing of what follows, as it would on the
connection. `SplitHeads = FALSE` excludes END_STREAM on a HEADERS frame that a
CONTINUATION follows (section 6); `MCHttp2Split.cfg` allows it.

**IoThread.** The state is the members, the place of the I/O thread in
`event_loop_mac`, and the kernel: what each descriptor number stands for
(`file`), the filters of the kqueue (`watched`) and whether the pipe holds a
byte. The kernel hands out the lowest free number, so a socket can get the
number the pipe had. `close` and the store of -1 that follows are two steps
where another thread may look in between. `kevent` may report any registered
filters in any order, more than once over time, with or without EV_EOF and
EV_ERROR. Callers add sockets that are open and remove what they added, then
close it, as `stop_accepting` does. `Server::cleanup` of a running server
(server.cpp:165-170) does not: it closes listeners that are still registered and
stops the I/O threads afterwards, which is outside this model (section 5). `owned` and `posted` are
history. The loops for Linux and Windows only sleep: they are the `degraded`
state that a failed setup ends in too.

**LockFreeQueue.** A step is one access the other thread can see. `pop` is
`pop_batch` of one item. Nodes are addresses from a small set and the allocator
may return a freed one at once. `sent` and `received` are history and also the
state of `Fifo`, the abstract queue. The orderings of the code (release on the
link, acquire on the load) make every interleaving of these steps and nothing
else possible; weaker orderings are not modelled.

**Buffer.** Bytes carry the number of their write, so that order and loss can be
stated; memory above `write_idx_` is not kept. A buffer has one user, every call
is a step. `RespectLimit = TRUE` says that no caller lets the content grow past
MAX_CAPACITY (section 6 tells what happens otherwise; since `commit` clamps
`write_idx_`, the overrun shows in `NoByteLost` and not in `WithinCapacity`). A failed allocation
leaves the compacted buffer. The target of a move is a buffer with the same
contents; the source, which may be used again, is what is followed.

**DebugChain.** A pass is one step per handler, so that two passes interleave.
Registration happens between passes, as the header asks. `FirstAlone = TRUE`
says that the pass that sorts has the chain to itself (section 6). A sort leaves
what `std::sort` promises, an arrangement of the same handlers in ascending
order, however it gets there; two threads in `std::sort` at once leave anything.
`PassesInOrder` is stated on what a pass has called so far, without naming the
sorted vector. `MaxObjects` is at least the four default handlers. Custom handlers may stop
the chain and do nothing else; every handler has a `destroy` function (one
without is never destroyed by the chain); `Registrable` limits which names come and go.

**Callback.** The mutex makes each access of the map a step; between `LookUp`
and `Return` the strategy runs outside it. `refs` is the count in the control
block of the `shared_ptr`. Strategies that fail validation change nothing and
are left out.

## 3. Runs

| Run | Instance | Shows |
|---|---|---|
| `event_queue` | 3 consumers, 2 priorities, 2 slots, 4 pushes, batches of 2, 2 closers | FIFO without loss, exact count, no lost wakeup, drained before shutdown, close releases everybody |
| `worker_pool` | 2 workers, 2 posters, 3 tasks, 2 lives, 1 spurious wakeup | tasks run once, `stop` drains, a queued task runs |
| `worker_pool_stop` | 2 workers, 1 task | **violated**: `stop` may hang |
| `msg_center` | 1 worker, 1 I/O thread, 2 callers, 1 poster, 2 slots, 2 lives | objects outlive threads, running means ready, the loop ends, an event waits only for more urgent ones or is cut off by `stop` |
| `msg_center_dangling` | the same, one life | **violated**: the pool is used after its end |
| `server` | 1 caller, configurations with one and two sockets, 3 inits | descriptors accounted, none closed twice, ports cover sockets, shutdown ends or hangs in the centre's `stop` |
| `connection_manager` | 2 connections, 2 descriptor numbers | lifetimes and descriptors under racing sweeps |
| `http1` | 3 requests of 8 shapes, 1 failing write | replies in order with their own bodies, refusals only for cause and final |
| `http2` | 2 streams, bodies of 2 bytes sent back in frames of 1, 2 extra frames, 1 failing write, 2 frames ahead | each stream gets its own body, once, and none is forgotten |
| `io_thread` | 1 caller, 4 descriptor numbers, 2 sockets, batches of 2, 2 lives, 3 table calls | no event after `remove_fd`, descriptors given back on every way out, `stop` returns, an added descriptor gets watched |
| `utils` | capacity 9 with all three kinds of growth, 14 bytes; 5 addresses, 7 items, batches of 3 | indices in bounds, no byte lost; no use after free, no leak, refinement of `Fifo` |
| `hooks` | 2 workers, the default handlers and 2 custom ones (equal and lower priorities), 5 objects; 2 threads, 2 ports, 4 strategies | passes in order, disconnect before error code, ownership of handlers; strategies alive exactly while referenced |

*Bounds.* They are the smallest at which every action fires and the cases in
question meet: more consumers than slots (a notified consumer may find its event
taken), a queue that is full when SHUTDOWN is pushed, two lives so that flags
left from the first show in the second, two sockets so that the second can fail
after the first, one descriptor number used by two connections, a limit of two
headers reached and passed, bodies longer than a frame, two streams in any
interleaving, more items than addresses, fewer descriptor numbers than sockets and
pipe ends over two lives, more registrations than handler names. Every counter that would grow without end has a constant named
`Max...` in its action's guard.

*Deadlock.* Checked where the system cannot legitimately stop (`event_queue`,
`server`); elsewhere the bounds let a run end, and `CHECK_DEADLOCK FALSE` says so.

*Fairness.* Weak fairness, and only of threads that are inside a method and can
go on: a worker, the event loop, a caller of `start` or `stop` half-way through,
the notification that follows an unlock. The operating system's scheduler gives
that much. Nobody is obliged to call anything, clients are obliged to nothing,
and no mutex is held by a thread that waits, except `post_mutex_`, which
`MsgCenter::stop` keeps through its joins. A caller of the server inside
`MsgCenter::stop` gets no fairness, because that call can hang in its join.
`ShutdownFinishes` says that the shutdown ends or is in that call; it holds
though connections may never end, and since the status is still SHUTTING_DOWN
when the call returns, it says as well that the shutdown then ends.
`EventsHandled` is stated for each priority and each event in turn: with strict
priorities a less urgent event may be starved for ever, so neither that it is
handled unconditionally nor that the queue becomes empty is claimed. The I/O thread makes progress
because `kevent` is called with a timeout of 100 ms and its sleeps end;
`StopReturns` and `AddedIsWatched` therefore do not rest on the wake-up byte,
which can be lost.

*Refinement.* `LockFreeQueue` implements `Fifo` (`FifoSpec`): the link of a batch
is one abstract enqueue of all its items, the move of an item out of its node one
dequeue, every other step a stutter.

*Properties that say several things.* `FdsAccounted` is descriptor accounting as
a whole (no leak, no second close, ports for every socket), `RejectsOnlyBad` also
says that nothing is read after a refusal. The type invariants of
queue and pool are checked in their runs; those of the other modules are proved.

## 4. What is proved

Every safety property of the passing runs is a theorem: for any sets of threads,
callers, sockets, descriptor numbers, handlers, addresses and streams, any
requests, any capacities and any bounds. The assumptions on the
constants are named beside them (`...Assumption`): parameters are natural
numbers, sets are finite where they are counted, a reserved value (no
descriptor, nobody) is not an element of the set it stands outside of, the
centre has a worker and a priority of its own for SHUTDOWN. TLC evaluates them
in every run.

Some theorems rest on a condition on the callers as well, the one under which
the run is made and without which the property is violated (section 6):
`RespectLimit` for `NoByteLost` (no caller asks the buffer for more than
MAX_CAPACITY), `FirstAlone` for the debug chain (the pass that sorts is alone),
`OneCaller` for the server (calls of its methods do not overlap), `WholeHeads`
for HTTP/1.1 (no read ends within a request head) and `~SplitHeads` for
`AnsweredWhenEnded` of HTTP/2 (no END_STREAM on HEADERS that a CONTINUATION
follows). The other theorems about HTTP/2 hold without the last.

Each component has one inductive invariant, the conjunction of named parts, and
draws the properties from it. TLC checked it on the instance of the run before it
was proved; of the two HTTP invariants, which speak of a history or a sequence TLC
would have to guess, it checked the properties and types drawn from them.

*EventQueueProofs* (`QueueInv`): `TypeCorrect`, `NoLoss`, `SizeIsExact`,
`NoLostWakeup`, `DrainedBeforeShutdown`, `CloseNotifies`. The invariant is
the properties themselves plus that a waiter on a closed queue has a
notification coming. They need each other: that no wakeup is lost needs the
exact count (the count is what a woken consumer will find), and that the count
never goes below zero needs the count to be the cardinality of the set of
occupied slots (`Slots`), to which `Accept` adds one element and from which
`Take` removes one. Those two facts are lemmas (`AcceptAddsSlot`,
`TakeRemovesSlot`), as are the facts on sequences behind FIFO.

*WorkerPoolProofs* (`PoolInv`): `TypeCorrect`, `TasksRunOnce`, `StopDrains`.
Tasks are numbered as they are accepted, so the queue always holds an interval:
`Shape` says that it holds `Taken + 1 .. accepted` in order, `Hands` that each
task up to `Taken` is executed or in exactly one worker's hands, `Phases` that a
worker which has left since `stop` began left an empty queue behind. `StopDrains`
follows when all have left.

*MsgCenterProofs* (`CentreInv`): `ObjectsOutlive`, `RunningIsReady`,
`CentreTypeCorrect`, and, carried over from the parts, `CentreTasksOnce`,
`CentreDrainsTasks`, `CentreEventsInOrder`. The invariants of queue and pool are
used as they were proved: each action of the centre is shown to be a step of the
part, or to begin a new life of it. Added are who may be inside `start` or
`stop` (`Exclusive`), which joins a `stop` has behind it (`Torn`), and that
between `start` and `stop` nobody pushes SHUTDOWN, so the loop stays (`Up`).

*ConnectionManagerProofs* (`ConnInv`): `ConnectionsOutliveUsers`,
`OwnDescriptorClosedOnce`, `DescriptorsNotLeaked`, `SweepCloses`,
`ConnectionTypes`, and the action property `OneDescriptorEach`. An open
descriptor and its connection point at each other. The exception is the
connection whose sweep stands between `close` and the store of -1: its number
may be another's by now (`Stale`). It is in the sweep's vector, so its
destructor, which would close the number again, cannot run (`Sweeping`).

*IoThreadProofs* (`IoInv`): `IoDescriptorsReturned`, `IoNoEventAfterRemove`,
`IoTypeCorrect`. Where the thread is says which pipe ends are open and which
members name them (`Pipe`); before and after, there are neither filters nor a
kqueue (`Bare`). A table entry stands for a socket that is added and open under
that number (`Tables`), and no two numbers are one socket (`Identities`). The
lowest free number exists because descriptors are well ordered.

*ServerProofs* (`ServerInv`): `DescriptorsAccounted`, `RunningServerServes`,
`ShutdownWatchesOpen`, `ServerTypeCorrect`. The open sockets are the listed ones
except inside the loop of `stop_accepting`, where those before the loop index are
closed (`Sockets`); what the I/O threads watch is what `start` has registered so
far (`Watch`); the place of the call says what `status_` is (`Phases`).

*Http2UtilsProofs*, the queue (`ListInv`): `ListNoUseAfterFree`, `ListNoLeak`,
`ListTypeCorrect`, `ListImplementsFifo`. The list is the sequence of the nodes of
its items: linked in order, all different and, with the nodes of a push not yet
linked, all that is allocated. The consumer stays behind the last node, so the
producer's tail is among them. The refinement of `Fifo` is proved step by step
with the same mapping that TLC uses. The buffer (`BufferInv`):
`BufferWithinCapacity`, which needs no condition, and `BufferLosesNothing`, which
adds that memory holds the last bytes written.

*Http2UtilsProofs*, HTTP/2 (`Http2Inv`): `EchoesItsOwnAlways`,
`RepliesWellFormedAlways`, `AnsweredWhenEndedAlways`, `Http2TypeCorrect`. Between
the client and a reply lie frames sent, frames buffered and frames handled, of
all streams mixed. So the invariant gives each stream a history: one record of
what the client had sent on it before each frame still to be handled, and one
after the last (`History`), where neighbours are related by the frame between
them (`Follows`) and frames of other streams change nothing. What the handler
knows of the stream (its stored body, whether it was answered, the frames
written) is then a function of the first record alone (`Handled`). A client's
step adds a record at the end, handling a frame drops the first; nothing else
moves. A reply can be long finished when the client's other streams go on: once a
record is ended its body is the same in every later record, the client's own
included, which makes the reply the echo of what the client counts. `EchoesItsOwn`
says by cut points where each DATA frame lies in the body, so that no flattening
of frames has to be reasoned about; `CutTo` extends the cut points by one frame.
Only `close` ends the history, and it keeps the replies.

*Http1HooksProofs*, HTTP/1.1 (`Http1Inv`): `RepliesInOrderAlways`,
`RejectsOnlyBadAlways`, `Http1TypeCorrect`. Everything sent so far is one sequence
in which request k begins at a known place (`Sent`); what is buffered or under way is that sequence
behind the units the handler has taken (`Tracks`), and where the handler is in the
first request not answered says how many these are (`Progress`): at its start,
after its line, after so many of its headers or bytes of its body. A reply is
given at the end of the request, which is the start of the next, so no unit
is skipped or shared, although the handler compares no labels. A refusal needs a
line that no well-formed request has, because the headers stored are those of
this request read so far (`HeadersRead`). With `WholeHeads` a request whose line
is buffered has its head buffered (`WholeHead`), so `parse_headers` never leaves
half a head behind. The invariant ends at the first refusal, after which only
refusals follow.

*Http1HooksProofs*, the registry (`CallbackInv`): `CallbackAliveWhileReferenced`. The
count equals the number of references because a strategy has one port at most
(`OnePortEach`) and references are finitely many (`Finite`). The chain
(`ChainInv`): `ChainPassesInOrder`, `ChainDisconnectPreempts`,
`ChainHandlersOwned`. Names and objects are in the vector once and `sorted_` does
not lie (`Table`); a pass has called what lies before its place (`Passing`); an
error code was set behind it (`Contexts`). That a sort loses no handler is the
pigeonhole principle: an ascending vector repeats none.

*Only model-checked.* Liveness (`CloseReleasesWaiters`, `QueuedTaskRuns`,
`LoopTerminates`, `EventsHandled`, `ShutdownFinishes`, `StopReturns` and
`AddedIsWatched` of the I/O thread): the prover has no fairness reasoning. The
temporal properties are exactly these; the refinement of `Fifo` is proved.

## 5. Hazards

`PROJECT.json` lists them at their lines with the properties that watch them.
Covered by no property of a run because the property that would cover it is
violated (section 6): events dropped at `stop`, the second `stop` of a server,
heads cut by a read, END_STREAM before a CONTINUATION. Not covered either: an
event handler that posts while `stop` waits for it (handlers are opaque);
`cleanup` or the destructor of a running server, which closes descriptors the
I/O threads still watch; two concurrent `stop` calls of the server, a closed
wake-up descriptor still in use, and two first passes over the debug chain
(violated, section 6). Below the list: the padding of DATA frames; what a failed `start` of the message
centre leaves behind; `add_listen_fd` walking `io_threads_` while `stop` clears
it; an end-of-file of a removed socket taken for that of the connection that got
its number; DISCONNECTED overwritten by a racing transition; the arithmetic of
timeouts; the logger's second `init`.

## 6. Findings

The code does other than a comment, a test or a design document says. Each
counterexample is short and worth reading; `PROJECT.json` quotes the lines.
Two are runs of the project, the others are shown by a configuration that is
kept beside them, by one constant or by one invariant more:

| What | How to see it |
|---|---|
| `stop` of the worker pool can miss a worker and hang | run `worker_pool_stop` |
| `post_callback_task` can use a destroyed pool | run `msg_center_dangling` |
| completion events can be discarded at `stop` | `MCMsgCenterDone.cfg` with `MCMsgCenter` |
| a restarted server is not stopped by its second `stop` | `MCServerRestart.cfg` with `MCServer` |
| a request head cut in two loses its first headers | `MCHttp1Split.cfg` with `MCHttp1Handler` |
| END_STREAM on a HEADERS frame without END_HEADERS is forgotten | `MCHttp2Split.cfg` with `MCHttp2Handler` |
| a wake-up byte can go to a closed or reused descriptor | invariant `WakeUpStaysInPipe` in `MCIoThread.cfg` |
| a write past MAX_CAPACITY is reported as done and overruns the vector | `RespectLimit = FALSE` in `MCUtils.cfg` |
| two first passes sort the debug chain at once | `FirstAlone = FALSE` in `MCHooks.cfg` |
| two concurrent `stop` calls of the server close descriptors twice | two `Callers` in `MCServer.cfg` |

Found while modelling, without a check: the TLS object is wired to both ends of
one BIO pair, so it never sees the client's bytes; SETTINGS is sent before TLS
can carry it; no GOAWAY on close; a second pipelined request waits for more
input; stale ports after re-`init`; the cleanup after a start timeout; the state
after a failed `init`.

## 7. Not modelled, and the plan

Not modelled: HPACK (a pure codec over byte strings), configuration parsing,
factories, logging, statistics, time and error helpers (pure data, independent
counters or I/O); the record layer and pumps of `TlsHandler`, because with the
BIO pair as it is wired a faithful model has no behaviour beyond a handshake that
fails; `MsgCenter`'s forwarding of descriptors to its I/O threads, which adds
only the unlocked walk of section 5; `callback_registry_get_strategy`, which its
header declares unsafe.

Worth doing next: the two conditions on the HTTP clients disappear once the code
keeps its place within a head (`parse_headers`) and remembers END_STREAM until the
end of the header block (`handle_continuation_frame`); the invariants need a
record of that place and nothing else. When the event loop comes to call the
protocol handlers, a composition of `MsgCenter`, `ConnectionManager` and the
handlers is worth a module of its own.
