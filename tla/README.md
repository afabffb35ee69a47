# datapath in TLA+

This directory holds a formal model of [datapath](../src), a low latency IPC library
that sends framed messages over Windows named pipes. It is checked with TLC and proved
with TLAPS. Lines are quoted as `file:line`, relative to `source/windows/` unless a
directory is named.

## The system

| Part | Source | State | Operations | Talks to |
|---|---|---|---|---|
| Socket | `socket.cpp` | `is_connected`, `socket_handle`, `watcher` (thread, lock, `shutdown`); in the thread: `state`, `read_buffer`, two overlapped objects, `waitable` | `connect`, `_connect`, `write`, `good`, `close`, `_disconnect`, `_watcher` | the pipe, the system's completion routines, the application through `on_message` and `on_close` |
| Server | `server.cpp` | `sockets`, `waiting_sockets`, `pending_sockets`, `active_sockets`, `max_clients`, `watcher` | `host`, `create`, `_create_socket`, `close`, `_watcher` (three passes) | pipe instances, clients, the application through `on_accept`, sockets through weak pointers and `good()` |
| Thread pool | `source/threadpool.cpp` | a queue, a mutex, a condition variable, `should_stop` and a thread for each worker | `push`, `clear`, `runner`, constructor, destructor | the tasks |
| Task | `task.cpp` | `buffer`, `overlapped` | `_assign`, `cancel`, `is_completed`, `wait` | an overlapped object |
| Overlapped | `overlapped.cpp` | the `OVERLAPPED`, its event, `handle` | `cancel`, `reset`, `is_completed`, destructor | the system |
| Waitable | `waitable.cpp` | listeners of success and error | `wait`, `wait` for all, `wait_any` | the system's alertable waits, listeners |
| Overlapped queue | `overlapped-queue.cpp` | free and used objects | `alloc`, `free` | nothing uses it |
| Event | `include/event.hpp` | a list of listeners | `add`, `remove`, `clear`, call | the application |
| Facade | `datapath.cpp` | none | `host`, `connect` | Server, Socket |
| Samples | `samples/` | task lists, maps of clients, `can_send_msg`, two `shutdown` flags | an echo server and its client in one process, twice: `single-process-ipc` and `benchmark` | the public interface |

**Threads.** A socket has a watcher thread, the server has one, and the pool has one for
each worker; the application has as many as it likes. The server's watcher runs all of a
pass under the server's `lock`, `on_accept` included. A socket's watcher takes no lock
while it runs. Completion routines run on the thread that issued the I/O, and only inside
an alertable wait.

**What is hard.** A message is two reads whose errors are ignored. A socket can be
closed by several threads, by its own callback, or by nobody while its peer is long gone.
The server decides on `expired()` and `good()` of objects that other threads are
destroying. The pool takes a task and removes it in two different critical sections. The
40 hazards listed in `PROJECT.json` name each of these at its line.

**What makes each part correct.**

- Socket: `on_message` gets the peer's messages whole, in order, once; a read in flight is
  never disturbed; a socket that is not good touches nothing; `close()` returns.
- Server: every open instance is on exactly one list; the backlog is bounded; every new client,
  and only a new client, is put to `on_accept`; a socket keeps the pipe it was given.
- Thread pool: tasks start in the order they were queued, once, and none goes away; no wakeup
  is lost; a task is turned away only for the reasons the code states; the destructor returns.
- Task and Overlapped: the buffer outlives the write, and no handle is closed twice.
- Waitable: the object named is the one that was signalled, each I/O is reported to its
  listeners once, and a wait ends when its time is over, however often it is interrupted.
- Overlapped queue: no object is handed out twice.
- Samples: every message returns, the lists of tasks drain, no thread uses what another has
  destroyed, and `main` returns.

## Modules

| Module | Contents |
|---|---|
| `MessageChannel` | abstract specification: the promise of `on_message` on one connection |
| `Socket` | `datapath::windows::socket`, its peer and the application's threads |
| `SocketInv` | the inductive invariant of `Socket`, part by part |
| `SocketProof` | theorems about `Socket`, and that it implements `MessageChannel` |
| `MCSocket` | TLC instance of `Socket` |
| `Server` | `datapath::windows::server`, the pipe instances, clients and sockets |
| `ServerProof` | theorems about `Server` |
| `MCServer` | TLC instance of `Server` |
| `WorkQueues` | abstract specification: the queues of a pool's workers |
| `ThreadPool` | `datapath::threadpool::pool` |
| `ThreadPoolProof` | theorems about `ThreadPool`, and that it implements `WorkQueues` without `clear()` |
| `MCThreadPool` | TLC instance of `ThreadPool` |
| `Task` | `datapath::windows::task` and `::overlapped`, `socket::write`, the wait for one object |
| `TaskProof` | theorems about `Task` |
| `MCTask` | TLC instance of `Task` |
| `Waitable` | `datapath::waitable`: the three waits, by several threads |
| `OverlappedQueue` | `datapath::windows::overlapped_queue` and threads that use it, on top of `Waitable` |
| `OverlappedQueueProof` | theorems about `OverlappedQueue` and `Waitable` |
| `MCOverlappedQueue` | TLC instance of `OverlappedQueue` |
| `Echo` | the two samples, with the sockets reduced to two queues |
| `EchoProof` | theorems about `Echo`, and that it implements `MessageChannel` for its client |
| `MCEcho` | TLC instance of `Echo` |

`PROJECT.json` maps every definition to the lines it stands for. Definitions with a
comment that starts with "Mutant:" are deliberate mistakes: each is put in the place of
the definition that follows, to see that a property notices.

### Socket

The pipe is the history `wire` of everything the peer wrote, in cells, and the cursor
`rpos`. One `write()` puts two cells there, a header and a body, because `_assign`
(`task.cpp:23-29`) builds one buffer and `WriteFileEx` gets it in one call. A read takes
one cell if it asks for what is there, and otherwise yields a `stale` cell, whose
bytes can mean anything: a wrong read is a nondeterministic choice and not an error of the
model. A body of zero bytes is a cell that a read of zero bytes takes and any other read
ignores. The header of a message is its length, and different payloads may share one.

Each of the two overlapped objects is `idle`, `pending` (the system owns it), `completed`
(its routine is queued) or `signalled` (the routine ran and set the event). The steps of
the watcher are the top of its loop (`CheckLoop`), the branches on `state` (`ReadHeader`,
`DeliverBuffered`, `GoWait`), the alertable wait (`RunCompletions`, `WaitTimesOut`) and the
handlers that the wait calls (`HeaderArrived`, `ContentArrived`). The application's callback
is a state of its own, `pc = "callback"`, so that anything may happen while it runs. As the
completion routine ignores its error code, a failed read is followed like one that
succeeded.

`close()` is five steps, in the order of the code: the disconnect, `on_close`, the flag,
the test of `joinable()`, the join and `is_connected`. Several threads may be in it: two
that join one thread are undefined behaviour, and either the second returns or the process
ends (`crashed`). `JoinOneself` is the watcher joining itself, from `on_message` or from
the branch on `error::Closed`. The system abandons mutexes and never an event, so that branch is not
taken in a real run; the model keeps it (`SelfJoin`), and what holds with it holds without it. `DisconnectNamedPipe` only has an effect at the server's end.

Three assumptions are the model's own. `ReadRefused`: `ReadFileEx` returns FALSE only on a pipe
whose other end is gone or cut. Should it refuse a read on a pipe that is alive, for lack of
resources, in the handler of a header (`socket.cpp:87-90`), the watcher would go back to reading
headers and take the body for one; `DeliveredInOrder` and `AllDelivered` say nothing of that.
`CallOnMessage`: the test of the listener and the call (`socket.cpp:99-100`) are one step; a
listener removed between the two would lose the message in hand. And the model takes the order in
which an application thread reads `is_connected` and cuts the pipe as one step (module `Server` has
two), and does not allow a new `connect` while another thread is inside `close()`. The `shutdown`
flag and `is_connected` are plain variables read without a lock; the model reads them once per
iteration, as the build does because every iteration calls into the system.

### Server

The lists are sets: no property depends on their order. Handles are values that the system
may give out again after `CloseHandle`. A pipe instance is `none`, `listening`, `connected`,
`closing` (the client has left) or `disconnected`. A socket is reduced to what the server
sees of it: its handle, `good()`, and whether its weak pointer has expired, which happens
before its destructor runs (`expired`, then `dead`).

`close()` of a socket is three steps here: the test of `is_connected` (`CloseSocket`), the disconnect
(`DisconnectSocket`) and the end of `_disconnect`, where `is_connected` is cleared (`SocketClosed`). `passed`
counts the calls between the first two, up to `MaxClosers` threads for one socket. A call that passed
its test before another one cleared the flag disconnects the pipe even then, and by that time the watcher may
have recycled the handle to the next client: `late` is the set of pipes that were cut in this way. A thread
in `close()` holds a reference, so the socket is not dropped under it. Nobody else has a socket before
`on_accept` has returned (`InHand`): a handler that closes the socket it was called with, or hands it
to another thread first, is not modelled.

`ConnectNamedPipe` returns FALSE for an overlapped handle, so `ovmap` stays empty, the
lambda at `server.cpp:125-130` never runs and the server polls; `Poll` is that one call.
`Accept` and `Decline` are the two branches after `on_accept`; `kept` says whether the
application kept a reference to the socket. `CheckExpired` and `CheckGood` are two steps,
because the last reference can be dropped between `expired()` and `lock()`. `Recycle` erases the
entry whose iterator the loop then increments: undefined behaviour, after which the
pass goes on, ends, or the process does.

`Close` and `CloseJoined` are `close()` by the application: it takes `watcher.lock`, sets `shutdown`
and joins. `CloseFromAccept` is `close()` by the handler of `on_accept`, which runs on the watcher: it
joins itself, which `std::thread::join` answers with an exception that nobody catches (`crashed`),
or it waits for `watcher.lock` that another thread holds while it joins the watcher
(`pc = "stuck"`): neither ever returns. `CloseEnds` says that `close()` returns in every other case.

### Thread pool

A worker's runner is six steps: the loop's condition, taking the front of the queue,
running the task, removing the front of the queue and testing the wait condition, blocking,
and testing it again after a wakeup. Between a test that was false and blocking
(`drowsy`) the runner still holds the mutex: `push`, `clear` and the look at the
queue's length have to wait, but the destructor, which sets `should_stop` without the
mutex, does not. `push()` looks at one worker after the other, and by the time it has
decided, the lengths it saw may be out of date. The number of workers is chosen once, out of
`Counts`, because `hardware_concurrency()` may return 0. The affinity `1 << idx` is modelled
as the bit `idx`; as it has the width of an `int`, there are 31 workers at most, and the mask
`_workers.size() - 1` of `push()` has its five last bits (`TestedBits`). A task that
throws would end the process and is not modelled; nor is a task that uses its own pool while
that is destroyed.

`WorkQueues` is the promise to those who push: a task goes to the end of a queue and is taken
from its front, in one step. The pool takes it in one section of the mutex (`Grab`) and removes it in
another (`Remove`); in between the task in hand is still the front, so what waits is the rest of
the queue. `clear()` breaks that (`pool_remove`), and nothing like `WorkQueues` holds with it.

### Task

A call of `write()` makes a new overlapped object, and its number stands for the object, its buffer
and its write. The object has an event, which is a handle value that the system may give out
again once it was closed. A write is `pending` until the system is done (`Complete`),
`completed` while its routine is queued, and `called` once the thread that issued it has run
the routine in some alertable wait (`RunRoutines`). `is_completed()` looks at the first of these
steps, `wait()` at the event that the last one sets.

The handle of a write's object is never set (`set_handle` is called for reads at `socket.cpp:75`
and `121` and for connects at `server.cpp:123`, and for nothing else), so `CancelIoEx` in
`overlapped::cancel` always fails for it: `Cancel` does not stop the write, it closes its event. The
destructor calls `cancel()` again and closes the same value a second time. Two steps destroy a
task, `Drop` (`~task` cancels) and `Destroy` (its members go), because other threads may be given the
closed value in between. A write, completion or routine that touches a freed object sets `corrupt`,
and nothing is said of what follows.

`hasty` holds the writes whose object was released before a wait for them succeeded. A handle
that is read by `wait()` and released by another thread during the wait is not modelled; nor is a
wait that does not succeed, as it changes nothing.

### Waitable and OverlappedQueue

A thread's `call` is the wait it is in: the kind, the list, the milliseconds `left` (the
code's `timeout`), and the time `spent` in the present system call. Time is counted in half
milliseconds, the coarsest unit in which `duration_cast` to whole milliseconds loses
something; `asked`, `lasted` and `breaks` are history. `Interrupt` is the branch on
`WAIT_IO_COMPLETION`, which the three functions share word for word: all routines queued to the
thread have run, in any of `RoutineTimes`, and the whole milliseconds of the call come off the timeout.
`Take` clears the events and hands the objects to `CallListeners`, one listener after the other,
so that other threads act in between.

The list of handles has as many entries as the list of objects, and null objects leave its end
empty (`waitable.cpp:81-96`). The system refuses such a list, and one that names an object twice
(`Refused`): the wait fails whatever is signalled, although the comment at `waitable.cpp:80`
announces "a valid obj+index translation list". The branches on abandoned objects are left out:
the system reports them for mutexes, and no waitable is one. A wait of nobody's I/O is not
interrupted: the routines of a wait come from I/O its own thread started, and each I/O is
reported at most once, so interruptions are finite (`WaitReturns` needs that).

`OverlappedQueue` adds the pool and its users. `alloc` hands out the oldest free object with the
event its last user left, and `free` accepts any object, in use or not. `twice` and `careless`
are history: an object was given back by a thread that did not have it, or was given back or used again
while a success is owed. What happens after that is not followed further (`Proper`): threads in
waits go on, and nothing new is started. Every property says of which of the two it depends.

### Echo

One module for both samples, because they are the same program but for a few lines: `variant`
says which, and the disjuncts that differ test it. Five threads act: `main`, the client's
`_watcher` (`Sender`), the watcher of its socket (`HandleMessage`), the watcher of the server's
socket, which runs the server's `handle_message` (`EchoThread`), and the `_watcher` of the server's
client (`Watcher`). A message stands for its number and for the task that sends it back.

The sockets and the pipe are two queues, `up` and `down`. What `Socket` shows is used:
messages arrive whole and in order, one at a time. `close()` of the client's socket leaves the pipe up,
because only the server's end can disconnect it; `close()` of the server's cuts it, and writes fail
from then on. The routines of the echoes run on the thread that wrote them, between two messages
(`RunRoutines`). The snapshot of the list, the wait and the removal are three steps, and so are the write
of an echo and the `push_back` of its task, so that the lock between them is free for the other thread.

`benchmark` sends again when the last message has returned: the reset of `can_send_msg` comes
after the write (`ResetFlag`), and an echo may come before it (`overtaken`). `handle_message` is two
steps: `Hear` takes the echo and sets the flag, `Track` stands for the rest, in which the
benchmark uses its measurer until the handler returns. The destructors are in the order of the members.
When the members go, main has joined the sender and nobody else: the socket goes last and joins its
watcher then. So an echo may still come, or the handler be at work, which `early` records.

The model stops at undefined behaviour (`Undefined`), because nothing can be said of what follows, and
every property that has to names the kind: `broken`, `HandleCloseErases` changed the map of clients in
the middle of its destruction; `touched`, the measurer was used after it was destroyed; `freed`,
the sender ended with its last write pending, and the object, the event and the buffer of that write went
with its task (module `Task` shows that case as `hasty` and `corrupt`). The tasks of the echoes are
different: the thread that issued them is joined before their list is destroyed.

## Runs

| Run | Instance | Shows |
|---|---|---|
| `socket_safety` | 2 payloads and the empty one, 2 closing threads, 3 messages, 2 connections, both self joins | `DeliveredInOrder`, `InFlightIsAwaited`, `NotGoodMeansQuiet` |
| `socket_refine` | 1 payload and the empty one, 1 closing thread, 3 messages, 2 connections, fair | `ImplementsChannel`, `CloseReturns`, `AllDelivered`, `OnCloseOnce` |
| `server_lists` | 3 handles, 3 sockets, backlog 2, 2 clients, one closing thread, `create()` twice, good sockets may be dropped | `BacklogBound`, `EachInstanceOnce` |
| `server_accept` | 2 handles, 2 sockets that two threads may close at once, one `create()`, no good socket dropped, fair | `NewConnectionsOnly`, `ActiveOwnsPipe`, `EveryClientEvaluated`, `ClosedIsRecycled`, `CloseEnds` |
| `server_reaccept` | good sockets may be dropped | `NewConnectionsOnly` fails |
| `pool_clear` | 0, 1 or 2 workers, 4 tasks and a null one, 2 pushers, `clear()` | `InPushOrder`, `SleeperIsNotified`, `NeverRefused` |
| `pool_liveness` | 2 workers, 3 tasks, 2 pushers, no `clear()`, fair | `ImplementsQueues`, `EveryTaskRuns`, `StopsUnlessDrowsy` |
| `task_writes` | 2 threads, 2 tasks, 2 event handles, 3 writes, fair | `EventsExclusive`, `WaitMeansDone`, `FreedOnlyInHaste`, `EveryWriteAwaited` |
| `waits` | 2 threads, 2 objects, lists of two objects and of an object and a null, durations -1 and 3 clamped to 0 and 1 ms, routines that take 0 or 1 ms | `TimeoutBounds`, `HandedOutOnce`, `ReportedOnce`, `WaitReturns` |
| `echo` | both samples, 3 messages, at most 2 objects in a wait, a key at any time, fair | `NothingLostOrTwice`, `WaitsAlive`, `MembersAlive`, `TasksDrain`, `AllReturn`, `MainReturns` |
| `pool_mask` | 1 or 2 workers | `RejectedFitsNone` fails |
| `pool_remove` | 2 workers, 3 tasks, `clear()` | `RemovesItsOwn` fails |

**Why the bounds are enough to be interesting.** Three messages allow one delivered, one in
hand and one in the pipe; two connections allow stale state of the first to reach the
second. Three handles with a backlog of two let an instance be created after an accept and
a recycled one be one too many. Two handles, two sockets and two closing threads let one handle be
recycled while a second call of `close()` is on its way to it. Two workers are the fewest for which the mask test, the choice
of the shortest queue and the order of destruction matter; three tasks that fit one worker
allow one running, one waiting and one being pushed. Three writes with two tasks and two
handles let a handle be closed, given to another object and closed again by the first; with two
tasks in flight on two threads one thread's routines run while the other's stay queued. Two
threads and two objects of which one is made when it is first needed let one object be in the lists
of two waits, be reported, given back and taken again; a wait of two half milliseconds can be
interrupted in the middle of a millisecond, at its end and after it. Three messages and two objects in a
wait let the list of tasks outgrow what a wait takes. Every bound is a CONSTANT (`MaxWrites`, `MaxSent`,
`MaxSessions`, `MaxConns`, `MaxCreates`, `MaxClosers`, `MaxOwed`, `MaxFree`, and `Count` for the sample without one) tested in the guard of the one action it limits, and
none is a limit of the code. `CHECK_DEADLOCK FALSE` is set everywhere because a crashed
process, and a system whose bounded inputs are used up, rightly stop.

**Fairness.** Weak fairness of each thread that the code keeps runnable: the watchers
(their waits time out after 1 ms), threads inside `close()`, runners, pushers and the
destructor. It includes that callbacks and tasks return. In `Task`: the system finishes every
write (with an error if the pipe is gone), a thread that issued a write goes on making alertable
waits, a kept task is waited for, as in the loops of both samples, and a destructor that was
entered ends. In `OverlappedQueue` only a thread inside a wait goes on: time passes, and the timeout ends it;
nothing obliges I/O to finish. In `Echo` every thread goes on (none holds a lock while it waits), the system
finishes writes, and the server accepts its client (`EveryClientEvaluated` is about that); the key need never
be pressed. Nothing is assumed of
clients, of the peer, of spurious wakeups or of the application's decisions. `AllDelivered`
and `EveryClientEvaluated` state what they assume of those in the property itself.

### Findings

- `server_reaccept`: `iserver.hpp:29-30` says `on_accept` is called "if a new connection is
  pending evaluation". A good socket whose last reference is dropped expires before its
  destructor disconnects the pipe. The watcher recycles the instance in between
  (`server.cpp:197-200`), finds the client still connected and offers the same connection again.
- `pool_mask`: "mask does not fit any thread" (`threadpool.cpp:117`) is thrown for masks that fit,
  because the mask is tested against the number of workers minus one. A pool of one worker
  rejects every task.
- `pool_remove`: "Remove it from the queue and wait." (`threadpool.cpp:61`) removes whatever is
  at the front. After a `clear()` during the task this is a task that never ran, or nothing.

`StopsUnlessDrowsy` has its exception for a reason: a destructor that notifies a runner
between its test of `should_stop` and its wait joins it for ever. Those of `Echo` too. `TasksDrain`:
`single-process-ipc` waits for any number of tasks, and with more than the system allows no wait
succeeds again (the benchmark stops at 64). `AllReturn`: an echo that comes before `write()` has
returned is forgotten with the reset of `can_send_msg` (`samples/benchmark/main.cpp:244-246`), and the benchmark
stalls. `MembersAlive`: a benchmark that is stopped with an echo due, or with its handler at work on the
last one, uses a measurer that is gone. `MainReturns` excepts that, `handle_close` of
`single-process-ipc`, which erases from the map that is being destroyed, and in both samples the task
of a write that is still pending when the sender ends.

`ActiveOwnsPipe` has one too: two threads that close one socket may both pass the test of
`is_connected` (`socket.cpp:177`), and the slower one disconnects the pipe (178) under the next client, whose
socket stays good. `PipeStaysUp` shows that there is no other way: with one closing thread for each socket
nobody cuts the pipe of an active socket that is good.

Two more observations, without a run: "Notify Sockets of being dead." (`server.cpp:289`) is a comment
without code, so a socket stays good after the server has closed its pipe; and `overlapped::reset`
closes the event without making another, but has no caller. And `ActiveOwnsPipe` holds for the first
`create()` only: `close()` leaves sockets good whose handles it closes, a second `create()` may be given
the same handles, and closing such a socket then disconnects a client of the second server.
`server_accept` has one `create()`, and `PipeIsOwn` says so.

## Proofs

TLAPS checks the following for all values of the constants that satisfy the assumptions in the
modules (`DataAssumption`, `BoundAssumption`, `ServerAssumption`, `PoolAssumption`,
`TaskAssumption`, `WaitableAssumption`, `QueueAssumption`, `EchoAssumption`: the types of the
constants, that only the empty payload has length 0, at most 31 workers).

**Socket.** `DeliveredInOrder` is not inductive: it does not say which message the bytes in
`read_buffer` belong to. The invariant (`SocketInv!IInv`) ties the cursor to the number of
messages delivered. Between two messages it is at `2 * Heard`; while the header is read at `2 *
Heard`, or one past it with that header in hand; while the content is read at `2 * Heard + 1`, or
one past it with that body in hand (`PositionInv`). The exception is a pipe that refuses reads:
what was lost there is at the end, because nothing is ever read again. `ReadInv` says that only
the awaited object can be busy, and `ThreadInv` that a socket is disconnected only after its
watcher was joined. `WireInv` says that the pipe holds the frames of what was sent. From it follow
`TypeCorrect`, `DeliveryCorrect`, `ReadsAwaited`, `NotGoodQuiet` and `Refinement`: every step of
`Socket` is a step of `MessageChannel` with `open <- is_connected`, `received <- delivered`, or
leaves it unchanged. `CloseAnnouncedOnce` (`OnCloseOnce`) is a case of `NoThreadClosesTwice`: on
one connection `on_close` is called once for each thread that found the socket connected, and at
least once when it is over. The count alone is not inductive; `CloseInv` says that there is a set
of threads of that size, which holds those past the call in `_disconnect` and none before it. One
thread gives `OnCloseOnce`. A watcher that joins itself calls `on_close` too and is not in the
set, hence `SelfJoin = {}` for it.

**Server.** `EachInstanceOnce` and `BacklogBound` speak of the moments when the watcher is at the
top of its loop. The invariant says what holds inside a pass: `kill` is what is on two lists at
once (waiting and pending during the first pass, pending and active or waiting during the second),
so the bound holds for the lists without `kill`. `ListedInv` says that every open
instance is on one of the lists, so that none is lost either. `TypeCorrect`, `ListsDisjoint` and
`BacklogEnforced` follow, for any backlog and any `max_clients`. `EvaluatedOnce`
(`NewConnectionsOnly`) says that an instance that waits holds no connection that was put to
`on_accept` and is still up: `ClientInv` numbers the connections (`Numbered`), calls those without
an evaluation fresh (`FreshInv`), and ties an active socket that is no longer good to a
disconnected pipe (`ActiveInv`). Its hypothesis `~MayDrop` is the one `server_reaccept` shows to
be needed; `create()` may be called any number of times. `PipeIsOwn` (`ActiveOwnsPipe`) adds that
a socket's handle is that of its own connection for as long as the socket is good (`OwnInv`), and
holds while `creates <= 1`. It holds for any number of threads that close a socket (`MaxClosers`): a
late disconnect cuts a pipe and gives it to nobody. `PipeStaysUp` is about `MaxClosers <= 1`: a
call between its test and the disconnect is then the only one of its socket, which is still good
(`AloneInv`), so it can only cut its own connection.

**Thread pool.** `NoLostPush` needs `DrowsyIsIdle`: a runner that found its queue empty holds the
mutex until it blocks, so the queue is still empty then. `RemovesOwnUnlessCleared` and
`NoEmptyPop` need that the task in hand is the front of the queue, which `clear()` alone can
break; both assume `ClearMasks = {}`. So do the next two. `QueuesImplemented`: every step of the
pool is one of `WorkQueues` with `taken <- started` and `waiting` the queue without the task in
hand, or leaves it unchanged. `NothingForgotten`: every task `push()` was called with was turned
away, is on its way, is in a queue, or has run (`DoneInv`: what has left a queue has run). With
`clear()`, `StartsInOrder` (`InPushOrder`) and `NeverStartedTwice` hold: `Ordered` says that a
queue is the end of what arrived and that what was started comes before it, the task in hand being
the one that may be counted with either; `OnceInv` that no task arrives twice. `FitsWhenTested`
(`NeverRefused`) is about numbers: a bit of `size - 1` is below `size` (`BitAbove`,
`TestedIsPresent`), so a mask that passes the test has a worker, and the search cannot end without
one (`FitInv`).

**Task.** `FreedOnlyInHaste` needs that a wait means what it says (`WaitMeansDone`), which needs
that a set event belongs to one live object whose routine ran (`SetMeansCalled`), which needs that
no object closes the event of another (`EventsExclusive`): with `Holds` (a task's object is alive,
and no other task has it) and `Fresh` the four are inductive together. All of them stop being
promised once a write in flight was cancelled, so they are proved under that condition, as one
predicate `Owned`; `NoSharedEvent`, `WaitIsRight` and `OwnerWaits` follow.

**Waitable and OverlappedQueue.** `WaitsInTime` is inductive with the types: what is subtracted at
an interruption is the floor of half the time, so `2 * left - spent` gains at most one
(`InterruptInTime`). That `left` stays a natural number is part of `TypeCorrect`, and is what
keeps the timeout from becoming the one without end. `NoObjectTwice` needs that free objects were
made and that threads have only objects that were made (`QueueInv`). `EveryReportOnce` says where
the success of each I/O is; it needs the shape of the reports (`ReportShape`: a thread in a wait
has nothing to report, and no report names an object twice, because the system refuses a list that
does), without which one wait would report an object twice.

**Echo.** `NothingLostOrTwice` compares a sequence with the numbers sent, and its pieces move
while it stays the same. `Way` is the messages on their way, and `Flow` says that they are the
numbers up to `sent`: each step either leaves both or appends the next number to both. `Places` gives
`NoStalePointer`: the list only grows while the watcher is in its wait, and is destroyed after the
join. `Quiet` gives `NoMemberTouched`: unless main was early, everything had returned before the
client's members went, `handle_message` too, so that it cannot be called again. The exception is part
of the theorem, because the code does it. `EchoIsChannel` puts the sample under the abstract specification that
`Socket` implements: with `open` the life of the client's socket, `sent` the numbers sent and
`received` what `handle_message` got, every step is one of `MessageChannel` or a stutter. The
server, its threads and the way back are inside the channel. It follows from `Flow`, as what is
heard next is the head of `Way` without what was heard, and from `Ears` (the socket ends before
the pipe is cut, and nothing is sent before it begins).

**Only model-checked.** Liveness under fairness (`CloseReturns`, `AllDelivered`,
`EveryClientEvaluated`, `ClosedIsRecycled`, `CloseEnds`, `EveryTaskRuns`, `StopsUnlessDrowsy`,
`EveryWriteAwaited`, `WaitReturns`, `TasksDrain`, `AllReturn`, `MainReturns`), which this prover
cannot express. Every invariant and every step property of a passing run is proved.

## Not modelled

- Permissions and security attributes: the library ignores the permissions, and the code for
  descriptors is commented out.
- Path conversion (`utility.hpp:31-51`): string formatting.
- The facade, the enumerations and the build files: no state.
- Logging and statistics in the samples.
- `overlapped::reset()`: no code calls it. `event::remove()`: it cannot be instantiated, because
  `std::function` cannot be compared.
- The listener lists of an event as lists: every listener in the repository is added once, and the watchers
  only ask whether there is one.
- Abandoned objects in the waits: the system reports them for mutexes, and no waitable is one.
- The measurer of the benchmark, whose statistics are arithmetic on a map of counts.
- More than 31 workers in a pool, for which `1 << idx` has no defined value.
- Several application threads in `server::close()` or `create()` at once.

## Plan

Modelled so far, in this order: `Socket`, `Server`, `ThreadPool`, `Task`, `Waitable` and
`OverlappedQueue`, `Echo`. What is left:

1. `Endpoint`: the composition of `Server` and `Socket` over handles that are recycled, for
   the write into the next client's pipe.
2. The listener lists of `Event` with a call that runs while they change, and callbacks that call back:
   `close()` from `on_close`.
3. Framing at its full width of 32 bits.
4. Proofs: an abstract specification of a socket's life (connected, closing, closed), to be implemented by `Socket`
   and by each socket of `Server`, so that what `Server` assumes of sockets is a theorem; and that a wait
   of `Task` is a wait of `Waitable`.
