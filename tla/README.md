# TLA+ models of tw_server

tw_server is a small C++ network framework: coroutines (`Fiber`), a pool of threads that
runs them (`Scheduler`), an epoll loop with timers that lets them wait (`IOManager`,
`TimerManager`), hooks that turn blocking system calls into such waits (`hook.cc`), and on
top of these a TCP and an HTTP server. This directory holds the TLA+ modules that model it,
the TLC configurations that check them on small instances, and proofs for TLAPS. Every
definition is written from the code under `src/tw`; `PROJECT.json` names its lines.

Run a model with `tlc -config MCScheduler.cfg Scheduler`, the proofs with
`tlapm Scheduler_proofs.tla` and the like.

## 1. The system

### Parts, state and operations

| part | state | operations | what makes it correct |
|---|---|---|---|
| `Fiber` | `m_state`, a stack, a callable | `swapIn`, `swapOut`, `YieldToHold`, `YieldToReady`, `reset` | one thread at a time on a stack; never destroyed or reset while suspended |
| `Scheduler` | `m_tasks`, active and idle counts, `m_stopping`, `m_autostop` | `schedule`, `start`, `stop`, `run` in each worker, `idle`, `stopping`, `tickle` | accepted work is run, once per wake-up; `stop()` comes back, and only when the work is done |
| `TimerManager` | `m_timers` ordered by `m_next`, `m_flag` | `addTimer`, `addConditionTimer`, `Timer::cancel/refresh/reset`, `getNextTime`, `listExpiredCb` | due timers run once, in time; a cancelled one does not run |
| `IOManager` | one `FdContext` per fd, the pending count, the epoll fd, the tickle pipe | `addEvent`, `delEvent`, `cancelEvent`, `cancelAll`, `idle`, `stopping`, `tickle`, the destructor | each waiting fiber has exactly one wake-up, which comes; nothing is left when it is destroyed |
| `hook.cc` | `timer_info` of each call; `FdMgr`'s table | `sleep`, `usleep`, `connect`, `accept`, `read` ... `sendmsg`, `close`, `fcntl`, `setsockopt` | a call returns when the fd is ready, its timeout passes or the fd is closed |
| `FdManager` | a vector of `FdCtx` | `get`, `del` | one context per open fd |
| `Socket`, `SocketStream`, `Stream` | fd, connected flag, cached addresses | wrappers of system calls, `readFixSize`, `writeFixSize` | the whole length, or an error |
| `TcpServer` | listening sockets, `m_isStop` | `bind`, `start`, `stop`, `startAccept` | accepted connections are handled; `stop()` ends the accept loops |
| `HttpSession`, `HttpServer` | a buffer, how far it is filled | `recvRequest`, `sendRespond`, `handleClient` | each request that was sent is served, whole and in order, and its answer goes out |
| request and respond parser | automaton state, `nread`, marks, the message so far | `execute`, the callbacks | the message read is the message written, however the network cuts it up |
| `ByteArray` | a chain of nodes, `m_position`, `m_size`, `m_capacity`, `m_cur` | typed reads and writes, `setPosition`, `getReadBuffers`, `getWriteBuffers`, `clear` | what is read is what was written |
| `Address` | a `sockaddr` | masks, text, comparison, lookup | network, broadcast and text are those of the address |
| `Log`, `Thread`, `util` | none that matters here | | |

### How they work together

A thread calls `schedule()`; a worker in `run()` takes the task and swaps the fiber in. The
fiber calls, say, `recv()`. The hook finds the socket not ready, sets a condition timer,
registers READ with `addEvent()` and yields. The worker, with nothing else to run, swaps in
its idle fiber, which sleeps in `epoll_wait`. When the fd is ready or the timer is due,
`idle()` schedules the fiber again and yields to `run()`. The wake-up of a suspended fiber
so passes from `m_timers` or an `FdContext`, through the local variables of some worker's
`idle()`, to `m_tasks` and to the worker that takes it, each under another lock; meanwhile
other threads may close the fd or stop the manager.

### What is hard

* **Interleaving.** `m_state` is tested under `m_mutex` and changed outside it. A fiber may
  be woken before it has been switched out.
* **Handing over.** Between two locks a wake-up is in nobody's table. `IOManager::stopping()`
  reads three of the tables one after the other.
* **Stopping.** Workers leave one by one, on a condition that may be out of date.
* **Timeouts.** A timer races the event it guards, its own cancellation and `close()`.
* **Reused fd numbers.** `FdContext` outlives the file, and so may an entry of `FdMgr`.
* **Deferred steps.** `TcpServer::stop()` only schedules the closing of its sockets.
* **Failed steps.** An `epoll_ctl` that fails, a read of -1, a head that comes in pieces.
* **Numbers.** `uint64_t` times as `int`, unsigned differences, a wrong remainder.

`PROJECT.json` lists each hazard with its line and the properties that watch it.

## 2. The modules

| module | models | state and actions |
|---|---|---|
| `FiberPool` | what the scheduler promises, without threads | a status per coroutine; submit, run, wake, suspend, finish, close |
| `Scheduler` | `scheduler.{h,cc}`, fiber states | `tasks`, `state`, `active`, `idle`, the flags; `pc`, `ff` per worker are the place in `run()` and its local task, `mpc` the owner's place in start/stop |
| `Scheduler_proofs`, `SchedulerPool_proofs` | theorems about `Scheduler`; the second that it implements `FiberPool` | |
| `IOManager` (extends `Scheduler`) | `iomanager.{h,cc}`, with sleep | `timers`, `events`, `pending`, `cbs` (callbacks a worker has in hand), `pipe`; one action per step of `idle()`, `stopping()`, `tickle()` |
| `MCIOManager` | instance | symmetry of fibers |
| `IOManager_proofs` (extends `Scheduler_proofs`) | theorems about `IOManager` | |
| `TimerManager` | `timer.{h,cc}` and the worker that serves it, with time | `timers`, `next`, `place` (the `m_next` a timer was put into the ordered set with), `ms`, ...; one action per call, `phase` is the place in `idle()` |
| `TimerManager_proofs` | theorems about `TimerManager` | |
| `HookIO` | `do_io`, `connect_with_timeout`, `close`, the `FdContext` of one fd | `pc` per call is the place in the call; `waiter` and `mask` are `fd_ctx->events` and what epoll watches, `link` the state of the connection, `users` who called on the file there is now; timer, close and event handlers as steps |
| `HookIO_proofs` | theorems about `HookIO` | |
| `FdManager` | `FdCtx` and the table of `fd_manager.cc`, `fcntl` and `setsockopt` of `hook.cc` | pure operators on a table and the kernel's flags |
| `TcpServer` (extends `FdManager`) | `tcp_server.cc` over `socket.cc` and a kernel with few file numbers | `control` is the place of the user's thread, `tasks` and `running` the accept worker, `loop` the place of each accept loop; `fds` is the table of `FdMgr` beside the kernel's `file` and `flag` |
| `Address` | `address.cc` | pure operators; a word is the set of its bits |
| `TcpServer_proofs` | theorems about `TcpServer` and the table of `FdManager` | |
| `MCTcpServer` | instance of `TcpServer`; `Address` on sample addresses | |
| `ByteArray` | `bytearray.{h,cc}` | the fields of the class; `mem` the bytes by address, `written` what the client stored |
| `MCByteArray` | instance; the zigzag coding | |
| `ByteArray_proofs` | theorems about `ByteArray` and its codings | |
| `HttpBytes` | bytes, classes of bytes, how a table of edges is run | pure operators |
| `HttpMessage` | `http.{h,cc}` | methods, statuses, the header map, `dump()` |
| `RequestParser` | `http11_parser.rl.cc` and the request half of `http_parser.cc` | the automaton of 350 states, one definition per group of states; `Execute` |
| `RespondParser` | `httpclient_parser.rl.cc` and the other half | the automaton of 124 states; `ClientExecute` |
| `HttpSession` (extends both parsers) | `http_session.cc`, `http_server.cc`, `stream.cc`, `socket_stream.cc` on one connection | `data` (the buffer), `parser`, `body`, `out` and `offset` (the answer), `wire` (what the peer has of it), the peer's `sent` and `ended` |
| `MCHttpSession` | instance: messages and what they stand for | |
| `HttpSession_proofs` | theorems about `HttpSession` | |

A section under a lock is one action, and so is each access to shared state outside one. In
`Scheduler`, `Take` is lines 85-103 of `scheduler.cc` with everything they change, `SwapIn`
starts the fiber, the actions of the fiber's code (`Spawn`, `Arm`, `Yield`, `YieldReady`,
`Finish`) run it, `DecActive` is the decrement behind `swapIn()`, `Retire` what follows.
In `IOManager` the base class's `idle()` and `stopping()` are replaced by the overriding
ones, as in C++, and the other actions of `Scheduler` are reused unchanged.

A fiber is abstracted to what it asks of the scheduler; a callback to the fiber it belongs
to; a byte to a few values. Each suspended fiber has one outstanding wake-up, which is what
every caller in `hook.cc` arranges and what `Scheduler` assumes of its clients.
`IOManager`'s fibers wait through the hooks and so never use `YieldToReady`.

The generated parsers are gotos over 10000 lines. `RequestParser` and `RespondParser` write each
group of states as a set of edges (from, class of bytes, to, actions); the edges were compared
with the generated code on every state and every byte and are the same. Where the grammar
is not what its author meant (repetitions `2( ... )` written as the byte 2, octets from 210 to
249 left out) the edges are those of the code.

`TcpServer` puts the accept loops and the task of `stop()` on one accept worker, where they run
one at a time between waits, and the handlers elsewhere. A number that is closed goes back to
the kernel and out of `FdMgr`'s table; the lowest free number is given out next.

## 3. What TLC checks

| run | instance | shows |
|---|---|---|
| `sched` | `MCScheduler.cfg`: the owner as worker and a pool thread, 3 fibers, 1 suspension each | `NoDoubleRun`, `Drained` and the inductive invariant `IInv`; `ImplementsPool`: every step is one of `FiberPool` or a stutter; `OnlyReadyCallbackLost`; `QueuedRuns`, `StopReturns` |
| `io_one` | `MCIOManager_One`: 1 worker, 2 fibers, 2 suspensions | `NothingAbandoned`, `SleepersResume`, `IOStopReturns` |
| `io_two` | `MCIOManager_Two`: owner and 1 pool thread, 3 fibers, timers set by the owner, hang-ups | each wake-up has one holder (`InOnePlace`, `OneWaker`) and the pending count is exact; what `stop()` leaves behind is at most timers and what waits for a timer or an fd (`OnlyWaitersLeft`) |
| `timers` | `MCTimerManager`: 2 timers, lengths 1 and 4, `MAX_TIMEOUT` 2, an `int` of 4 bits | `m_timers` stays in order, so that callbacks are where `cancel()` looks for them, run once, in time; the arithmetic does not wrap |
| `hook_one` | `MCHookIO_One`: a reader, a writer and a connect, two of them with timeouts, 1 worker, close and one reuse | timed calls return; `close()` ends a reader's wait; a registered call is watched by epoll |
| `hook_two` | `MCHookIO_Two`: the same with 2 workers | no wake-up is lost or given twice under races; a `connect()` that reports success is connected, except where `ConnectTells` names the case |
| `bytes` | `MCByteArray`: nodes of 3 bytes, up to 2 nodes, messages of 1 to 3 bytes | the cursor follows the position; what is read is what was written, and so is exactly which part of what is shown or put in a file; when the process fails |
| `server` | `MCTcpServer`: 2 addresses, 2 clients, file numbers 1 to 3, two calls of `bind()` of which one may fail | every open file has one owner and an entry in `FdMgr` that keeps it non-blocking; `bind()` is all or nothing; `stop()` ends the loops; clients are handled |
| `http` | `MCHttpSession`: five pairs of messages, heads in one piece and bodies in any, one failed read or write | requests are served as sent and whole; the project's own client parser understands the answer; each request is answered or the connection closed |

Besides, TLC evaluates the assumptions of `MCTcpServer` (networks, broadcast addresses, masks
and texts of addresses against what they stand for), of `MCByteArray` (zigzag) and of
`MCHttpSession` with these runs. `MessagesUnderstood`, the last of them, runs the parser over every
listed message with its head in one piece and any part of the body behind it: it ends at the end of
the head with the request that the message stands for, or refuses it. The theorems about
`HttpSession` start from there.

### Disagreements with the code's own assertions

Two runs end in a violation, each of one assertion of the repository:

* `hook_reuse` (`iomanager.cc:97`): `cancelAll()` skips the writer when nobody reads; the
  next file with the fd number finds the event taken. (Two callers that write one socket at
  once would fail the assertion too; `Enter` excludes them.)
* `http_split` (`http11_parser.rl.cc:6633`): `nread` adds up over the reads of one request
  while the length it is compared with is that of the last; a head in two pieces aborts.

### Where a property holds only in part

These were met while modelling. No line of the repository promises the contrary, so they are
recorded here and as hazards.

* `TimedCallsReturn` and `ClosedReadersReturn` hold with one worker. With two, the timer may
  fire between `addTimer` and `addEvent` (`hook.cc:102`), and a woken reader may register
  again before `close()` is through; the call then waits for ever. TLC shows both when the
  properties are asked of the instance of `hook_two`.
* With two workers `~IOManager()` can return while a fiber still waits. Each worker leaves on a
  `stopping()` (`iomanager.cc:284`) whose first reads are out of date: one reads no pending event,
  the other runs the fiber into `addEvent()` and leaves without looking again, the first finds the
  list empty and leaves too. The fiber is never resumed, and it is leaked rather than destroyed,
  since its own stack holds references to it (`fiber.cc:115`, `:176`), so no assertion fails.
  `OnlyWaitersLeft` says that nothing worse is left: no queued task, no expired callback, no fiber
  that could go on. With one worker nobody is left (`NothingAbandoned`, `OneWorkerLeavesNoFiber`).
* In `io_one` the owner sets no timers: an `addTimer` from another thread, after the last
  worker's look at `m_timers` and before it leaves, is never served.
* `idle()` takes the waiters of an fd with EPOLLERR or EPOLLHUP out with `delEvent()`
  (`iomanager.cc:254`), which resets the suspended fiber and so fails the assertion of
  `fiber.cc:99`; `HangUpAborts` proves that it always does. A refused `connect()` is the common case. `HangUp` is that step; it
  happens in `io_two`, and nothing follows it.
* `connect()` may return 0 for a connection that is not there, after `close()` has woken it or
  another file has got its number: it looks at the timer's mark and at `SO_ERROR` only.
  `ConnectTells` says that there is no other case. When `addEvent()` fails for a `connect()`
  without a timeout, `timer->cancel()` goes through a null pointer (`hook.cc:212`).
* `setsockopt()` records `SO_RCVTIMEO` and `SO_SNDTIMEO` only when hooks are *not* enabled
  (`hook.cc:415`). The timeout that the accept loop sets for a client so never reaches its
  `FdCtx`, and a handler waits for a silent client for ever.
* `fcntl()` gives -1 for `F_DUPFD`, `F_GETFD` and others whose call has succeeded
  (`hook.cc:354`); `sleep()` multiplies in 32 bits (`hook.cc:138`); the clock is that of the
  wall (`util.cc:36`); `delEvent()` that fails in `epoll_ctl` leaves the pending count one too
  high (`iomanager.cc:141`); a second `stop()` joins threads that are gone (`scheduler.cc:39`).
* An accept loop that gets EMFILE goes round without a wait (`tcp_server.cc:91`). With handlers
  on another worker it recovers (`ClientsHandled`); on the same single thread they never run.
  With two accept threads `stop()` may leave a loop waiting, as `ClosedReadersReturn` says.
* `HttpRespond` says "connection: close" to everybody, since nothing sets `isClose`, while
  the server with keepalive goes on reading. Bytes behind a body in the parser's buffer, a
  pipelined request, are dropped with it. A content-length that `lexical_cast` does not take,
  "10 " for instance, counts as 0. `GETTER` is taken for `GET`.
* `readFixSize()` and `writeFixSize()` keep -1 in a `size_t` (`stream.cc:7`, `:31`): a failed
  read or write counts as -1 byte. Before the first byte, that is a place outside the string.
* `readInt32()` calls itself (`bytearray.cc:195`). `writeInt32()` and `writeInt64()` decode
  where they should encode, so that only 0 is read as it was written (`OnlyZeroSurvives`),
  against `bytearray.h:34`.
* `writeToFile()` is right from the start of a node, or with nothing or at least a node to write
  (`FileHolds`); in every other case it leaves bytes out or runs off the chain
  (`bytearray.cc:280`).
* `Address::operator<` is false for any two addresses of one length (`address.cc:174`), so that
  a set of addresses holds one. `CreateMask()` for a prefix of 0 shifts an `int` by 32, and
  IPv6 masks of a prefix of 128 touch the byte behind the address.
* `tickle()` blocks when the pipe is full. `PipeCapacity` 20 is never reached in the runs;
  with a capacity of 1 TLC finds all threads blocked in `write()`.
* `tickle()` is skipped when there *are* idle threads, so new work waits for up to
  `MAX_TIMEOUT`; `ServedInTime` is stated with that slack.
* A write to a `ByteArray` that exceeds the room left by no more than that room, modulo the
  node size, walks off the chain (`bytearray.cc:544`), and so does such a `getWriteBuffers`;
  `FailsOnlyWhenShort` says that this and an empty read at the end of the chain are the only
  cases. With nodes of one byte, as in `test_bytearray.cc`, it cannot happen. `toString()`
  is right only up to the end of the first node: from there on it shows that node again
  (`ToStringRepeatsNode`, `bytearray.cc:507`).
* A callback that yields READY is dropped by `run()` (`scheduler.cc:131`); nothing in the
  repository calls `YieldToReady`.

### Bounds, and why they are enough

* Threads: two executors suffice for every race between a worker that takes, runs or leaves
  and one that schedules, since each action touches one fiber and at most one other worker.
  The safety theorems of section 5 hold for any finite number.
* Fibers: two give a waker and a sleeper; the third is there to keep a second worker busy
  at the same time. `MaxYields` 1 gives a suspension and a resumption of each; `io_one` has
  2, so that a fiber waits again after it was woken. The instance of `io_two` has the two workers
  and the waiting fiber that a stale `stopping()` needs: its states include ones where `stop()` has
  returned and a fiber waits.
* `HookIO`: one fd, because calls on different fds share nothing but the workers; 2 files
  behind the number for one reuse; three calls, so that a connect meets a reader and a writer;
  `MaxPeer` 1 readiness event beside the connection's own, so that a call can be woken, find
  nothing, and be woken by its timer or by `close()`. A file has one caller per direction at a
  time, as every socket of `TcpServer` and `HttpServer` has.
* `TcpServer`: three numbers are fewer than two listening sockets and two clients need, so
  that `accept()` fails and numbers are given out again. `FdMgr` starts with room for
  2 entries (`InitialSize`), so that it grows. One failing `bind()` in two calls covers a failure
  before and after other sockets.
* `HttpSession`: two messages, for what the first leaves behind for the second; a buffer of 90
  bytes, longer than each message and shorter than two; sends that take 7 bytes or all.
* `TimerManager`: lengths below and above `MAX_TIMEOUT` (1 and 4 against 2), the clock runs
  to 5, past two rounds of the short timer. Lengths stay below 2^31 ms: from there on the
  comparison in `idle()` (`iomanager.cc:229`) sees a negative number and the worker
  may sleep without end.
* `ByteArray`: nodes of 3 bytes have remainders 1 and 2, which the comparison in
  `addCapacity` treats differently. Varint groups have 1 bit and values 3, so the loops run
  up to 3 times where the code's run up to 5.

### Fairness

* `Scheduler`: weak fairness of each worker's steps in `run()` and of the owner's once
  `stop()` has begun: the operating system runs runnable threads. Nobody has to call
  `start()`, `stop()` or `schedule()`. Coroutines give their thread back in the end.
* `IOManager`: in addition strong fairness for a timer that is set to be found due, and for
  an fd event to be triggered. `epoll_wait` returns again and again because its timeout is
  never above `MAX_TIMEOUT`, but a worker is only now and then at the place where it looks.
* `HookIO`: weak fairness of a call's steps, of the handler of a reported event and of a
  `close()` under way; strong fairness of resuming a scheduled fiber and of a timer, which
  compete for workers. The peer owes nothing: timed calls return without it.
* `TcpServer`: weak fairness of the accept worker, of the user's thread inside `stop()`, and of
  each handler's beginning and end. That handlers end is an assumption about clients, which go
  away some day; without it a server that is out of file numbers stays so. Nobody has to call
  `bind()`, `start()` or `stop()`, and no client has to connect.
* `HttpSession`: weak fairness of the fiber while its socket is ready. The peer need not send.

## 4. Abstractions

* `m_state` is an `int` without atomic access; where two threads touch it, `m_mutex` lies
  in between, so its accesses are sequentially ordered.
* `stop()` is called once. No other thread schedules after it has begun, except fibers.
* EXECEPT is treated by the scheduler as TERM is, and stands for it.
* Failing system calls are modelled where they matter to the protocol: `epoll_ctl` and the
  call itself in `HookIO`. Elsewhere they succeed.
* The clock of `TimerManager` does not go back, and callbacks take no time.
* `ByteArray` loops are described by the addresses they touch. A read of no byte at the end
  of the chain loads through a null pointer; the value is not used, so it may or may not
  stop the process.
* A byte of a request is a character; control bytes that no edge tells apart are one. A size
  is an unbounded number: no message comes near 2^31.
* `HttpSession`'s peer sends what `MCHttpSession` lists, one message for each route through
  the automaton, two of them bad. `uri_relaxed`, which nothing sets, has either value.
* `TcpServer` is bound before it is started and left alone after `stop()`: the task of `stop()`
  works on `m_socks` without a lock, and a `start()` before it has run would race with it.
* `FdManager::get()` is one step: two threads never ask for one number at a time, since only
  its opener has it.

### Not modelled

`PROJECT.json` has the reasons under `components`. In short: `log.cc` and `util.cc` have no state
that another part depends on; `thread.cc` wraps pthreads and is modelled by what its locks and
semaphore mean; context switches of `fiber.cc` and stacks are below the level of the models;
lookups of names and interfaces belong to the resolver. Parts of a modelled component that are
left out: the overloads of `Stream` for a `ByteArray` (no caller), cookies and parameters of
`http.cc` (nothing fills them), the string calls of `ByteArray` (a length and a write), the
cached addresses of `Socket`.

## 5. What is proved

Every safety invariant and action property that a passing run checks is also a theorem, for all
values of the constants that satisfy the `ASSUME`s of the component's module and the hypotheses
named below. TLC has found no state of the runs' instances that breaks an inductive invariant;
`IInv` of `Scheduler` stays in `sched` as an invariant.

### `Scheduler_proofs`, `SchedulerPool_proofs`

For every finite set of workers that is not empty, any fibers, any bound on suspensions, with or
without the caller as worker:

| theorem | says |
|---|---|
| `TypeCorrect`, `Invariance` | the types; the inductive invariant `IInv` |
| `NeverRunTwice` | `NoDoubleRun`: no fiber is inside two workers |
| `StopDrains` | `Drained`: after `stop()` nothing is queued, fresh or running |
| `CountersAreExact` | `CountersExact`: the two atomic counters, which `run()` changes on three paths away from the lock, count the workers between the changes |
| `WakeUpsKept` | `IInv`, and a fiber that has swapped out to wait has its wake-up |
| `LostOnlyWhenReady` | `OnlyReadyCallbackLost`: the READY of a callable's fiber is the only way to lose one |
| `SchedulerIsPool` | `ImplementsPool`: each step is a step of `FiberPool` or a stutter |

`NoDoubleRun` and `Drained` are not inductive. `IInv` adds what the code relies on without
saying so:

* `HeldState`, `QueuedState`: what a worker holds, and what is in the list, has a state that
  fits, so that a task taken is one that can be swapped in;
* `OneWakeUp`: a fiber's wake-up is with an outside party, once in the list, or with
  one worker that has taken it. This is what stands between a fiber that is woken while
  still being switched out and a second worker;
* `OneInside`: no two workers are inside one fiber, and a READY one is not queued yet;
* `Accounted`: a fiber that has to go on is in the list or with a worker, which is why the
  moment between `--a_activeThreadCount` and the re-scheduling loses nothing: the worker
  is still in its loop;
* `OwnerState`: what the owner's progress implies for the workers and flags;
* `WorkHasWorker`: once a worker has given up, or the owner is joining, a list that is not
  empty has a worker that will look at it again. `Drained` follows from this, `Accounted`
  and `OwnerState`.

The simulation of `FiberPool` needs one thing more, `AsleepIsWoken`: `YieldToHold()` is called
with a wake-up underway that is not used up before `run()` is through with the fiber.

### `IOManager_proofs`

For any workers, fibers, timers and capacity of the tickle pipe:

| theorem | says |
|---|---|
| `IOTypeCorrect`, `IOInvariance` | the types; the inductive invariant |
| `CallablesInOnePlace` | `InOnePlace`: a timer's callable is in `m_timers`, in one worker's batch, in the list or with a worker, and in one of them only |
| `OneWakerEach` | `OneWaker`: a sleeper is waited for by one timer or one event |
| `PendingCountExact` | `PendingExact` |
| `NoFiberLost` | no fiber is suspended without a party that will schedule it, unless a hang-up has ended the process |
| `IONeverRunTwice` | `NoDoubleRun` with `idle()` and `stopping()` overridden |
| `HangUpAborts` | `delEvent()` on EPOLLERR or EPOLLHUP always fails the assertion of `reset()` |
| `OnlyWaitersAreLeft` | `OnlyWaitersLeft`: `stop()` leaves no task, no batch and no fiber that could go on |
| `OneWorkerLeavesNoFiber` | after `stop()` with one worker no event is registered and no fiber unfinished, but callbacks of the owner's timers |
| `OneWorkerAbandonsNothing` | `NothingAbandoned`, for one worker and an owner that sets no timers |

The last three say what `stopping()`, which reads timers, events and list one after the other, is
good for. With any number of workers the list has somebody who will look at it as long as it is
not empty (`ListHasWorker`); with one worker the events and timers are safe too. An owner's timer
may still be left behind, set between two reads of `stopping()`, but no fiber waits for it;
`io_one` has the hypotheses of the last theorem.
The invariant has three parts. `CoreInv` says who has a wake-up: `ArmedByOne` (an armed fiber
has one waker, and nobody else has any), `SleeperCallables` (a timer's callable runs once and to
its end), `CallablesApart` and `CallablesKept` (it is in exactly one place until it runs); without
the last the wake-up could vanish between `listExpiredCb()` and `schedule()`. `CountInv` is about
the counters, `NothingLost` about fibers that have to go on. `LastLook` is for one worker:
what `stopping()` has found under one lock is still so when it looks under the next, up to
timers of the owner's (`NoSleeper`).

### `TimerManager_proofs`

For any timers, lengths, `MAX_TIMEOUT` and width of an `int`: `TypeCorrect`, `Invariance`,
`CancelFindsTimer` (`CallbackIsQueued`: `m_timers` is in the order of `m_next`, and what can be
cancelled is in it), `OneShotRunsOnce` (`OneShotOnce`), `StartNeverWraps`
(`StartIsPast`), `TimersServedInTime` (`ServedInTime`), and the action properties `CollectIsExact`
(`CollectsDue`) and `RefreshOnlyPostpones` (`RefreshPostpones`). `ServedInTime` needs
`SleepBounded`, that a sleeping worker wakes within `MAX_TIMEOUT` of every deadline, also of one
that `tickle()` has not announced, and `BatchWhileRunning`. That lengths stay below 2^31 is
`IntHalfAssumption`: the comparison of `iomanager.cc:229` is right up to there.

### `HookIO_proofs`

For any calls, with timeouts or connecting, any number of workers and of files behind the number:
`TypeCorrect`, `Invariance`, `WaitsExactlyOnce` (`WaitsOnce`), `EpollWatches` (`WatchedByEpoll`) and
`ConnectTellsTruth` (`ConnectTells`). For the last the invariant follows a connection from the
first attempt on: `OneAsks` (one `connect()` gets to ask for it), `WokenKnowsWhy` (one that is
woken before the connection is there was woken by its own timer, or somebody is in `close()`),
`UpWhenReady` and `UpWhenUsed`; `TimersOfCalls` says whose a timer is.

What is left of `NoSecondWaiter`, which `hook_reuse` violates, is proved with a second invariant,
`AInv`: `SoleWaiterOnFirstFile`, the assertion of `iomanager.cc:97` holds on the file the fd number was
opened for, until it is closed; and `OnlyLeftBehindAborts`, later it fails only when a call outlived
its file (`LeftBehind`), the one other way to die there being a `connect()` without a timeout whose
file was closed (`NoTimerToCancel`, `hook.cc:212`). Its core is `OnePerDirection`: callers of one
direction follow one another. `CallsGoOn` is the lemma on what a step may do to a call.

### `TcpServer_proofs`

For any addresses, clients, file numbers and calls: `TypeCorrect`, `Invariance`, `FilesHaveOneOwner`
(`EveryFileOwned`), `FilesNeverBlock` (`NonBlockingUnderneath`) and `BindKeepsItsWord`
(`BindAllOrNothing`). `TableInv` says exactly what `FdMgr`'s table holds, entry by entry, `OwnerInv`
that sockets, clients and numbers agree on who has what, `BindInv` how far `bind()` has come.
Lemmas on `Create`, `Find` and `Del` stand before them. A client is no listening socket
(`NamesAssumption`).

### `ByteArray_proofs`

For nodes of any size, any capacity and any width of the varints: `TypeCorrect`, `Invariance`,
`CursorStaysWithPosition` (`CursorFollows`), `ReadsWhatWasWritten` (`ReadsBack`),
`StopsOnlyWhenShort` (`FailsOnlyWhenShort`), `ToStringShows` (`ToStringRepeatsNode`),
`FileHoldsReadable` (`FileHolds`) and `VarintsReadBack` (`VarintRoundTrip`). The invariant,
`ChainInv`, says that position, cursor, capacity and chain name the same place as long as the process
runs. `FileHolds` has a loop inside one call, with two invariants of its rounds: `RoundInv` where the
file comes out whole, `ShortInv` where it does not.

Of the codings: `VarintsDecode` (`readUint32()` inverts `wirteUint32()`, for every width that the
rounds of its loop are enough for, `RoundsAssumption`), `ZigzagDecodes` (for every even number of
values, the smallest integer included) and `IntsAreNotReadBack` (`writeInt32()` and
`writeInt64()` give back no number but 0, for 2^32, 2^64 and every other width with the two
divisibilities named there).

### `HttpSession_proofs`

`SessionInStep`, `ServesWhole` (`ServedWhole`), `ServesAsSent` (`ServedAsSent`) and `AnswersUnderstood`
(`AnswerUnderstood`), for any scripts, any buffer, and any pieces in which bodies arrive and answers
leave, under `Orderly`:

* heads arrive whole and the peer waits for its answer (`Whole`, `Waits`): otherwise the
  assertion of `http_split` or a dropped pipelined request comes in between;
* the buffer holds each head, and the parsers understand each message or refuse it
  (`Understood`). What an automaton of 350 states makes of a message is
  computed, not proved; TLC computes it for the listed messages (`MessagesUnderstood`).

The theorems then say that reading, waiting, failed reads and writing add nothing and lose
nothing. The invariant ties `taken`, `served` and `answered` to places in one stream, and the
body and the answer to how far their counters are: `BodyInv` with what is still wanted, exactly
without a failed read and at least with one, `RespondInv` with what has gone out. That the
peer is never ahead of the message being answered (`PeerKeepsOrder`) is what keeps the next
request out of the buffer that is thrown away.

### How recursion is dealt with

The provers cannot instantiate an induction theorem. Where a recursive function has to be
unfolded (varints, rounds of `writeToFile()`, the joining of messages to a stream) its existence and
its equation are proved by a smallest counterexample: a set of numbers has a lowest one
(`NatLessThanWellFounded`), and a function on the numbers below it extends by one value.

### Only model-checked

* Liveness, which rests on fairness: `QueuedRuns`, `StopReturns`, `SleepersResume`, `IOStopReturns`,
  `TimedCallsReturn`, `ClosedReadersReturn`, `StopEndsLoops`, `ClientsHandled`, `AnswerComes`.
* What the two parsers compute, on the listed messages; the edges of their tables.
* `Address`, on sample addresses, and `OnlyZeroSurvives` on a small width beside its theorem.
* The two violations, which are counterexamples.

## 6. Plan

The modules come in the order of what depends on them: `Scheduler` with `FiberPool`, then
`IOManager` composed with it, `TimerManager`, `HookIO` with `connect`, `FdManager` with
`TcpServer` over it, the parsers with `HttpSession` over them, and the data parts. All exist, and
so do the proofs of their safety properties. What is left:

1. The condition under which the second violated assertion holds, as for `hook_reuse`: `NreadWithinLength` for whole heads, a lemma on `Execute` of a new parser.
2. `Address`: networks and broadcast addresses for every address and prefix.
3. `IOManager` as an implementation of `FiberPool`, as `Scheduler` is.
4. Action properties of `HookIO` and `TcpServer`: a call returns once; a closed number changes
   hands only through `FdMgr`.
