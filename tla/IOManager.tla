------------------------------ MODULE IOManager ------------------------------
(***************************************************************************)
(* The IO manager of src/tw/iomanager.{h,cc} on top of Scheduler: what it  *)
(* overrides - idle(), stopping(), tickle() - and what it adds, timers and *)
(* fd events that hold the wake-up of a suspended coroutine.               *)
(*                                                                         *)
(* A worker with nothing to run sits in idle(): it evaluates stopping() in *)
(* three separate reads, sleeps in epoll_wait, and on return schedules     *)
(* what the timers and the reported events release.  A timer is named by   *)
(* the callable it will schedule, which is a coroutine like any other; for *)
(* sleep() it is the callable whose whole code is schedule(fiber).  An fd  *)
(* event is named by the fiber that waits for it.  Time is abstracted: at  *)
(* any moment any timer may be due, and epoll_wait may return (its timeout *)
(* is never above MAX_TIMEOUT; Timer lengths from 2^31 ms on are left out).*)
(***************************************************************************)
EXTENDS Scheduler

CONSTANTS OwnerTimers,    \* callables the owning thread may set a timer for
          HangUps,        \* fibers whose fd may report EPOLLERR or EPOLLHUP
          PipeCapacity,   \* bytes the tickle pipe holds
          NoFiber         \* wakes[g] of a callable that is ordinary application code

ASSUME OwnerTimersAssumption == OwnerTimers \subseteq Fibers
ASSUME HangUpsAssumption == HangUps \subseteq Fibers
ASSUME PipeCapacityAssumption == PipeCapacity \in Nat \ {0}
ASSUME NoFiberAssumption == NoFiber \notin Fibers

VARIABLES timers,    \* m_timers: the callables of the timers that are set
          frontFlag, \* m_flag: a new front timer has been announced already
          wakes,     \* wakes[g]: the sleeping fiber callable g will schedule
          events,    \* fibers registered as the waiter of some fd event
          pending,   \* a_pendingEventCount
          cbs,       \* callables each worker took out of m_timers and still holds
          owe,       \* how far each thread is in a tickle() it has to make
          pipe,      \* bytes in the tickle pipe
          edge,      \* the pipe has an event no epoll_wait has reported yet
          drain      \* workers that were told to read the pipe

timerVars == <<timers, frontFlag, wakes, cbs>>
eventVars == <<events, pending>>
pipeVars  == <<pipe, edge, drain>>
ioVars == <<timers, frontFlag, wakes, events, pending, cbs, owe, pipe, edge, drain>>
iovars == <<vars, ioVars>>

\* The thread that owns the IO manager, whether or not it is a worker.
Threads == Workers \cup {Caller}

IOPoint == Point \cup {"chk2", "chk3", "poll", "fire", "cbs", "ev", "dec"}

\* "aborted": an assertion has failed and the process is gone.
IOPhase == Phase \cup {"stopchk2", "stopchk3", "aborted"}

IOTypeOK ==
  /\ tasks \in Seq(Task)
  /\ state \in [Fibers -> FiberState]
  /\ armed \subseteq Fibers /\ timers \subseteq Fibers /\ events \subseteq armed
  /\ fuel \in [Fibers -> 0..MaxYields]
  /\ active \in 0..Cardinality(Workers) /\ idle \in 0..Cardinality(Workers)
  /\ pc \in [Workers -> IOPoint]
  /\ mpc \in IOPhase
  /\ wakes \in [Fibers -> Fibers \cup {NoFiber}]
  /\ cbs \in [Workers -> SUBSET Fibers]
  /\ owe \in [Threads -> {"no", "check", "write"}]
  /\ pipe \in 0..PipeCapacity
  /\ drain \subseteq Workers

\* The constructor has called start(): the pool threads are in run().
IOInit ==
  /\ tasks = <<>>
  /\ state = [f \in Fibers |-> "NONE"]
  /\ armed = {}
  /\ fuel = [f \in Fibers |-> MaxYields]
  /\ active = 0 /\ idle = 0
  /\ autostop = FALSE /\ stopping = FALSE
  /\ pc = [w \in Workers |-> IF w = Caller THEN "off" ELSE "loop"]
  /\ ff = [w \in Workers |-> NoTask]
  /\ quit = {}
  /\ mpc = "open"
  /\ timers = {} /\ frontFlag = FALSE /\ wakes = [f \in Fibers |-> NoFiber]
  /\ events = {} /\ pending = 0
  /\ cbs = [w \in Workers |-> {}]
  /\ owe = [t \in Threads |-> "no"]
  /\ pipe = 0 /\ edge = FALSE /\ drain = {}

------------------------------------------------------------------------------
(* tickle()                                                                 *)

\* A schedule() call of thread t on an empty list has to tickle afterwards.
ThenTickle(t) == owe' = [owe EXCEPT ![t] = IF tasks = <<>> THEN "check" ELSE "no"]

\* tickle() does nothing while some thread is in its idle fiber.
TickleCheck(t) ==
  /\ owe[t] = "check"
  /\ owe' = [owe EXCEPT ![t] = IF idle > 0 THEN "no" ELSE "write"]
  /\ UNCHANGED <<vars, timerVars, eventVars, pipeVars>>

\* Otherwise it writes a byte to the pipe, and the write blocks on a full one.
TickleWrite(t) ==
  /\ owe[t] = "write"
  /\ pipe < PipeCapacity
  /\ owe' = [owe EXCEPT ![t] = "no"]
  /\ pipe' = pipe + 1
  /\ edge' = TRUE
  /\ UNCHANGED <<vars, timerVars, eventVars, drain>>

------------------------------------------------------------------------------
(* The owning thread                                                        *)

OwnerSchedule(f) ==
  /\ owe[Caller] = "no"
  /\ MainSchedule(f)
  /\ ThenTickle(Caller)
  /\ UNCHANGED <<timerVars, eventVars, pipeVars>>

\* addTimer(): a timer for callable g; the new front of m_timers is announced
\* by a tickle unless one has been since the last getNextTime().
AddTimer(t, g, f) ==
  /\ state[g] = "NONE"
  /\ timers' = timers \cup {g}
  /\ wakes' = [wakes EXCEPT ![g] = f]
  /\ \/ /\ ~frontFlag
        /\ frontFlag' = TRUE
        /\ owe' = [owe EXCEPT ![t] = "check"]
     \/ /\ frontFlag \/ timers # {}
        /\ UNCHANGED <<frontFlag, owe>>

OwnerAddTimer(g) ==
  /\ mpc = "open"
  /\ g \in OwnerTimers
  /\ owe[Caller] = "no"
  /\ AddTimer(Caller, g, NoFiber)
  /\ SetState(g, "FUNC")
  /\ UNCHANGED <<tasks, armed, fuel, countVars, flagVars, workVars, mpc, eventVars, cbs, pipeVars>>

OwnerStop ==
  /\ owe[Caller] = "no"
  /\ StopBegin \/ StopFlag \/ CallReturns \/ Join
  /\ UNCHANGED ioVars

\* The owner of a use_caller IO manager evaluates stopping() in stop(), as
\* three reads: the timers, the pending events, the scheduler's own state.
OwnerChecks ==
  /\ Caller \in Workers
  /\ LET GoCall == mpc' = "call" /\ Goto(Caller, "loop")
         GoOn(m) == mpc' = m /\ UNCHANGED pc
     IN \/ /\ mpc = "stop2" /\ frontFlag' = FALSE
           /\ IF timers # {} THEN GoCall ELSE GoOn("stopchk2")
        \/ /\ mpc = "stopchk2" /\ UNCHANGED frontFlag
           /\ IF pending # 0 THEN GoCall ELSE GoOn("stopchk3")
        \/ /\ mpc = "stopchk3" /\ UNCHANGED frontFlag
           /\ IF ~Stopping THEN GoCall ELSE GoOn("join")
  /\ UNCHANGED <<tasks, fiberVars, countVars, flagVars, ff, quit, timers, wakes, cbs, eventVars, owe, pipeVars>>

OwnerSkips ==
  /\ Caller \notin Workers
  /\ StopNoCall
  /\ UNCHANGED ioVars

------------------------------------------------------------------------------
(* run() is Scheduler's                                                     *)

Runs(w) ==
  /\ owe[w] = "no"
  /\ RunStep(w) \/ Exit(w) \/ IdleIn(w) \/ IdleOut(w)
  /\ UNCHANGED ioVars

------------------------------------------------------------------------------
(* idle()                                                                   *)

IdleAt(w, p, q) == pc[w] = p /\ Goto(w, q) /\ UNCHANGED <<fuel, countVars, flagVars, ff, mpc, owe>>

\* Mutant of CheckTimers: stopping() does not ask for the next timer.
CheckTimersNot(w) ==
  /\ IdleAt(w, "idle", "chk2")
  /\ frontFlag' = FALSE
  /\ UNCHANGED <<tasks, state, armed, quit, timers, wakes, cbs, eventVars, pipeVars>>

\* getNextTime() clears m_flag and tells whether there is a timer at all.
CheckTimers(w) ==
  /\ IdleAt(w, "idle", IF timers = {} THEN "chk2" ELSE "poll")
  /\ frontFlag' = FALSE
  /\ UNCHANGED <<tasks, state, armed, quit, timers, wakes, cbs, eventVars, pipeVars>>

CheckPending(w) ==
  /\ IdleAt(w, "chk2", IF pending = 0 THEN "chk3" ELSE "poll")
  /\ UNCHANGED <<tasks, state, armed, quit, timerVars, eventVars, pipeVars>>

\* All three found nothing: the idle fiber ends for good.
CheckScheduler(w) ==
  /\ IdleAt(w, "chk3", IF Stopping THEN "idleret" ELSE "poll")
  /\ quit' = IF Stopping THEN quit \cup {w} ELSE quit
  /\ UNCHANGED <<tasks, state, armed, timerVars, eventVars, pipeVars>>

\* epoll_wait returns; the pipe is edge-triggered and reported to one waiter.
Poll(w) ==
  /\ IdleAt(w, "poll", "fire")
  /\ drain' = IF edge THEN drain \cup {w} ELSE drain
  /\ edge' = FALSE
  /\ UNCHANGED <<tasks, state, armed, quit, timerVars, eventVars, pipe>>

\* Mutant of Expire: the due timers are not erased from m_timers.
ExpireCopies(w) ==
  /\ IdleAt(w, "fire", "cbs")
  /\ \E due \in SUBSET timers : cbs' = [cbs EXCEPT ![w] = due]
  /\ UNCHANGED <<tasks, state, armed, quit, timers, frontFlag, wakes, eventVars, pipeVars>>

\* listExpiredCb(): the due timers leave m_timers before they reach the list.
Expire(w) ==
  /\ IdleAt(w, "fire", "cbs")
  /\ \E due \in SUBSET timers :
       /\ timers' = timers \ due
       /\ cbs' = [cbs EXCEPT ![w] = due]
  /\ UNCHANGED <<tasks, state, armed, quit, frontFlag, wakes, eventVars, pipeVars>>

\* Mutant of ScheduleCbs: one callable of the batch is not scheduled.
ScheduleCbsButOne(w) ==
  /\ IdleAt(w, "cbs", "ev")
  /\ \E order \in SetToSeqs(cbs[w]) :
       tasks' = tasks \o [i \in 1..(Len(order) - 1) |-> CbTask(order[i])]
  /\ cbs' = [cbs EXCEPT ![w] = {}]
  /\ UNCHANGED <<state, armed, quit, timers, frontFlag, wakes, eventVars, pipeVars>>

\* schedule(cbs.begin(), cbs.end()).  This worker is in its idle fiber, so
\* the tickle that may follow sees an idle thread and does nothing.
ScheduleCbs(w) ==
  /\ IdleAt(w, "cbs", "ev")
  /\ \E order \in SetToSeqs(cbs[w]) :
       tasks' = tasks \o [i \in DOMAIN order |-> CbTask(order[i])]
  /\ cbs' = [cbs EXCEPT ![w] = {}]
  /\ UNCHANGED <<state, armed, quit, timers, frontFlag, wakes, eventVars, pipeVars>>

\* Mutant of Trigger: triggerEvent() leaves the event registered.
TriggerKeeps(w, f) ==
  /\ IdleAt(w, "ev", "dec")
  /\ f \in events
  /\ Schedule(FiberTask(f))
  /\ armed' = armed \ {f}
  /\ UNCHANGED <<state, quit, timerVars, eventVars, pipeVars>>

\* cancelEvent() of a reported event: triggerEvent() schedules the waiter,
\* and the pending count goes down after that.
Trigger(w, f) ==
  /\ IdleAt(w, "ev", "dec")
  /\ f \in events
  /\ events' = events \ {f}
  /\ Schedule(FiberTask(f))
  /\ armed' = armed \ {f}
  /\ UNCHANGED <<state, quit, timerVars, pending, pipeVars>>

\* Mutant of DecPending: the pending count never goes down.
DecPendingNever(w) ==
  /\ IdleAt(w, "dec", "ev")
  /\ UNCHANGED <<tasks, state, armed, quit, timerVars, eventVars, pipeVars>>

DecPending(w) ==
  /\ IdleAt(w, "dec", "ev")
  /\ pending' = pending - 1
  /\ UNCHANGED <<tasks, state, armed, quit, timerVars, events, pipeVars>>

\* delEvent() of an fd in error: the waiter is not scheduled but reset(), and
\* reset() asserts that a fiber has ended or never run.
HangUp(w, f) ==
  /\ pc[w] = "ev"
  /\ f \in events \cap HangUps
  /\ events' = events \ {f}
  /\ pending' = pending - 1
  /\ armed' = armed \ {f}
  /\ IF state[f] \in {"INIT", "TERM"}
     THEN SetState(f, "INIT") /\ UNCHANGED mpc
     ELSE mpc' = "aborted" /\ UNCHANGED state
  /\ UNCHANGED <<tasks, fuel, countVars, flagVars, workVars, timerVars, owe, pipeVars>>

\* The reported events are dealt with, the pipe among them; the idle fiber
\* gives the worker back to run().
EventsDone(w) ==
  /\ IdleAt(w, "ev", "idleret")
  /\ pipe' = IF w \in drain THEN 0 ELSE pipe
  /\ drain' = drain \ {w}
  /\ UNCHANGED <<tasks, state, armed, quit, timerVars, eventVars, edge>>

Idles(w) ==
  \/ CheckTimers(w) \/ CheckPending(w) \/ CheckScheduler(w) \/ Poll(w)
  \/ Expire(w) \/ ScheduleCbs(w) \/ DecPending(w) \/ EventsDone(w)
  \/ \E f \in Fibers : Trigger(w, f) \/ HangUp(w, f)

------------------------------------------------------------------------------
(* The code of the fiber a worker executes                                  *)

InApplication(w) == pc[w] = "exec" /\ owe[w] = "no" /\ wakes[ff[w].fiber] = NoFiber

\* Application code waits through hook.cc, which suspends the fiber as soon
\* as somebody holds its wake-up, and never asks for READY.
Application(w) == InApplication(w) /\ ~Outstanding(ff[w].fiber)

SpawnIO(w, f) ==
  /\ Application(w)
  /\ Spawn(w, f)
  /\ ThenTickle(w)
  /\ UNCHANGED <<timerVars, eventVars, pipeVars>>

\* sleep(): a timer will schedule the callable that schedules this fiber.
Sleep(w, g) ==
  /\ Application(w)
  /\ LET f == ff[w].fiber IN
       /\ fuel[f] > 0
       /\ fuel' = [fuel EXCEPT ![f] = @ - 1]
       /\ armed' = armed \cup {f}
       /\ AddTimer(w, g, f)
  /\ SetState(g, "FUNC")
  /\ UNCHANGED <<tasks, countVars, flagVars, workVars, mpc, eventVars, cbs, pipeVars>>

\* Mutant of AddEvent: the pending count is raised by the first waiter only.
AddEventUncounted(w) ==
  /\ Application(w)
  /\ Arm(w)
  /\ events' = events \cup {ff[w].fiber}
  /\ pending' = IF pending = 0 THEN 1 ELSE pending
  /\ UNCHANGED <<timerVars, owe, pipeVars>>

\* addEvent() for the running fiber.
AddEvent(w) ==
  /\ Application(w)
  /\ Arm(w)
  /\ events' = events \cup {ff[w].fiber}
  /\ pending' = pending + 1
  /\ UNCHANGED <<timerVars, owe, pipeVars>>

Leaves(w) ==
  /\ \/ InApplication(w) /\ Yield(w)
     \/ Application(w) /\ Finish(w)
  /\ UNCHANGED ioVars

\* The callable of a sleep() timer: it schedules the sleeper and returns.
WakeSleeper(w) ==
  /\ pc[w] = "exec"
  /\ LET g == ff[w].fiber
         f == wakes[g]
     IN /\ f # NoFiber
        /\ armed' = armed \ {f}
        /\ Schedule(FiberTask(f))
        /\ SetState(g, "TERM")
  /\ ThenTickle(w)
  /\ Goto(w, "back")
  /\ UNCHANGED <<fuel, countVars, flagVars, ff, quit, mpc, timerVars, eventVars, pipeVars>>

Executes(w) ==
  \/ AddEvent(w) \/ Leaves(w) \/ WakeSleeper(w)
  \/ \E f \in Fibers : SpawnIO(w, f) \/ Sleep(w, f)

------------------------------------------------------------------------------
Tickles(t) == TickleCheck(t) \/ TickleWrite(t)

Finished == mpc \in {"stopped", "aborted"} /\ UNCHANGED iovars

OwnerStopStep == (mpc # "open" /\ OwnerStop) \/ OwnerChecks \/ OwnerSkips

IONext ==
  \/ Finished
  \/ /\ mpc # "aborted"
     /\ \/ OwnerStop \/ OwnerChecks \/ OwnerSkips
        \/ \E f \in Fibers : OwnerSchedule(f) \/ OwnerAddTimer(f)
        \/ \E t \in Threads : Tickles(t)
        \/ \E w \in Workers : Runs(w) \/ Idles(w) \/ Executes(w)

\* Threads run, coroutines give their thread back, epoll_wait returns, a due
\* timer is seen in the end and an fd in the end becomes ready.
IOFairness ==
  /\ WF_iovars(OwnerStopStep)
  /\ \A t \in Threads : WF_iovars(Tickles(t))
  /\ \A w \in Workers :
       /\ WF_iovars(Runs(w) \/ Idles(w) \/ Executes(w))
       /\ \A g \in Fibers :
            /\ SF_iovars(Expire(w) /\ g \in timers /\ g \notin timers')
            /\ SF_iovars(Trigger(w, g))

IOSpec == IOInit /\ [][IONext]_iovars /\ IOFairness

------------------------------------------------------------------------------
(* Properties                                                               *)

\* Where callable g is on its way from addTimer() or schedule() to a worker.
Places(g) == (IF g \in timers THEN {<<"timer", NoFiber>>} ELSE {})
             \cup {<<"cbs", w>> : w \in {v \in Workers : g \in cbs[v]}}
             \cup {<<"list", i>> : i \in {j \in DOMAIN tasks : tasks[j] = CbTask(g)}}
             \cup {<<"taken", w>> : w \in {v \in Workers : TakenBy(v, g)}}

\* A callable is handed over between m_timers, the batch of a worker, the
\* list and run() under three locks: it is never lost and never duplicated.
InOnePlace == \A g \in Fibers : state[g] = "FUNC" => Cardinality(Places(g)) = 1

\* The parties that will schedule f: a timer's callable or an fd event.
Wakers(f) == {g \in Fibers : wakes[g] = f /\ state[g] \in {"FUNC", "EXEC"}}

\* A fiber waits on one party at a time, and that party still exists: no
\* wake-up of a sleeper is dropped and none comes twice.
OneWaker ==
  \A f \in Fibers :
    Cardinality(Wakers(f)) + (IF f \in events THEN 1 ELSE 0) = IF f \in armed THEN 1 ELSE 0

\* With one worker, when stop() has returned no timer, fd event, task or
\* fiber is left over, although stopping() is three separate reads.
NothingAbandoned ==
  mpc = "stopped" =>
    /\ tasks = <<>> /\ timers = {} /\ events = {} /\ armed = {}
    /\ \A w \in Workers : cbs[w] = {}
    /\ \A f \in Fibers : state[f] \in {"NONE", "TERM"}

\* a_pendingEventCount is the number of registered events, plus those whose
\* waiter has been scheduled and that are not counted down yet.
PendingExact ==
  pending = Cardinality(events) + Cardinality({w \in Workers : pc[w] = "dec"})

\* Every sleeping or waiting fiber is resumed.
SleepersResume == \A f \in Fibers : (f \in armed) ~> Running(f)

\* ~IOManager() returns: the timers and events that are left are worked off
\* and no worker waits for one that will not come.
IOStopReturns == (mpc = "stop1") ~> (mpc = "stopped")

\* Workers leave run() one by one on answers of stopping() that may be out of
\* date.  What is left when stop() has returned are suspended fibers with the
\* timer or event they wait for, and timers of the owner's: no callable, task
\* or wake-up is left on its way to a worker, and no fiber half run.
OnlyWaitersLeft ==
  mpc = "stopped" =>
    /\ tasks = <<>> /\ \A w \in Workers : cbs[w] = {}
    /\ \A f \in Fibers :
         \/ state[f] \in {"NONE", "TERM"}
         \/ state[f] = "FUNC" /\ f \in timers
         \/ state[f] = "HOLD" /\ (f \in events \/ \E g \in timers : wakes[g] = f)
==============================================================================
