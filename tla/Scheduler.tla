------------------------------ MODULE Scheduler ------------------------------
(***************************************************************************)
(* The coroutine scheduler of src/tw/scheduler.{h,cc} with the fiber       *)
(* states of src/tw/fiber.{h,cc}: the worker loop run(), the shared task   *)
(* list, schedule(), start(), stop() and the base class's idle() and       *)
(* stopping().                                                             *)
(*                                                                         *)
(* One worker is one OS thread inside run(); the thread that built a       *)
(* use_caller scheduler is the worker Caller, and enters run() only from   *)
(* stop().  A section under m_mutex is one action, and so is each access   *)
(* to an atomic counter or to a fiber's m_state outside it; everything     *)
(* between two of those may interleave with the other threads.             *)
(*                                                                         *)
(* A fiber is named by the callable it runs, from the moment that callable *)
(* is scheduled.  Its code is abstracted to what it asks of the scheduler: *)
(* schedule another one, let some party hold its wake-up (a timer, an fd   *)
(* event, another fiber), suspend, end.  Each fiber has one outstanding    *)
(* wake-up at a time, as every caller in src/tw/hook.cc arranges.          *)
(***************************************************************************)
EXTENDS Integers, Sequences, FiniteSets, SequencesExt

CONSTANTS Workers,    \* the threads that execute run()
          Caller,     \* the thread that owns the scheduler: in Workers iff use_caller
          Fibers,     \* the coroutines of the application
          MaxYields,  \* bound: suspension points in one coroutine
          NoTask      \* an empty FiberAndFunc

ASSUME WorkersAssumption == IsFiniteSet(Workers) /\ Workers # {}
ASSUME MaxYieldsAssumption == MaxYields \in Nat
ASSUME NoTaskAssumption == NoTask \notin [kind : {"cb", "fiber"}, fiber : Fibers]

VARIABLES tasks,      \* m_tasks
          state,      \* Fiber::m_state of each fiber
          armed,      \* fibers whose one wake-up somebody outside m_tasks holds
          fuel,       \* suspension points each coroutine has left
          active,     \* a_activeThreadCount
          idle,       \* a_idleThreadCount
          autostop,   \* m_autostop
          stopping,   \* m_stopping
          pc,         \* where each worker is in run()
          ff,         \* the task each worker holds
          quit,       \* workers whose idle fiber has terminated
          mpc         \* where the owning thread is in the life of the scheduler

fiberVars == <<state, armed, fuel>>
countVars == <<active, idle>>
flagVars  == <<autostop, stopping>>
workVars  == <<pc, ff, quit>>
vars == <<tasks, state, armed, fuel, active, idle, autostop, stopping, pc, ff, quit, mpc>>

\* "NONE": not submitted.  "FUNC": a callable in the list, no Fiber object yet.
FiberState == {"NONE", "FUNC", "INIT", "HOLD", "EXEC", "TERM", "READY"}

Task == [kind : {"cb", "fiber"}, fiber : Fibers]

\* The points of run() between which other threads may act.
Point == {"off", "loop", "taken", "exec", "back", "ret", "none", "idle", "idleret", "done"}

Phase == {"ctor", "open", "stop1", "stop2", "call", "join", "stopped"}

TypeOK ==
  /\ tasks \in Seq(Task)
  /\ state \in [Fibers -> FiberState]
  /\ armed \subseteq Fibers
  /\ fuel \in [Fibers -> 0..MaxYields]
  /\ active \in Int /\ idle \in Int
  /\ autostop \in BOOLEAN /\ stopping \in BOOLEAN
  /\ pc \in [Workers -> Point]
  /\ ff \in [Workers -> Task \cup {NoTask}]
  /\ quit \subseteq Workers
  /\ mpc \in Phase

Init ==
  /\ tasks = <<>>
  /\ state = [f \in Fibers |-> "NONE"]
  /\ armed = {}
  /\ fuel = [f \in Fibers |-> MaxYields]
  /\ active = 0 /\ idle = 0
  /\ autostop = FALSE /\ stopping = FALSE
  /\ pc = [w \in Workers |-> "off"]
  /\ ff = [w \in Workers |-> NoTask]
  /\ quit = {}
  /\ mpc = "ctor"

------------------------------------------------------------------------------
(* Helpers                                                                  *)

Goto(w, p) == pc' = [pc EXCEPT ![w] = p]
SetState(f, s) == state' = [state EXCEPT ![f] = s]
CbTask(f) == [kind |-> "cb", fiber |-> f]
FiberTask(f) == [kind |-> "fiber", fiber |-> f]

\* scheduleNoLock(): the list grows at its end.
Schedule(t) == tasks' = Append(tasks, t)

Queued(f) == \E i \in DOMAIN tasks : tasks[i].fiber = f

\* Somebody, in the list or outside it, will hand f to a worker again.
Outstanding(f) == f \in armed \/ Queued(f)

\* Mutant of Takable: the scan forgets the EXEC test of scheduler.cc:93.
TakableAlways(t) == TRUE

\* run() leaves a fiber in the list while another worker is still inside it.
Takable(t) == ~(t.kind = "fiber" /\ state[t.fiber] = "EXEC")

\* Scheduler::stopping()
Stopping == autostop /\ stopping /\ tasks = <<>> /\ active = 0

------------------------------------------------------------------------------
(* The owning thread                                                        *)

\* schedule() of a callable, or of a Fiber the caller has built.
Submit(f) ==
  /\ state[f] = "NONE"
  /\ \/ Schedule(CbTask(f)) /\ SetState(f, "FUNC")
     \/ Schedule(FiberTask(f)) /\ SetState(f, "INIT")
  /\ UNCHANGED <<armed, fuel>>

MainSchedule(f) ==
  /\ mpc \in {"ctor", "open"}
  /\ Submit(f)
  /\ UNCHANGED <<countVars, flagVars, workVars, mpc>>

\* start(): every thread of the pool is inside run() when it returns.
Start ==
  /\ mpc = "ctor"
  /\ mpc' = "open"
  /\ pc' = [w \in Workers |-> IF w = Caller THEN "off" ELSE "loop"]
  /\ UNCHANGED <<tasks, fiberVars, countVars, flagVars, ff, quit>>

\* stop(), its two unlocked flag writes.
StopBegin ==
  /\ mpc = "open"
  /\ mpc' = "stop1"
  /\ autostop' = TRUE
  /\ UNCHANGED <<tasks, fiberVars, countVars, stopping, workVars>>

StopFlag ==
  /\ mpc = "stop1"
  /\ mpc' = "stop2"
  /\ stopping' = TRUE
  /\ UNCHANGED <<tasks, fiberVars, countVars, autostop, workVars>>

\* The owner of a use_caller scheduler works off what is left in run().  The
\* early return of a scheduler without threads is the second disjunct too:
\* it has nobody to join.
StopCall ==
  /\ mpc = "stop2"
  /\ Caller \in Workers /\ ~Stopping
  /\ mpc' = "call"
  /\ Goto(Caller, "loop")
  /\ UNCHANGED <<tasks, fiberVars, countVars, flagVars, ff, quit>>

StopNoCall ==
  /\ mpc = "stop2"
  /\ Caller \notin Workers \/ Stopping
  /\ mpc' = "join"
  /\ UNCHANGED <<tasks, fiberVars, countVars, flagVars, workVars>>

\* run() has returned on the owner's scheduling fiber.
CallReturns ==
  /\ mpc = "call"
  /\ pc[Caller] = "done"
  /\ mpc' = "join"
  /\ UNCHANGED <<tasks, fiberVars, countVars, flagVars, workVars>>

Join ==
  /\ mpc = "join"
  /\ \A w \in Workers \ {Caller} : pc[w] = "done"
  /\ mpc' = "stopped"
  /\ UNCHANGED <<tasks, fiberVars, countVars, flagVars, workVars>>

------------------------------------------------------------------------------
(* run()                                                                    *)

\* The first task of the list that no worker is executing leaves it.
Take(w) ==
  /\ pc[w] = "loop"
  /\ \E i \in DOMAIN tasks :
       /\ Takable(tasks[i])
       /\ \A j \in 1..(i - 1) : ~Takable(tasks[j])
       /\ ff' = [ff EXCEPT ![w] = tasks[i]]
       /\ tasks' = RemoveAt(tasks, i)
  /\ active' = active + 1
  /\ Goto(w, "taken")
  /\ UNCHANGED <<fiberVars, idle, flagVars, quit, mpc>>

TakeNothing(w) ==
  /\ pc[w] = "loop"
  /\ \A i \in DOMAIN tasks : ~Takable(tasks[i])
  /\ Goto(w, "none")
  /\ UNCHANGED <<tasks, fiberVars, countVars, flagVars, ff, quit, mpc>>

\* Mutant of SwapIn: the TERM test of scheduler.cc:104 is missing.
SwapInAny(w) ==
  /\ pc[w] = "taken"
  /\ SetState(ff[w].fiber, "EXEC")
  /\ Goto(w, "exec")
  /\ UNCHANGED <<tasks, armed, fuel, countVars, flagVars, ff, quit, mpc>>

\* swapIn() of the fiber, or of the Fiber made for the callable.
SwapIn(w) ==
  /\ pc[w] = "taken"
  /\ state[ff[w].fiber] # "TERM"
  /\ SetState(ff[w].fiber, "EXEC")
  /\ Goto(w, "exec")
  /\ UNCHANGED <<tasks, armed, fuel, countVars, flagVars, ff, quit, mpc>>

\* Mutant of Drop: continue without --a_activeThreadCount.
DropUncounted(w) ==
  /\ pc[w] = "taken"
  /\ state[ff[w].fiber] = "TERM"
  /\ ff' = [ff EXCEPT ![w] = NoTask]
  /\ Goto(w, "loop")
  /\ UNCHANGED <<tasks, fiberVars, countVars, flagVars, quit, mpc>>

\* A fiber that ended before its wake-up was delivered is dropped.
Drop(w) ==
  /\ pc[w] = "taken"
  /\ state[ff[w].fiber] = "TERM"
  /\ active' = active - 1
  /\ ff' = [ff EXCEPT ![w] = NoTask]
  /\ Goto(w, "loop")
  /\ UNCHANGED <<tasks, fiberVars, idle, flagVars, quit, mpc>>

\* swapIn() has returned: the counter goes down before the state is looked at.
DecActive(w) ==
  /\ pc[w] = "back"
  /\ active' = active - 1
  /\ Goto(w, "ret")
  /\ UNCHANGED <<tasks, fiberVars, idle, flagVars, ff, quit, mpc>>

\* Mutant of Requeued: the READY branch of scheduler.cc:108 is missing.
RequeuedNever(t) == FALSE

\* What becomes of the fiber that came back; only the branch for scheduled
\* Fibers looks for READY, the branch for callables overwrites it.
Requeued(t) == t.kind = "fiber" /\ state[t.fiber] = "READY"

\* Mutant of Retire: m_state is left at EXEC, as YieldToHold() leaves it.
RetireLeavesExec(w) ==
  /\ pc[w] = "ret"
  /\ IF Requeued(ff[w]) THEN Schedule(ff[w]) ELSE UNCHANGED tasks
  /\ ff' = [ff EXCEPT ![w] = NoTask]
  /\ Goto(w, "loop")
  /\ UNCHANGED <<fiberVars, countVars, flagVars, quit, mpc>>

Retire(w) ==
  /\ pc[w] = "ret"
  /\ LET t == ff[w] IN
       /\ IF Requeued(t) THEN Schedule(t) ELSE UNCHANGED tasks
       /\ IF Requeued(t) \/ state[t.fiber] = "TERM"
          THEN UNCHANGED state
          ELSE SetState(t.fiber, "HOLD")
  /\ ff' = [ff EXCEPT ![w] = NoTask]
  /\ Goto(w, "loop")
  /\ UNCHANGED <<armed, fuel, countVars, flagVars, quit, mpc>>

\* Nothing to take: the worker leaves run() or resumes its idle fiber.
Exit(w) ==
  /\ pc[w] = "none"
  /\ w \in quit
  /\ Goto(w, "done")
  /\ UNCHANGED <<tasks, fiberVars, countVars, flagVars, ff, quit, mpc>>

IdleIn(w) ==
  /\ pc[w] = "none"
  /\ w \notin quit
  /\ idle' = idle + 1
  /\ Goto(w, "idle")
  /\ UNCHANGED <<tasks, fiberVars, active, flagVars, ff, quit, mpc>>

\* One turn of Scheduler::idle(): it ends, or yields.
IdleCheck(w) ==
  /\ pc[w] = "idle"
  /\ quit' = IF Stopping THEN quit \cup {w} ELSE quit
  /\ Goto(w, "idleret")
  /\ UNCHANGED <<tasks, fiberVars, countVars, flagVars, ff, mpc>>

IdleOut(w) ==
  /\ pc[w] = "idleret"
  /\ idle' = idle - 1
  /\ Goto(w, "loop")
  /\ UNCHANGED <<tasks, fiberVars, active, flagVars, ff, quit, mpc>>

------------------------------------------------------------------------------
(* The code of the fiber a worker executes                                  *)

Spawn(w, f) ==
  /\ pc[w] = "exec"
  /\ Submit(f)
  /\ UNCHANGED <<countVars, flagVars, workVars, mpc>>

\* The running fiber lets another party hold its wake-up.
Arm(w) ==
  /\ pc[w] = "exec"
  /\ LET f == ff[w].fiber IN
       /\ ~Outstanding(f)
       /\ fuel[f] > 0
       /\ armed' = armed \cup {f}
       /\ fuel' = [fuel EXCEPT ![f] = @ - 1]
  /\ UNCHANGED <<tasks, state, countVars, flagVars, workVars, mpc>>

\* YieldToHold(): m_state stays EXEC until the worker is back in run().
Yield(w) ==
  /\ pc[w] = "exec"
  /\ Outstanding(ff[w].fiber)
  /\ Goto(w, "back")
  /\ UNCHANGED <<tasks, fiberVars, countVars, flagVars, ff, quit, mpc>>

\* setState(READY) and swapOut(): the fiber asks for another turn.
YieldReady(w) ==
  /\ pc[w] = "exec"
  /\ LET f == ff[w].fiber IN
       /\ ~Outstanding(f)
       /\ fuel[f] > 0
       /\ fuel' = [fuel EXCEPT ![f] = @ - 1]
       /\ SetState(f, "READY")
  /\ Goto(w, "back")
  /\ UNCHANGED <<tasks, armed, countVars, flagVars, ff, quit, mpc>>

\* ReturnScedulerFunc(): the callable returned or threw.
Finish(w) ==
  /\ pc[w] = "exec"
  /\ SetState(ff[w].fiber, "TERM")
  /\ Goto(w, "back")
  /\ UNCHANGED <<tasks, armed, fuel, countVars, flagVars, ff, quit, mpc>>

\* The party that holds f's wake-up calls schedule(f).  In the base class it
\* is application code: another fiber, or a thread that stops before stop().
Deliver(f) ==
  /\ f \in armed
  /\ armed' = armed \ {f}
  /\ Schedule(FiberTask(f))
  /\ UNCHANGED <<state, fuel>>

Wake(f) ==
  /\ mpc = "open" \/ \E w \in Workers : pc[w] = "exec"
  /\ Deliver(f)
  /\ UNCHANGED <<countVars, flagVars, workVars, mpc>>

------------------------------------------------------------------------------
StopStep == StopFlag \/ StopCall \/ StopNoCall \/ CallReturns \/ Join

\* One step of run() itself, and one of the fiber it has swapped in.
RunStep(w) == Take(w) \/ TakeNothing(w) \/ SwapIn(w) \/ Drop(w) \/ DecActive(w) \/ Retire(w)

IdleStep(w) == Exit(w) \/ IdleIn(w) \/ IdleCheck(w) \/ IdleOut(w)

FiberStep(w) == Arm(w) \/ Yield(w) \/ YieldReady(w) \/ Finish(w) \/ \E f \in Fibers : Spawn(w, f)

\* After stop() nothing is left to do.
Terminated == mpc = "stopped" /\ UNCHANGED vars

Next ==
  \/ Start \/ StopBegin \/ StopStep \/ Terminated
  \/ \E f \in Fibers : MainSchedule(f) \/ Wake(f)
  \/ \E w \in Workers : RunStep(w) \/ IdleStep(w) \/ FiberStep(w)

\* The OS runs every thread, and no coroutine keeps its thread for ever;
\* nothing obliges the application to call start() or stop().
Fairness ==
  /\ WF_vars(StopStep)
  /\ \A w \in Workers : WF_vars(RunStep(w) \/ IdleStep(w) \/ FiberStep(w))

Spec == Init /\ [][Next]_vars /\ Fairness
------------------------------------------------------------------------------
(* Properties                                                               *)

Running(f) == \E w \in Workers : pc[w] = "exec" /\ ff[w].fiber = f

TakenBy(w, f) == pc[w] = "taken" /\ ff[w].fiber = f

\* The workers counted in a_activeThreadCount and in a_idleThreadCount.
ActiveWorkers == {w \in Workers : pc[w] \in {"taken", "exec", "back"}}
IdleWorkers   == {w \in Workers : pc[w] \in {"idle", "idleret"}}

\* One fiber has one stack: it is never inside two workers' swapIn() at a
\* time, although its m_state is read under m_mutex and written outside it.
NoDoubleRun ==
  \A v, w \in Workers :
    v # w /\ pc[v] = "exec" /\ pc[w] = "exec" => ff[v].fiber # ff[w].fiber

\* The two atomic counters, updated away from m_mutex on several paths of
\* run(), count exactly the workers between the increment and the decrement.
CountersExact ==
  /\ active = Cardinality(ActiveWorkers)
  /\ idle = Cardinality(IdleWorkers)

\* stop() returns only when every callable and fiber handed to the scheduler
\* has run as far as it can: nothing is queued, fresh or being executed.
Drained ==
  mpc = "stopped" =>
    /\ tasks = <<>>
    /\ \A f \in Fibers : state[f] \in {"NONE", "HOLD", "TERM"}
    /\ \A w \in Workers : pc[w] \in {"off", "done"}

\* A suspended fiber that no list and no party will ever resume.
Stranded(f) ==
  /\ state[f] = "HOLD"
  /\ ~Outstanding(f)
  /\ \A w \in Workers : ~TakenBy(w, f)

\* The only way to lose a fiber is the READY state of a fiber born from a
\* callable, which run() overwrites with HOLD (scheduler.cc:131).
OnlyReadyCallbackLost ==
  [][\A f \in Fibers : Stranded(f)' /\ ~Stranded(f) =>
       \E w \in Workers : pc[w] = "ret" /\ ff[w] = CbTask(f) /\ state[f] = "READY"]_vars

\* Somebody executes run(), or will: a pool thread, or stop() in its owner.
Served == mpc # "ctor" /\ (Workers # {Caller} \/ mpc # "open")

\* A task in the list is reached: the fiber executes, or turns out to have
\* ended, however the workers interleave and whatever is skipped before it.
QueuedRuns == \A f \in Fibers : (Queued(f) /\ Served) ~> (Running(f) \/ state[f] = "TERM")

\* stop() returns: no worker sleeps or spins for ever once the flags are set.
StopReturns == (mpc = "stop1") ~> (mpc = "stopped")

------------------------------------------------------------------------------
(* The inductive invariant behind NoDoubleRun and Drained                   *)

Inside(w) == pc[w] \in {"exec", "back", "ret"}
Holds(w)  == pc[w] = "taken" \/ Inside(w)

\* A worker holds a task from Take to Drop or Retire, and the fiber's state
\* says where in between.
HeldState ==
  \A w \in Workers :
    /\ Holds(w) => ff[w] \in Task
    /\ pc[w] = "taken" =>
         state[ff[w].fiber] \in IF ff[w].kind = "cb" THEN {"FUNC"}
                                ELSE {"INIT", "HOLD", "READY", "TERM"}
    /\ pc[w] = "exec" => state[ff[w].fiber] = "EXEC"
    /\ pc[w] \in {"back", "ret"} => state[ff[w].fiber] \in {"EXEC", "READY", "TERM"}

QueuedState ==
  \A i \in DOMAIN tasks :
    state[tasks[i].fiber] \in IF tasks[i].kind = "cb" THEN {"FUNC"}
                              ELSE {"INIT", "HOLD", "EXEC", "READY", "TERM"}

\* A fiber has one wake-up: with an outside party, in the list, or taken.
OneWakeUp ==
  /\ \A i, j \in DOMAIN tasks : tasks[i].fiber = tasks[j].fiber => i = j
  /\ \A v, w \in Workers :
       v # w /\ pc[v] = "taken" /\ pc[w] = "taken" => ff[v].fiber # ff[w].fiber
  /\ \A w \in Workers : pc[w] = "taken" => ~Outstanding(ff[w].fiber)
  /\ \A f \in armed : ~Queued(f) /\ state[f] \in {"HOLD", "EXEC", "TERM"}

\* No two workers are inside one fiber, and one that asked for another turn
\* has not been handed to anybody yet.
OneInside ==
  \A w \in Workers : Inside(w) =>
    /\ \A v \in Workers : v # w /\ Inside(v) => ff[v].fiber # ff[w].fiber
    /\ state[ff[w].fiber] = "READY" =>
         /\ ~Outstanding(ff[w].fiber)
         /\ \A v \in Workers : ~TakenBy(v, ff[w].fiber)

\* A fiber that has to go on is in the list or with a worker.
Accounted ==
  \A f \in Fibers :
    /\ state[f] = "EXEC" => \E w \in Workers : Inside(w) /\ ff[w].fiber = f
    /\ state[f] \in {"FUNC", "INIT", "READY"} =>
         Queued(f) \/ \E w \in Workers : Holds(w) /\ ff[w].fiber = f

\* Where the owner's progress leaves the workers and the flags.
OwnerState ==
  /\ quit # {} => autostop /\ stopping
  /\ stopping => mpc \notin {"ctor", "open", "stop1"}
  /\ mpc = "ctor" => \A w \in Workers : pc[w] = "off"
  /\ mpc # "ctor" => \A w \in Workers \ {Caller} : pc[w] # "off"
  /\ \A w \in Workers : pc[w] = "done" => w \in quit
  /\ mpc \in {"open", "stop1", "stop2"} /\ Caller \in Workers => pc[Caller] = "off"
  /\ mpc = "call" => Caller \in Workers
  /\ mpc \in {"join", "stopped"} /\ Caller \in Workers => pc[Caller] \in {"off", "done"}
  /\ mpc = "stopped" => \A w \in Workers \ {Caller} : pc[w] = "done"

\* This worker has yet to look at the list again before it may leave run().
Attentive(w) == pc[w] \notin {"off", "done"} /\ ~(pc[w] = "none" /\ w \in quit)

\* From the first worker that gives up, and from the join on, no task is
\* left to nobody.
WorkHasWorker ==
  /\ quit # {} \/ mpc \in {"join", "stopped"}
  /\ tasks # <<>>
  => \E w \in Workers : Attentive(w)

IInv == /\ TypeOK
        /\ HeldState
        /\ QueuedState
        /\ OneWakeUp
        /\ OneInside
        /\ Accounted
        /\ OwnerState
        /\ WorkHasWorker

------------------------------------------------------------------------------
(* The scheduler implements the coroutine pool of FiberPool                 *)

\* A fiber whose wake-up is in the list, in a worker's hands, or READY where
\* run() will put it back, waits for nothing but a worker.
Due(f) == \/ Queued(f)
          \/ \E w \in Workers :
               \/ TakenBy(w, f)
               \/ pc[w] \in {"back", "ret"} /\ ff[w] = FiberTask(f) /\ state[f] = "READY"

poolStatus ==
  [f \in Fibers |-> CASE state[f] = "NONE" -> "none"
                      [] state[f] = "TERM" -> "done"
                      [] Running(f)        -> "running"
                      [] OTHER             -> IF Due(f) THEN "ready" ELSE "waiting"]

poolEarly == {f \in Fibers : Running(f) /\ Queued(f)}

poolPhase == IF mpc = "stopped" THEN "closed"
             ELSE IF \E w \in Workers : pc[w] # "off" THEN "serving" ELSE "new"

Pool == INSTANCE FiberPool WITH status <- poolStatus, early <- poolEarly, phase <- poolPhase

\* Every behaviour of the scheduler is one of the coroutine pool: a fiber
\* runs on one worker at a time, once per wake-up, and never after stop().
ImplementsPool == Pool!Safe
==============================================================================
