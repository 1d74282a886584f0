--------------------------- MODULE IOManager_proofs ---------------------------
(***************************************************************************)
(* Proofs about IOManager for any number of workers, coroutines and timers *)
(* and any capacity of the tickle pipe.                                    *)
(***************************************************************************)
EXTENDS IOManager, Scheduler_proofs

------------------------------------------------------------------------------
(* The inductive invariant                                                  *)

\* What IOTypeOK leaves out.  The coroutines of hook.cc never ask for READY.
CoreTypes ==
  /\ tasks \in Seq(Task)
  /\ state \in [Fibers -> FiberState \ {"READY"}]
  /\ armed \subseteq Fibers /\ events \subseteq armed
  /\ pc \in [Workers -> IOPoint]
  /\ ff \in [Workers -> Task \cup {NoTask}]
  /\ wakes \in [Fibers -> Fibers \cup {NoFiber}]
  /\ timers \subseteq Fibers /\ IsFiniteSet(timers)
  /\ cbs \in [Workers -> SUBSET Fibers] /\ \A w \in Workers : IsFiniteSet(cbs[w])

\* No fiber is inside two workers' swapIn().
InsideApart ==
  \A v, w \in Workers : v # w /\ Inside(v) /\ Inside(w) => ff[v].fiber # ff[w].fiber

\* Callable g has yet to schedule fiber f.
WillWake(g, f) == wakes[g] = f /\ state[g] \in {"FUNC", "EXEC"}

\* The callable of a sleep() timer runs once and to its end.
SleeperCallables ==
  /\ \A g \in Fibers : wakes[g] # NoFiber => state[g] \in {"FUNC", "EXEC", "TERM"}
  /\ \A w \in Workers :
       pc[w] \in {"back", "ret"} /\ wakes[ff[w].fiber] # NoFiber => state[ff[w].fiber] = "TERM"

\* A fiber whose wake-up is outside the list is suspended or about to be, and
\* an fd event or the callable of one timer, not both, has that wake-up.
ArmedByOne ==
  /\ \A f \in armed : state[f] \in {"HOLD", "EXEC"} /\ wakes[f] = NoFiber
  /\ \A f \in Fibers : f \in armed <=> f \in events \/ \E g \in Fibers : WillWake(g, f)
  /\ \A f \in events : \A g \in Fibers : ~WillWake(g, f)
  /\ \A f, g, h \in Fibers : WillWake(g, f) /\ WillWake(h, f) => g = h

\* A callable in m_timers or in the batch of a worker is nowhere else.
Untouched(g) == state[g] = "FUNC" /\ ~Queued(g) /\ \A v \in Workers : ~TakenBy(v, g)

CallablesApart ==
  /\ \A g \in timers : Untouched(g) /\ \A w \in Workers : g \notin cbs[w]
  /\ \A w \in Workers : \A g \in cbs[w] : Untouched(g) /\ \A v \in Workers : v # w => g \notin cbs[v]
  /\ \A w \in Workers : cbs[w] # {} => pc[w] = "cbs"

\* A callable that has not run yet is on its way to a worker.
CallablesKept ==
  \A g \in Fibers : state[g] = "FUNC" =>
    \/ g \in timers
    \/ \E w \in Workers : g \in cbs[w] \/ TakenBy(w, g)
    \/ Queued(g)

\* One wake-up per fiber and one place per callable.
CoreInv ==
  /\ CoreTypes
  /\ HeldState
  /\ QueuedState
  /\ OneWakeUp
  /\ InsideApart
  /\ SleeperCallables
  /\ ArmedByOne
  /\ CallablesApart
  /\ CallablesKept

\* Until the owner goes to work in stop() it is outside run().
OwnerOutside ==
  mpc \in {"open", "stop1", "stop2", "stopchk2", "stopchk3"} /\ Caller \in Workers => pc[Caller] = "off"

\* The workers inside IOManager::idle().
IOIdleWorkers == {w \in Workers : pc[w] \in {"idle", "chk2", "chk3", "poll", "fire", "cbs", "ev", "dec", "idleret"}}

\* Unless delEvent() has brought the process down, a fiber that has to go on
\* is with a worker, in the list, or waited for by the party that holds it.
NothingLost ==
  mpc # "aborted" =>
    \A f \in Fibers :
      /\ state[f] = "INIT" => Queued(f) \/ \E w \in Workers : TakenBy(w, f)
      /\ state[f] = "HOLD" => Outstanding(f) \/ \E w \in Workers : TakenBy(w, f)
      /\ state[f] = "EXEC" => \E w \in Workers : /\ Inside(w) /\ ff[w].fiber = f
                                                 /\ pc[w] # "exec" => Outstanding(f)

\* The variables neither half speaks of.
RestTypes ==
  /\ fuel \in [Fibers -> 0..MaxYields]
  /\ owe \in [Threads -> {"no", "check", "write"}]
  /\ pipe \in 0..PipeCapacity
  /\ drain \subseteq Workers

\* No timer that is set will wake a sleeping fiber.
NoSleeper == \A g \in timers : wakes[g] = NoFiber

\* With one worker, what stopping() has found is still so when it looks on:
\* from "nothing left" to the end of run() nobody can bring anything in.  Only
\* the owner's own timers may come between the reads, before stop().
AllGone == tasks = <<>> /\ NoSleeper /\ events = {}

LastLook ==
  /\ stopping => mpc \notin {"ctor", "open", "stop1"}
  /\ quit \subseteq Workers /\ (quit # {} => stopping)
  /\ mpc \in {"stopchk2", "stopchk3"} => Caller \in Workers
  /\ \A w \in Workers :
       /\ pc[w] = "chk2" => NoSleeper
       /\ pc[w] = "chk3" => NoSleeper /\ events = {}
       /\ w \in quit => AllGone /\ pc[w] \in {"idleret", "loop", "none", "done"}
       /\ pc[w] = "done" => w \in quit
  /\ mpc = "stopchk2" => NoSleeper
  /\ mpc = "stopchk3" => NoSleeper /\ events = {}
  /\ mpc \in {"join", "stopped"} /\ Caller \in Workers => AllGone /\ pc[Caller] \in {"off", "done"}
  /\ mpc = "stopped" => \A w \in Workers \ {Caller} : pc[w] = "done"

\* The two atomic counters of Scheduler, with idle() overridden.
IOCountersExact == active = Cardinality(ActiveWorkers) /\ idle = Cardinality(IOIdleWorkers)

\* What the counters of Scheduler and of IOManager count.
CountInv ==
  /\ mpc \in IOPhase
  /\ OwnerOutside
  /\ IOCountersExact
  /\ IsFiniteSet(events)
  /\ PendingExact

------------------------------------------------------------------------------
(* Steps that several actions take                                          *)

\* What the first half of the invariant speaks of.
coreVars == <<tasks, state, armed, pc, ff, wakes, events, timers, cbs>>

HeldPoint == {"taken", "exec", "back", "ret"}

\* Where a worker holds a task.
LEMMA HoldsAt ==
  ASSUME NEW w \in Workers
  PROVE  Holds(w) <=> pc[w] \in HeldPoint
BY DEF Holds, Inside, HeldPoint

\* A step that leaves all of it alone.
LEMMA CoreStutter ==
  ASSUME CoreInv, UNCHANGED coreVars
  PROVE  CoreInv'
<1> USE DEF CoreInv, coreVars
<1>1. CoreTypes' /\ SleeperCallables' /\ CallablesApart' /\ CallablesKept'
  BY DEF CoreTypes, SleeperCallables, CallablesApart, Untouched, CallablesKept, Queued, TakenBy
<1>2. HeldState' /\ QueuedState' /\ OneWakeUp' /\ InsideApart' /\ ArmedByOne'
  BY DEF HeldState, Holds, Inside, QueuedState, OneWakeUp, Outstanding, Queued, InsideApart, ArmedByOne, WillWake
<1> QED BY <1>1, <1>2

\* A worker without a task moves on, with no batch in its hands.
LEMMA CoreMove ==
  ASSUME CoreInv, NEW w \in Workers, NEW q \in IOPoint \ HeldPoint,
         ~Holds(w), pc[w] # "cbs", pc' = [pc EXCEPT ![w] = q],
         UNCHANGED <<tasks, state, armed, ff, wakes, events, timers, cbs>>
  PROVE  CoreInv'
<1> USE DEF CoreInv
<1>1. /\ \A v \in Workers : v # w => pc'[v] = pc[v]
      /\ pc'[w] = q /\ pc' \in [Workers -> IOPoint]
      /\ pc[w] \notin HeldPoint
  BY HoldsAt DEF CoreTypes
<1>2. CoreTypes'
  BY <1>1 DEF CoreTypes
<1>3. HeldState' /\ SleeperCallables' /\ InsideApart'
  BY <1>1 DEF HeldState, Holds, Inside, SleeperCallables, InsideApart, HeldPoint
<1>4. QueuedState' /\ OneWakeUp' /\ ArmedByOne'
  BY <1>1 DEF QueuedState, OneWakeUp, Outstanding, Queued, ArmedByOne, WillWake, HeldPoint
<1>5. CallablesApart' /\ CallablesKept'
  BY <1>1 DEF CallablesApart, Untouched, CallablesKept, Queued, TakenBy, HeldPoint
<1> QED BY <1>2, <1>3, <1>4, <1>5

\* A callable nobody has submitted yet is nowhere.
LEMMA FreshIsNowhere ==
  ASSUME CoreInv, NEW f \in Fibers, state[f] = "NONE"
  PROVE  /\ ~Queued(f) /\ f \notin armed /\ f \notin timers /\ wakes[f] = NoFiber
         /\ \A w \in Workers : f \notin cbs[w] /\ (Holds(w) => ff[w].fiber # f)
         /\ \A g \in Fibers : ~WillWake(g, f)
<1> USE DEF CoreInv
<1>1. ~Queued(f) /\ f \notin armed
  BY DEF Queued, QueuedState, ArmedByOne
<1>2. f \notin timers /\ wakes[f] = NoFiber /\ \A w \in Workers : f \notin cbs[w]
  BY DEF CallablesApart, Untouched, SleeperCallables
<1>3. \A w \in Workers : Holds(w) => ff[w].fiber # f
  BY DEF HeldState, Holds, Inside
<1>4. \A g \in Fibers : ~WillWake(g, f)
  BY <1>1 DEF ArmedByOne
<1> QED BY <1>1, <1>2, <1>3, <1>4

\* schedule() of something new.
LEMMA CoreSubmit ==
  ASSUME CoreInv, NEW f \in Fibers, Submit(f),
         UNCHANGED <<pc, ff, wakes, events, timers, cbs>>
  PROVE  CoreInv'
<1> USE DEF CoreInv
<1>1. PICK t \in Task : /\ Schedule(t)
                        /\ t.fiber = f
                        /\ state' = [state EXCEPT ![f] = IF t.kind = "cb" THEN "FUNC" ELSE "INIT"]
  BY DEF Submit, CbTask, FiberTask, Task, SetState
<1>2. state[f] = "NONE" /\ armed' = armed
  BY DEF Submit
<1>3. /\ ~Queued(f) /\ f \notin armed /\ f \notin timers /\ wakes[f] = NoFiber
      /\ \A w \in Workers : f \notin cbs[w] /\ (Holds(w) => ff[w].fiber # f)
      /\ \A g \in Fibers : ~WillWake(g, f)
  BY <1>2, FreshIsNowhere
<1>4. /\ state' \in [Fibers -> FiberState \ {"READY"}]
      /\ \A g \in Fibers : g # f => state'[g] = state[g]
      /\ state'[f] = IF t.kind = "cb" THEN "FUNC" ELSE "INIT"
  BY <1>1 DEF CoreTypes, FiberState
<1>5. /\ tasks' \in Seq(Task)
      /\ DOMAIN tasks' = DOMAIN tasks \cup {Len(tasks) + 1}
      /\ \A i \in DOMAIN tasks : tasks'[i] = tasks[i]
      /\ tasks'[Len(tasks) + 1] = t
      /\ \A g : Queued(g)' <=> Queued(g) \/ g = f
  <2>1. tasks \in Seq(Task)
    BY DEF CoreTypes
  <2>2. /\ Len(tasks) \in Nat
        /\ DOMAIN tasks = 1..Len(tasks)
        /\ DOMAIN tasks' = 1..(Len(tasks) + 1)
    BY <2>1, <1>1, AppendToList
  <2>3. 1..(Len(tasks) + 1) = 1..Len(tasks) \cup {Len(tasks) + 1}
    BY <2>2
  <2> QED BY <2>1, <2>2, <2>3, <1>1, AppendToList
<1>6. \A i \in DOMAIN tasks : tasks[i].fiber \in Fibers /\ tasks[i].fiber # f
  BY <1>3, ListTyped DEF CoreTypes, Queued
<1>7. \A w \in Workers : Holds(w) => ff[w].fiber \in Fibers /\ state'[ff[w].fiber] = state[ff[w].fiber]
  BY <1>3, <1>4 DEF HeldState, Task
<1>8. \A g, h \in Fibers : WillWake(g, h)' <=> WillWake(g, h)
  <2> TAKE g, h \in Fibers
  <2>1. CASE g = f
    BY <2>1, <1>3, NoFiberAssumption DEF WillWake
  <2>2. CASE g # f
    BY <2>2, <1>4 DEF WillWake
  <2> QED BY <2>1, <2>2
<1>11. CoreTypes'
  BY <1>2, <1>4, <1>5 DEF CoreTypes
<1>12. HeldState' /\ InsideApart'
  BY <1>7 DEF HeldState, InsideApart, Holds, Inside
<1>13. QueuedState'
  <2> SUFFICES ASSUME NEW i \in DOMAIN tasks'
      PROVE state'[tasks'[i].fiber] \in IF tasks'[i].kind = "cb" THEN {"FUNC"}
                                        ELSE {"INIT", "HOLD", "EXEC", "READY", "TERM"}
    BY DEF QueuedState
  <2>1. CASE i \in DOMAIN tasks
    BY <2>1, <1>4, <1>5, <1>6 DEF QueuedState
  <2>2. CASE i = Len(tasks) + 1
    BY <2>2, <1>1, <1>4, <1>5
  <2> QED BY <2>1, <2>2, <1>5
<1>14. OneWakeUp'
  <2>1. \A i, j \in DOMAIN tasks' : tasks'[i].fiber = tasks'[j].fiber => i = j
    BY <1>1, <1>3, AppendToListUnique DEF CoreTypes
  <2>2. \A w \in Workers : pc[w] = "taken" => ~Outstanding(ff[w].fiber)'
    BY <1>2, <1>3, <1>5 DEF OneWakeUp, Holds, Outstanding
  <2>3. \A g \in armed : ~Queued(g)' /\ state'[g] \in {"HOLD", "EXEC", "TERM"}
    BY <1>3, <1>4, <1>5 DEF CoreTypes, OneWakeUp
  <2> QED BY <2>1, <2>2, <2>3, <1>2 DEF OneWakeUp
<1>15. SleeperCallables'
  BY <1>3, <1>4, <1>7 DEF SleeperCallables, Holds, Inside
<1>16. ArmedByOne'
  BY <1>2, <1>3, <1>4, <1>8 DEF ArmedByOne, CoreTypes
<1>17. CallablesApart'
  BY <1>3, <1>4, <1>5 DEF CallablesApart, Untouched, TakenBy, CoreTypes
<1>18. CallablesKept'
  BY <1>4, <1>5 DEF CallablesKept, TakenBy
<1> QED BY <1>11, <1>12, <1>13, <1>14, <1>15, <1>16, <1>17, <1>18

\* The list takes over the wake-up of f.
LEMMA HandOver ==
  ASSUME CoreInv, NEW f \in armed, Schedule(FiberTask(f))
  PROVE  /\ f \in Fibers /\ state[f] \in {"HOLD", "EXEC"} /\ wakes[f] = NoFiber
         /\ f \notin timers /\ \A w \in Workers : f \notin cbs[w]
         /\ ~Queued(f) /\ \A w \in Workers : pc[w] = "taken" => ff[w].fiber # f
         /\ tasks' \in Seq(Task)
         /\ \A g : Queued(g)' <=> Queued(g) \/ g = f
         /\ \A i, j \in DOMAIN tasks' : tasks'[i].fiber = tasks'[j].fiber => i = j
         /\ \A i \in DOMAIN tasks' : \/ i \in DOMAIN tasks /\ tasks'[i] = tasks[i]
                                     \/ tasks'[i] = FiberTask(f)
<1> USE DEF CoreInv
<1>1. f \in Fibers /\ state[f] \in {"HOLD", "EXEC"} /\ wakes[f] = NoFiber /\ tasks \in Seq(Task)
  BY DEF CoreTypes, ArmedByOne
<1>2. f \notin timers /\ \A w \in Workers : f \notin cbs[w]
  BY <1>1 DEF CallablesApart, Untouched
<1>3. ~Queued(f) /\ \A w \in Workers : pc[w] = "taken" => ff[w].fiber # f
  BY DEF OneWakeUp, Outstanding
<1>4. FiberTask(f) \in Task /\ FiberTask(f).fiber = f
  BY <1>1 DEF FiberTask, Task
<1>5. tasks' \in Seq(Task) /\ \A g : Queued(g)' <=> Queued(g) \/ g = f
  BY <1>1, <1>4, AppendToList
<1>6. \A i, j \in DOMAIN tasks' : tasks'[i].fiber = tasks'[j].fiber => i = j
  BY <1>1, <1>3, <1>4, AppendToListUnique
<1>7. ASSUME NEW i \in DOMAIN tasks'
      PROVE  (i \in DOMAIN tasks /\ tasks'[i] = tasks[i]) \/ tasks'[i] = FiberTask(f)
  <2>1. /\ Len(tasks) \in Nat /\ DOMAIN tasks = 1..Len(tasks) /\ DOMAIN tasks' = 1..(Len(tasks) + 1)
        /\ \A j \in DOMAIN tasks : tasks'[j] = tasks[j]
        /\ tasks'[Len(tasks) + 1] = FiberTask(f)
    BY <1>1, <1>4, AppendToList
  <2>2. CASE i \in DOMAIN tasks
    BY <2>1, <2>2
  <2>3. CASE i = Len(tasks) + 1
    BY <2>1, <2>3
  <2> QED BY <1>7, <2>1, <2>2, <2>3
<1> QED BY <1>1, <1>2, <1>3, <1>5, <1>6, <1>7

------------------------------------------------------------------------------
(* The first half of the invariant, action by action                        *)

\* idle() schedules the waiter of a reported event.
LEMMA TriggerCore ==
  ASSUME CoreInv, NEW w \in Workers, NEW f \in Fibers, Trigger(w, f)
  PROVE  CoreInv'
<1> USE DEF CoreInv
<1>1. /\ pc[w] = "ev" /\ pc' = [pc EXCEPT ![w] = "dec"]
      /\ f \in events /\ f \in armed
      /\ events' = events \ {f} /\ armed' = armed \ {f}
      /\ Schedule(FiberTask(f))
      /\ UNCHANGED <<state, ff, wakes, timers, cbs>>
  BY DEF Trigger, IdleAt, Goto, timerVars, CoreTypes
<1>2. /\ state[f] \in {"HOLD", "EXEC"}
      /\ f \notin timers /\ \A v \in Workers : f \notin cbs[v]
      /\ ~Queued(f) /\ \A v \in Workers : pc[v] = "taken" => ff[v].fiber # f
      /\ tasks' \in Seq(Task)
      /\ \A g : Queued(g)' <=> Queued(g) \/ g = f
      /\ \A i, j \in DOMAIN tasks' : tasks'[i].fiber = tasks'[j].fiber => i = j
      /\ \A i \in DOMAIN tasks' : \/ i \in DOMAIN tasks /\ tasks'[i] = tasks[i]
                                  \/ tasks'[i] = FiberTask(f)
  BY <1>1, HandOver
<1>3. /\ \A v \in Workers : v # w => pc'[v] = pc[v]
      /\ pc'[w] = "dec" /\ pc' \in [Workers -> IOPoint]
  BY <1>1 DEF CoreTypes, IOPoint
<1>4. CoreTypes'
  BY <1>1, <1>2, <1>3 DEF CoreTypes
<1>5. HeldState' /\ InsideApart' /\ SleeperCallables'
  BY <1>1, <1>3 DEF HeldState, InsideApart, SleeperCallables, Holds, Inside
<1>6. QueuedState'
  BY <1>1, <1>2 DEF QueuedState, FiberTask
<1>7. OneWakeUp'
  BY <1>1, <1>2, <1>3 DEF OneWakeUp, Outstanding
<1>8. ArmedByOne'
  BY <1>1 DEF ArmedByOne, WillWake
<1>9. CallablesApart' /\ CallablesKept'
  BY <1>1, <1>2, <1>3 DEF CallablesApart, CallablesKept, Untouched, TakenBy
<1> QED BY <1>4, <1>5, <1>6, <1>7, <1>8, <1>9

\* The callable of a sleep() timer schedules the sleeper, as its whole code.
LEMMA WakeSleeperCore ==
  ASSUME CoreInv, NEW w \in Workers, WakeSleeper(w)
  PROVE  CoreInv'
<1> DEFINE g == ff[w].fiber
           f == wakes[g]
<1> USE DEF CoreInv
<1>1. /\ pc[w] = "exec" /\ pc' = [pc EXCEPT ![w] = "back"]
      /\ f # NoFiber
      /\ armed' = armed \ {f}
      /\ Schedule(FiberTask(f))
      /\ state' = [state EXCEPT ![g] = "TERM"]
      /\ UNCHANGED <<ff, wakes, timers, cbs, events>>
  BY DEF WakeSleeper, Goto, SetState, timerVars, eventVars
<1>2. g \in Fibers /\ state[g] = "EXEC" /\ f \in Fibers
  BY <1>1, NoFiberAssumption DEF CoreTypes, HeldState, Holds, Inside, Task
<1>3. WillWake(g, f) /\ f \in armed /\ f # g
  BY <1>1, <1>2 DEF WillWake, ArmedByOne
<1> HIDE DEF f
<1>4. /\ state[f] \in {"HOLD", "EXEC"} /\ wakes[f] = NoFiber
      /\ f \notin timers /\ \A v \in Workers : f \notin cbs[v]
      /\ ~Queued(f) /\ \A v \in Workers : pc[v] = "taken" => ff[v].fiber # f
      /\ tasks' \in Seq(Task)
      /\ \A h : Queued(h)' <=> Queued(h) \/ h = f
      /\ \A i, j \in DOMAIN tasks' : tasks'[i].fiber = tasks'[j].fiber => i = j
      /\ \A i \in DOMAIN tasks' : \/ i \in DOMAIN tasks /\ tasks'[i] = tasks[i]
                                  \/ tasks'[i] = FiberTask(f)
  BY <1>1, <1>3, HandOver
<1>5. /\ \A v \in Workers : v # w => pc'[v] = pc[v]
      /\ pc'[w] = "back" /\ pc' \in [Workers -> IOPoint]
      /\ state' \in [Fibers -> FiberState \ {"READY"}]
      /\ \A h \in Fibers : h # g => state'[h] = state[h]
      /\ state'[g] = "TERM"
  BY <1>1, <1>2 DEF CoreTypes, IOPoint, Point, FiberState
<1>6. g \notin armed
  BY <1>1, <1>2 DEF ArmedByOne, f
<1>7. \A v \in Workers : v # w /\ Holds(v) => ff[v].fiber # g
  BY <1>1, <1>2 DEF HeldState, InsideApart, Holds, Inside
<1>8. \A v \in Workers : Holds(v) => ff[v].fiber \in Fibers
  BY DEF HeldState, Task
<1>9. \A h, k \in Fibers : WillWake(h, k)' <=> WillWake(h, k) /\ h # g
  BY <1>1, <1>5 DEF WillWake
<1>11. CoreTypes'
  <2>1. f \notin events
    BY <1>2, <1>3 DEF ArmedByOne
  <2> QED BY <1>1, <1>4, <1>5, <2>1 DEF CoreTypes
<1>12. HeldState'
  BY <1>1, <1>5, <1>7, <1>8 DEF HeldState, Holds, Inside
<1>13. InsideApart'
  BY <1>1, <1>5, <1>7 DEF InsideApart, Holds, Inside
<1>14. SleeperCallables'
  BY <1>1, <1>5, <1>7, <1>8 DEF SleeperCallables, Holds, Inside
<1>15. QueuedState'
  <2> SUFFICES ASSUME NEW i \in DOMAIN tasks'
      PROVE state'[tasks'[i].fiber] \in IF tasks'[i].kind = "cb" THEN {"FUNC"}
                                        ELSE {"INIT", "HOLD", "EXEC", "READY", "TERM"}
    BY DEF QueuedState
  <2>1. CASE i \in DOMAIN tasks /\ tasks'[i] = tasks[i]
    BY <2>1, <1>2, <1>5, ListTyped DEF QueuedState, CoreTypes
  <2>2. CASE tasks'[i] = FiberTask(f)
    BY <2>2, <1>2, <1>3, <1>4, <1>5 DEF FiberTask
  <2> QED BY <2>1, <2>2, <1>4
<1>16. OneWakeUp'
  <2>1. \A v \in Workers : pc'[v] = "taken" => ~Outstanding(ff[v].fiber)'
    BY <1>1, <1>4, <1>5 DEF OneWakeUp, Outstanding
  <2>2. \A h \in armed' : ~Queued(h)' /\ state'[h] \in {"HOLD", "EXEC", "TERM"}
    BY <1>1, <1>4, <1>5, <1>6 DEF OneWakeUp, CoreTypes
  <2>3. \A u, v \in Workers : u # v /\ pc'[u] = "taken" /\ pc'[v] = "taken" => ff'[u].fiber # ff'[v].fiber
    BY <1>1, <1>5 DEF OneWakeUp
  <2> QED BY <2>1, <2>2, <2>3, <1>1, <1>4 DEF OneWakeUp
<1>17. ArmedByOne'
  <2>1. \A h \in armed' : state'[h] \in {"HOLD", "EXEC"} /\ wakes'[h] = NoFiber
    BY <1>1, <1>5, <1>6 DEF ArmedByOne, CoreTypes
  <2>2. \A h \in Fibers : h \in armed' <=> h \in events' \/ \E k \in Fibers : WillWake(k, h)'
    <3> TAKE h \in Fibers
    <3>1. CASE h = f
      BY <3>1, <1>1, <1>2, <1>3, <1>9 DEF ArmedByOne
    <3>2. CASE h # f
      <4>1. ~WillWake(g, h)
        BY <3>2 DEF WillWake, f
      <4> QED BY <3>2, <4>1, <1>1, <1>9 DEF ArmedByOne
    <3> QED BY <3>1, <3>2
  <2>3. events \subseteq Fibers
    BY DEF CoreTypes
  <2>4. \A h \in events' : \A k \in Fibers : ~WillWake(k, h)'
    BY <2>3, <1>1, <1>9 DEF ArmedByOne
  <2>5. \A h, k, l \in Fibers : WillWake(k, h)' /\ WillWake(l, h)' => k = l
    BY <1>9 DEF ArmedByOne
  <2> QED BY <2>1, <2>2, <2>4, <2>5 DEF ArmedByOne
<1>18. CallablesApart'
  <2>1. \A h \in Fibers : Untouched(h) => Untouched(h)'
    BY <1>1, <1>2, <1>3, <1>4, <1>5 DEF Untouched, TakenBy
  <2> QED BY <2>1, <1>1, <1>5 DEF CallablesApart, CoreTypes
<1>19. CallablesKept'
  BY <1>1, <1>4, <1>5 DEF CallablesKept, TakenBy
<1> QED BY <1>11, <1>12, <1>13, <1>14, <1>15, <1>16, <1>17, <1>18, <1>19

\* A timer is set for a callable nobody has submitted yet: one the owner
\* chose, or one that will schedule the fiber that goes to sleep.
LEMMA AddTimerCore ==
  ASSUME CoreInv, NEW g \in Fibers, NEW f \in Fibers \cup {NoFiber},
         state[g] = "NONE",
         timers' = timers \cup {g},
         wakes' = [wakes EXCEPT ![g] = f],
         state' = [state EXCEPT ![g] = "FUNC"],
         IF f = NoFiber THEN armed' = armed
         ELSE /\ armed' = armed \cup {f}
              /\ f \notin armed /\ ~Queued(f) /\ state[f] = "EXEC" /\ wakes[f] = NoFiber
              /\ \A w \in Workers : pc[w] = "taken" => ff[w].fiber # f,
         UNCHANGED <<tasks, pc, ff, events, cbs>>
  PROVE  CoreInv'
<1> USE DEF CoreInv
<1>1. /\ ~Queued(g) /\ g \notin armed /\ g \notin timers /\ wakes[g] = NoFiber
      /\ \A w \in Workers : g \notin cbs[w] /\ (Holds(w) => ff[w].fiber # g)
      /\ \A h \in Fibers : ~WillWake(h, g)
  BY FreshIsNowhere
<1>2. /\ state' \in [Fibers -> FiberState \ {"READY"}]
      /\ \A h \in Fibers : h # g => state'[h] = state[h] /\ wakes'[h] = wakes[h]
      /\ state'[g] = "FUNC" /\ wakes'[g] = f
      /\ wakes' \in [Fibers -> Fibers \cup {NoFiber}]
  BY DEF CoreTypes, FiberState
<1>3. \A w \in Workers : Holds(w) => ff[w].fiber \in Fibers /\ ff[w].fiber # g
  BY <1>1 DEF HeldState, Task
<1>4. \A i \in DOMAIN tasks : tasks[i].fiber \in Fibers /\ tasks[i].fiber # g
  BY <1>1, ListTyped DEF CoreTypes, Queued
<1>5. f # g
  BY NoFiberAssumption
<1>6. \A h, k \in Fibers : WillWake(h, k)' <=> WillWake(h, k) \/ (h = g /\ k = f)
  <2> TAKE h, k \in Fibers
  <2>1. CASE h = g
    BY <2>1, <1>1, <1>2, NoFiberAssumption DEF WillWake
  <2>2. CASE h # g
    BY <2>2, <1>2 DEF WillWake
  <2> QED BY <2>1, <2>2
<1>11. CoreTypes'
  <2>1. timers' \subseteq Fibers /\ IsFiniteSet(timers')
    BY FS_AddElement DEF CoreTypes
  <2>2. armed' \subseteq Fibers /\ events \subseteq armed'
    BY DEF CoreTypes
  <2> QED BY <1>2, <2>1, <2>2 DEF CoreTypes
<1>12. HeldState' /\ InsideApart'
  BY <1>2, <1>3 DEF HeldState, InsideApart, Holds, Inside
<1>13. QueuedState'
  BY <1>2, <1>4 DEF QueuedState
<1>14. OneWakeUp'
  <2>1. \A h \in armed' : h \in Fibers /\ ~Queued(h)' /\ state'[h] \in {"HOLD", "EXEC", "TERM"}
    BY <1>1, <1>2, <1>5 DEF OneWakeUp, CoreTypes, Queued
  <2>2. \A w \in Workers : pc[w] = "taken" => ~Outstanding(ff[w].fiber)'
    BY <1>1 DEF OneWakeUp, Outstanding, Queued
  <2> QED BY <2>1, <2>2 DEF OneWakeUp
<1>15. SleeperCallables'
  BY <1>2, <1>3 DEF SleeperCallables, Holds, Inside
<1>16. ArmedByOne'
  <2>1. \A h \in armed' : state'[h] \in {"HOLD", "EXEC"} /\ wakes'[h] = NoFiber
    BY <1>1, <1>2, <1>5 DEF ArmedByOne, CoreTypes
  <2>2. CASE f = NoFiber
    <3>1. \A h, k \in Fibers : WillWake(h, k)' <=> WillWake(h, k)
      BY <1>6, <2>2, NoFiberAssumption
    <3>2. events \subseteq Fibers
      BY DEF CoreTypes
    <3> QED BY <2>1, <2>2, <3>1, <3>2 DEF ArmedByOne
  <2>3. CASE f # NoFiber
    <3>1. f \in Fibers /\ f \notin armed /\ armed' = armed \cup {f} /\ events \subseteq armed /\ events \subseteq Fibers
      BY <2>3 DEF CoreTypes
    <3>2. \A h \in Fibers : ~WillWake(h, f)
      BY <3>1 DEF ArmedByOne
    <3>3. \A h \in Fibers : h \in armed' <=> h \in events' \/ \E k \in Fibers : WillWake(k, h)'
      BY <3>1, <1>6 DEF ArmedByOne
    <3>4. \A h \in events' : \A k \in Fibers : ~WillWake(k, h)'
      BY <3>1, <1>6 DEF ArmedByOne
    <3>5. \A h, k, l \in Fibers : WillWake(k, h)' /\ WillWake(l, h)' => k = l
      BY <3>2, <1>6 DEF ArmedByOne
    <3> QED BY <2>1, <3>3, <3>4, <3>5 DEF ArmedByOne
  <2> QED BY <2>2, <2>3
<1>17. CallablesApart'
  <2>1. \A h \in Fibers : Untouched(h) => Untouched(h)'
    BY <1>2 DEF Untouched, Queued, TakenBy
  <2>2. Untouched(g)'
    BY <1>1, <1>2 DEF Untouched, Queued, TakenBy, Holds
  <2> QED BY <2>1, <2>2, <1>1 DEF CallablesApart, CoreTypes
<1>18. CallablesKept'
  BY <1>2 DEF CallablesKept, Queued, TakenBy
<1> QED BY <1>11, <1>12, <1>13, <1>14, <1>15, <1>16, <1>17, <1>18

\* addTimer() by the owner.
LEMMA OwnerAddTimerCore ==
  ASSUME CoreInv, NEW g \in Fibers, OwnerAddTimer(g)
  PROVE  CoreInv'
BY AddTimerCore DEF OwnerAddTimer, AddTimer, SetState, workVars, eventVars

\* The fiber a worker executes has a state and no wake-up of its own going on.
LEMMA RunningFiber ==
  ASSUME CoreInv, NEW w \in Workers, pc[w] = "exec"
  PROVE  /\ ff[w] \in Task /\ ff[w].fiber \in Fibers /\ state[ff[w].fiber] = "EXEC"
         /\ \A v \in Workers : pc[v] = "taken" => ff[v].fiber # ff[w].fiber
         /\ \A v \in Workers : v # w /\ Holds(v) => ff[v].fiber # ff[w].fiber
         /\ ff[w].fiber \notin timers /\ \A v \in Workers : ff[w].fiber \notin cbs[v]
<1> USE DEF CoreInv
<1>1. ff[w] \in Task /\ ff[w].fiber \in Fibers /\ state[ff[w].fiber] = "EXEC"
  BY DEF HeldState, Holds, Inside, Task
<1>2. \A v \in Workers : pc[v] = "taken" => ff[v].fiber # ff[w].fiber
  BY <1>1 DEF HeldState
<1>3. \A v \in Workers : v # w /\ Holds(v) => ff[v].fiber # ff[w].fiber
  BY <1>2 DEF InsideApart, Holds, Inside
<1>4. ff[w].fiber \notin timers /\ \A v \in Workers : ff[w].fiber \notin cbs[v]
  BY <1>1 DEF CallablesApart, Untouched
<1> QED BY <1>1, <1>2, <1>3, <1>4

\* sleep().
LEMMA SleepCore ==
  ASSUME CoreInv, NEW w \in Workers, NEW g \in Fibers, Sleep(w, g)
  PROVE  CoreInv'
<1> DEFINE f == ff[w].fiber
<1>1. /\ pc[w] = "exec" /\ wakes[f] = NoFiber /\ ~Outstanding(f)
      /\ armed' = armed \cup {f}
      /\ state[g] = "NONE" /\ timers' = timers \cup {g} /\ wakes' = [wakes EXCEPT ![g] = f]
      /\ state' = [state EXCEPT ![g] = "FUNC"]
      /\ UNCHANGED <<tasks, pc, ff, events, cbs>>
  BY DEF Sleep, Application, InApplication, AddTimer, SetState, workVars, eventVars
<1>2. /\ f \in Fibers /\ state[f] = "EXEC" /\ f # NoFiber
      /\ \A v \in Workers : pc[v] = "taken" => ff[v].fiber # f
  BY <1>1, RunningFiber, NoFiberAssumption
<1> HIDE DEF f
<1> QED BY <1>1, <1>2, AddTimerCore DEF Outstanding

\* addEvent() of the running fiber.
LEMMA AddEventCore ==
  ASSUME CoreInv, NEW w \in Workers, AddEvent(w)
  PROVE  CoreInv'
<1> DEFINE f == ff[w].fiber
<1> USE DEF CoreInv
<1>1. /\ pc[w] = "exec" /\ wakes[f] = NoFiber /\ ~Outstanding(f)
      /\ armed' = armed \cup {f} /\ events' = events \cup {f}
      /\ UNCHANGED <<tasks, state, pc, ff, wakes, timers, cbs>>
  BY DEF AddEvent, Application, InApplication, Arm, workVars, timerVars
<1>2. /\ f \in Fibers /\ state[f] = "EXEC"
      /\ \A v \in Workers : pc[v] = "taken" => ff[v].fiber # f
  BY <1>1, RunningFiber
<1>3. f \notin armed /\ ~Queued(f) /\ \A h \in Fibers : ~WillWake(h, f)
  BY <1>1, <1>2 DEF Outstanding, ArmedByOne
<1> HIDE DEF f
<1>4. CoreTypes'
  BY <1>1, <1>2 DEF CoreTypes
<1>5. HeldState' /\ InsideApart' /\ QueuedState' /\ SleeperCallables'
  BY <1>1 DEF HeldState, InsideApart, QueuedState, SleeperCallables, Holds, Inside
<1>6. OneWakeUp'
  BY <1>1, <1>2, <1>3 DEF OneWakeUp, Outstanding, Queued
<1>7. ArmedByOne'
  BY <1>1, <1>2, <1>3 DEF ArmedByOne, WillWake
<1>8. CallablesApart' /\ CallablesKept'
  BY <1>1 DEF CallablesApart, CallablesKept, Untouched, Queued, TakenBy
<1> QED BY <1>4, <1>5, <1>6, <1>7, <1>8

\* delEvent() of an fd in error: the waiter's reset() cannot but fail.
LEMMA HangUpCore ==
  ASSUME CoreInv, NEW w \in Workers, NEW f \in Fibers, HangUp(w, f)
  PROVE  CoreInv' /\ mpc' = "aborted"
<1> USE DEF CoreInv
<1>1. /\ f \in events /\ f \in armed /\ state[f] \in {"HOLD", "EXEC"}
      /\ events' = events \ {f} /\ armed' = armed \ {f}
      /\ mpc' = "aborted"
      /\ UNCHANGED <<tasks, state, pc, ff, wakes, timers, cbs>>
  BY DEF HangUp, CoreTypes, ArmedByOne, workVars, timerVars
<1>2. CoreTypes'
  BY <1>1 DEF CoreTypes
<1>3. HeldState' /\ InsideApart' /\ QueuedState' /\ SleeperCallables'
  BY <1>1 DEF HeldState, InsideApart, QueuedState, SleeperCallables, Holds, Inside
<1>4. OneWakeUp' /\ ArmedByOne'
  BY <1>1 DEF OneWakeUp, Outstanding, Queued, ArmedByOne, WillWake
<1>5. CallablesApart' /\ CallablesKept'
  BY <1>1 DEF CallablesApart, CallablesKept, Untouched, Queued, TakenBy
<1> QED BY <1>1, <1>2, <1>3, <1>4, <1>5

\* The due timers go into the batch of the worker.
LEMMA ExpireCore ==
  ASSUME CoreInv, NEW w \in Workers, Expire(w)
  PROVE  CoreInv'
<1> USE DEF CoreInv
<1>1. PICK due \in SUBSET timers : timers' = timers \ due /\ cbs' = [cbs EXCEPT ![w] = due]
  BY DEF Expire
<1>2. /\ pc[w] = "fire" /\ pc' = [pc EXCEPT ![w] = "cbs"]
      /\ UNCHANGED <<tasks, state, armed, ff, wakes, events>>
  BY DEF Expire, IdleAt, Goto, eventVars
<1>3. /\ \A v \in Workers : v # w => pc'[v] = pc[v] /\ cbs'[v] = cbs[v]
      /\ pc'[w] = "cbs" /\ pc' \in [Workers -> IOPoint]
      /\ cbs'[w] = due /\ cbs' \in [Workers -> SUBSET Fibers] /\ cbs[w] = {}
  BY <1>1, <1>2 DEF CoreTypes, IOPoint, CallablesApart
<1>4. CoreTypes'
  BY <1>1, <1>2, <1>3, FS_Subset DEF CoreTypes
<1>5. HeldState' /\ InsideApart' /\ SleeperCallables'
  BY <1>2, <1>3 DEF HeldState, InsideApart, SleeperCallables, Holds, Inside
<1>6. QueuedState' /\ OneWakeUp' /\ ArmedByOne'
  BY <1>2, <1>3 DEF QueuedState, OneWakeUp, Outstanding, Queued, ArmedByOne, WillWake
<1>7. \A h \in Fibers : Untouched(h) => Untouched(h)'
  BY <1>2, <1>3 DEF Untouched, Queued, TakenBy
<1>8. CallablesApart'
  BY <1>1, <1>3, <1>7 DEF CallablesApart, CoreTypes
<1>9. CallablesKept'
  BY <1>1, <1>2, <1>3 DEF CallablesKept, Queued, TakenBy
<1> QED BY <1>4, <1>5, <1>6, <1>8, <1>9

\* A sequence of all elements of a finite set has each of them once.
LEMMA OrderOfSet ==
  ASSUME NEW S, IsFiniteSet(S), NEW order \in SetToSeqs(S)
  PROVE  /\ Cardinality(S) \in Nat
         /\ order \in Seq(S) /\ DOMAIN order = 1..Cardinality(S)
         /\ \A i \in DOMAIN order : order[i] \in S
         /\ \A i, j \in DOMAIN order : order[i] = order[j] => i = j
         /\ \A x \in S : \E i \in DOMAIN order : order[i] = x
<1> DEFINE D == 1..Cardinality(S)
<1>1. Cardinality(S) \in Nat
  BY FS_CardinalityType
<1>2. order \in [D -> S] /\ \A i, j \in D : i # j => order[i] # order[j]
  BY DEF SetToSeqs
<1>3. order \in Seq(S)
  BY <1>1, <1>2 DEF Seq
<1>4. ASSUME NEW x \in S, \A i \in D : order[i] # x
      PROVE  FALSE
  <2>1. order \in [D -> S \ {x}]
    BY <1>2, <1>4
  <2>2. IsFiniteSet(S \ {x}) /\ Cardinality(S \ {x}) = Cardinality(S) - 1
    BY FS_RemoveElement
  <2>3. IsFiniteSet(D) /\ Cardinality(D) = Cardinality(S)
    <3>1. /\ IsFiniteSet(1..Cardinality(S))
          /\ Cardinality(1..Cardinality(S)) = IF 1 > Cardinality(S) THEN 0 ELSE Cardinality(S) - 1 + 1
      BY <1>1, FS_Interval
    <3> QED BY <3>1, <1>1
  <2>4. Cardinality(S \ {x}) < Cardinality(D)
    BY <2>2, <2>3, <1>1
  <2> HIDE DEF D
  <2>5. \E i, j \in D : i # j /\ order[i] = order[j]
    BY <2>1, <2>2, <2>3, <2>4, FS_PigeonHole
  <2> QED BY <2>5, <1>2
<1> QED BY <1>1, <1>2, <1>3, <1>4

\* The batch goes to the list, whatever the order of its callables.
LEMMA ScheduleCbsCore ==
  ASSUME CoreInv, NEW w \in Workers, ScheduleCbs(w)
  PROVE  CoreInv'
<1> DEFINE S == cbs[w]
           n == Cardinality(S)
           m == Len(tasks)
<1> USE DEF CoreInv
<1>1. PICK order \in SetToSeqs(S) : tasks' = tasks \o [i \in DOMAIN order |-> CbTask(order[i])]
  BY DEF ScheduleCbs
<1>2. /\ pc[w] = "cbs" /\ pc' = [pc EXCEPT ![w] = "ev"]
      /\ cbs' = [cbs EXCEPT ![w] = {}]
      /\ UNCHANGED <<state, armed, ff, wakes, events, timers>>
  BY DEF ScheduleCbs, IdleAt, Goto, eventVars
<1>3. /\ \A v \in Workers : v # w => pc'[v] = pc[v] /\ cbs'[v] = cbs[v]
      /\ pc'[w] = "ev" /\ pc' \in [Workers -> IOPoint]
      /\ cbs'[w] = {} /\ cbs' \in [Workers -> SUBSET Fibers]
      /\ \A v \in Workers : IsFiniteSet(cbs'[v])
  BY <1>2, FS_EmptySet DEF CoreTypes, IOPoint
<1>4. S \subseteq Fibers /\ IsFiniteSet(S)
  BY DEF CoreTypes
<1>5. \A g \in S : state[g] = "FUNC" /\ ~Queued(g) /\ \A v \in Workers : ~TakenBy(v, g)
  BY DEF CallablesApart, Untouched
<1>6. /\ n \in Nat /\ DOMAIN order = 1..n
      /\ \A i \in 1..n : order[i] \in S
      /\ \A i, j \in 1..n : order[i] = order[j] => i = j
      /\ \A g \in S : \E i \in 1..n : order[i] = g
  BY <1>4, OrderOfSet
<1>7. /\ m \in Nat /\ DOMAIN tasks = 1..m /\ tasks \in Seq(Task)
      /\ \A i \in 1..m : tasks[i] \in Task /\ tasks[i].fiber \in Fibers
  BY ListTyped, LenProperties DEF CoreTypes
<1> DEFINE b == [i \in 1..n |-> CbTask(order[i])]
<1>8. b \in Seq(Task) /\ Len(b) = n /\ \A i \in 1..n : b[i] = CbTask(order[i])
  <2>1. b \in [1..n -> Task]
    BY <1>4, <1>6 DEF CbTask, Task
  <2>2. b \in Seq(Task)
    BY <2>1, <1>6 DEF Seq
  <2> QED BY <2>1, <2>2, <1>6, LenProperties
<1>9. tasks' = tasks \o b
  BY <1>1, <1>6
<1> HIDE DEF b, n, m, S
<1>10. /\ tasks' \in Seq(Task) /\ DOMAIN tasks' = 1..(m + n)
       /\ \A i \in 1..(m + n) : tasks'[i] = IF i <= m THEN tasks[i] ELSE CbTask(order[i - m])
  <2>1. /\ tasks' \in Seq(Task) /\ Len(tasks') = m + n
        /\ \A i \in 1..(m + n) : tasks'[i] = IF i <= m THEN tasks[i] ELSE b[i - m]
    BY <1>7, <1>8, <1>9, ConcatProperties DEF m
  <2>2. \A i \in 1..(m + n) : ~(i <= m) => i - m \in 1..n
    BY <1>6, <1>7
  <2> QED BY <2>1, <2>2, <1>8, LenProperties
<1>11. \A i \in 1..(m + n) : \/ i \in 1..m /\ tasks'[i] = tasks[i]
                             \/ i - m \in 1..n /\ tasks'[i] = CbTask(order[i - m])
  BY <1>6, <1>7, <1>10
<1>12. \A f : Queued(f)' <=> Queued(f) \/ f \in S
  <2> TAKE f
  <2>1. Queued(f)' => Queued(f) \/ f \in S
    BY <1>6, <1>7, <1>10, <1>11 DEF Queued, CbTask
  <2>2. Queued(f) => Queued(f)'
    <3>1. \A i \in 1..m : i \in 1..(m + n) /\ tasks'[i] = tasks[i]
      BY <1>6, <1>7, <1>10
    <3> QED BY <3>1, <1>7, <1>10 DEF Queued
  <2>3. ASSUME f \in S PROVE Queued(f)'
    <3>1. PICK i \in 1..n : order[i] = f
      BY <2>3, <1>6
    <3>2. m + i \in 1..(m + n) /\ ~(m + i <= m) /\ (m + i) - m = i
      BY <1>6, <1>7
    <3>3. tasks'[m + i] = CbTask(f)
      BY <3>1, <3>2, <1>10
    <3> QED BY <3>2, <3>3, <1>10 DEF Queued, CbTask
  <2> QED BY <2>1, <2>2, <2>3
<1>21. CoreTypes'
  BY <1>2, <1>3, <1>10 DEF CoreTypes
<1>22. HeldState' /\ InsideApart' /\ SleeperCallables'
  BY <1>2, <1>3 DEF HeldState, InsideApart, SleeperCallables, Holds, Inside
<1>23. QueuedState'
  <2> SUFFICES ASSUME NEW i \in DOMAIN tasks'
      PROVE state[tasks'[i].fiber] \in IF tasks'[i].kind = "cb" THEN {"FUNC"}
                                       ELSE {"INIT", "HOLD", "EXEC", "READY", "TERM"}
    BY <1>2 DEF QueuedState
  <2>1. CASE i \in 1..m /\ tasks'[i] = tasks[i]
    BY <2>1, <1>7 DEF QueuedState
  <2>2. CASE i - m \in 1..n /\ tasks'[i] = CbTask(order[i - m])
    BY <2>2, <1>5, <1>6 DEF CbTask
  <2> QED BY <2>1, <2>2, <1>10, <1>11
<1>24. OneWakeUp'
  <2>1. \A i, j \in DOMAIN tasks' : tasks'[i].fiber = tasks'[j].fiber => i = j
    <3> SUFFICES ASSUME NEW i \in 1..(m + n), NEW j \in 1..(m + n), tasks'[i].fiber = tasks'[j].fiber
        PROVE i = j
      BY <1>10
    <3>1. CASE i \in 1..m /\ tasks'[i] = tasks[i] /\ j \in 1..m /\ tasks'[j] = tasks[j]
      BY <3>1, <1>7 DEF OneWakeUp
    <3>2. CASE /\ i - m \in 1..n /\ tasks'[i] = CbTask(order[i - m])
               /\ j - m \in 1..n /\ tasks'[j] = CbTask(order[j - m])
      <4>1. i - m = j - m
        BY <3>2, <1>6 DEF CbTask
      <4> QED BY <4>1, <1>6, <1>7
    <3>3. ASSUME NEW k \in 1..m, NEW l \in 1..n PROVE tasks[k].fiber # CbTask(order[l]).fiber
      BY <1>5, <1>6, <1>7 DEF Queued, CbTask
    <3> QED BY <3>1, <3>2, <3>3, <1>11
  <2>2. \A v \in Workers : pc'[v] = "taken" => ~Outstanding(ff[v].fiber)'
    BY <1>2, <1>3, <1>5, <1>12 DEF OneWakeUp, Outstanding, TakenBy
  <2>3. \A f \in armed : ~Queued(f)' /\ state[f] \in {"HOLD", "EXEC", "TERM"}
    BY <1>5, <1>12 DEF OneWakeUp
  <2> QED BY <2>1, <2>2, <2>3, <1>2, <1>3 DEF OneWakeUp
<1>25. ArmedByOne'
  BY <1>2 DEF ArmedByOne, WillWake
<1>26. CallablesApart'
  <2>1. \A g \in Fibers : Untouched(g) /\ g \notin S => Untouched(g)'
    BY <1>2, <1>3, <1>12 DEF Untouched, TakenBy
  <2>2. \A g \in timers : g \notin S
    BY DEF CallablesApart, S
  <2>3. \A v \in Workers : v # w => \A g \in cbs[v] : g \notin S
    BY DEF CallablesApart, S
  <2> QED BY <2>1, <2>2, <2>3, <1>2, <1>3 DEF CallablesApart, CoreTypes
<1>27. CallablesKept'
  BY <1>2, <1>3, <1>12 DEF CallablesKept, TakenBy, S
<1> QED BY <1>21, <1>22, <1>23, <1>24, <1>25, <1>26, <1>27

\* A worker takes the first task it may; it is nobody else's.
LEMMA TakeCore ==
  ASSUME CoreInv, NEW w \in Workers, Take(w), UNCHANGED ioVars
  PROVE  CoreInv'
<1> USE DEF CoreInv
<1>1. PICK i \in DOMAIN tasks : /\ Takable(tasks[i])
                                /\ ff' = [ff EXCEPT ![w] = tasks[i]]
                                /\ tasks' = RemoveAt(tasks, i)
  BY DEF Take
<1> DEFINE t == tasks[i]
<1>2. /\ pc[w] = "loop" /\ pc' = [pc EXCEPT ![w] = "taken"]
      /\ UNCHANGED <<state, armed, wakes, events, timers, cbs>>
  BY DEF Take, Goto, fiberVars, ioVars
<1>3. t \in Task /\ t.fiber \in Fibers /\ Queued(t.fiber)
  BY ListTyped DEF CoreTypes, Queued
<1>4. /\ tasks' \in Seq(Task)
      /\ \A j \in DOMAIN tasks' : \E k \in DOMAIN tasks : k # i /\ tasks'[j] = tasks[k]
      /\ \A j, k \in DOMAIN tasks' : tasks'[j].fiber = tasks'[k].fiber => j = k
      /\ \A f : Queued(f)' <=> Queued(f) /\ f # t.fiber
  BY <1>1, RemoveFromList DEF CoreTypes
<1>5. /\ \A v \in Workers : v # w => pc'[v] = pc[v] /\ ff'[v] = ff[v]
      /\ pc'[w] = "taken" /\ ff'[w] = t
      /\ pc' \in [Workers -> IOPoint] /\ ff' \in [Workers -> Task \cup {NoTask}]
  BY <1>1, <1>2, <1>3 DEF CoreTypes, IOPoint, Point
<1>6. /\ t.kind = "cb" => state[t.fiber] = "FUNC"
      /\ t.kind = "fiber" => state[t.fiber] \in {"INIT", "HOLD", "TERM"}
      /\ t.kind \in {"cb", "fiber"}
  BY <1>1, <1>3 DEF QueuedState, Takable, CoreTypes, Task
<1>7. t.fiber \notin armed /\ \A v \in Workers : pc[v] = "taken" => ff[v].fiber # t.fiber
  BY <1>3 DEF OneWakeUp, Outstanding
<1> HIDE DEF t
<1>11. CoreTypes'
  BY <1>2, <1>4, <1>5 DEF CoreTypes
<1>12. HeldState' /\ InsideApart' /\ SleeperCallables'
  BY <1>2, <1>3, <1>5, <1>6 DEF HeldState, InsideApart, SleeperCallables, Holds, Inside
<1>13. QueuedState'
  BY <1>2, <1>4 DEF QueuedState
<1>14. OneWakeUp'
  BY <1>2, <1>4, <1>5, <1>7 DEF OneWakeUp, Outstanding
<1>15. ArmedByOne'
  BY <1>2 DEF ArmedByOne, WillWake
<1>16. CallablesApart'
  <2>1. \A g \in Fibers : Untouched(g) => Untouched(g)'
    BY <1>2, <1>3, <1>4, <1>5 DEF Untouched, TakenBy
  <2> QED BY <2>1, <1>2, <1>5 DEF CallablesApart, CoreTypes
<1>17. CallablesKept'
  BY <1>2, <1>4, <1>5 DEF CallablesKept, TakenBy
<1> QED BY <1>11, <1>12, <1>13, <1>14, <1>15, <1>16, <1>17

\* A callable or a fiber is swapped in.
LEMMA SwapInCore ==
  ASSUME CoreInv, NEW w \in Workers, SwapIn(w), UNCHANGED ioVars
  PROVE  CoreInv'
<1> DEFINE f == ff[w].fiber
<1> USE DEF CoreInv
<1>1. /\ pc[w] = "taken" /\ pc' = [pc EXCEPT ![w] = "exec"]
      /\ state[f] # "TERM" /\ state' = [state EXCEPT ![f] = "EXEC"]
      /\ UNCHANGED <<tasks, armed, ff, wakes, events, timers, cbs>>
  BY DEF SwapIn, Goto, SetState, ioVars
<1>2. /\ f \in Fibers /\ state[f] \in {"FUNC", "INIT", "HOLD"}
      /\ f \notin armed /\ ~Queued(f)
      /\ \A v \in Workers : v # w => ~TakenBy(v, f)
  BY <1>1 DEF CoreTypes, HeldState, Holds, Task, OneWakeUp, Outstanding, TakenBy
<1>3. /\ \A v \in Workers : v # w => pc'[v] = pc[v]
      /\ pc'[w] = "exec" /\ pc' \in [Workers -> IOPoint]
      /\ state' \in [Fibers -> FiberState \ {"READY"}]
      /\ \A h \in Fibers : h # f => state'[h] = state[h]
      /\ state'[f] = "EXEC"
  BY <1>1, <1>2 DEF CoreTypes, IOPoint, Point, FiberState
<1>4. \A v \in Workers : v # w /\ Inside(v) =>
        ff[v].fiber \in Fibers /\ (ff[v].fiber = f => state[f] = "TERM")
  BY <1>2 DEF HeldState, Holds, Inside, Task, CoreTypes
<1>5. \A v \in Workers : v # w /\ Holds(v) => ff[v].fiber # f /\ ff[v].fiber \in Fibers
  BY <1>1, <1>2, <1>4 DEF Holds, TakenBy, HeldState, Task
<1>6. f \notin timers /\ \A v \in Workers : f \notin cbs[v]
  BY <1>1 DEF CallablesApart, Untouched, TakenBy
<1>7. wakes[f] # NoFiber => state[f] = "FUNC"
  BY <1>2 DEF SleeperCallables
<1>8. \A g, h \in Fibers : WillWake(g, h)' <=> WillWake(g, h)
  <2> TAKE g, h \in Fibers
  <2>1. CASE g = f
    BY <2>1, <1>1, <1>3, <1>7, NoFiberAssumption DEF WillWake
  <2>2. CASE g # f
    BY <2>2, <1>1, <1>3 DEF WillWake
  <2> QED BY <2>1, <2>2
<1>9. \A i \in DOMAIN tasks : tasks[i].fiber \in Fibers /\ tasks[i].fiber # f
  BY <1>2, ListTyped DEF CoreTypes, Queued
<1> HIDE DEF f
<1>11. CoreTypes'
  BY <1>1, <1>3 DEF CoreTypes
<1>12. HeldState' /\ InsideApart' /\ SleeperCallables'
  BY <1>1, <1>3, <1>5 DEF HeldState, InsideApart, SleeperCallables, Holds, Inside, f
<1>13. QueuedState'
  BY <1>1, <1>3, <1>9 DEF QueuedState
<1>14. OneWakeUp'
  BY <1>1, <1>2, <1>3, <1>5 DEF OneWakeUp, Outstanding, Queued, CoreTypes
<1>15. ArmedByOne'
  BY <1>1, <1>2, <1>3, <1>8 DEF ArmedByOne, CoreTypes
<1>16. CallablesApart'
  <2>1. \A g \in Fibers : Untouched(g) /\ g # f => Untouched(g)'
    BY <1>1, <1>3 DEF Untouched, Queued, TakenBy
  <2> QED BY <2>1, <1>1, <1>3, <1>6 DEF CallablesApart, CoreTypes
<1>17. CallablesKept'
  BY <1>1, <1>3 DEF CallablesKept, Queued, TakenBy, f
<1> QED BY <1>11, <1>12, <1>13, <1>14, <1>15, <1>16, <1>17

\* The wake-up of a fiber that has ended is dropped.
LEMMA DropCore ==
  ASSUME CoreInv, NEW w \in Workers, Drop(w), UNCHANGED ioVars
  PROVE  CoreInv'
<1> USE DEF CoreInv
<1>1. /\ pc[w] = "taken" /\ pc' = [pc EXCEPT ![w] = "loop"]
      /\ state[ff[w].fiber] = "TERM" /\ ff' = [ff EXCEPT ![w] = NoTask]
      /\ UNCHANGED <<tasks, state, armed, wakes, events, timers, cbs>>
  BY DEF Drop, Goto, fiberVars, ioVars
<1>2. /\ \A v \in Workers : v # w => pc'[v] = pc[v] /\ ff'[v] = ff[v]
      /\ pc'[w] = "loop" /\ ff'[w] = NoTask
      /\ pc' \in [Workers -> IOPoint] /\ ff' \in [Workers -> Task \cup {NoTask}]
  BY <1>1 DEF CoreTypes, IOPoint, Point
<1>3. CoreTypes'
  BY <1>1, <1>2 DEF CoreTypes
<1>4. HeldState' /\ InsideApart' /\ SleeperCallables'
  BY <1>1, <1>2 DEF HeldState, InsideApart, SleeperCallables, Holds, Inside
<1>5. QueuedState' /\ OneWakeUp' /\ ArmedByOne'
  BY <1>1, <1>2 DEF QueuedState, OneWakeUp, Outstanding, Queued, ArmedByOne, WillWake
<1>6. CallablesApart' /\ CallablesKept'
  BY <1>1, <1>2 DEF CallablesApart, CallablesKept, Untouched, Queued, TakenBy
<1> QED BY <1>3, <1>4, <1>5, <1>6

\* The counter goes down behind swapIn().
LEMMA DecActiveCore ==
  ASSUME CoreInv, NEW w \in Workers, DecActive(w), UNCHANGED ioVars
  PROVE  CoreInv'
<1> USE DEF CoreInv
<1>1. /\ pc[w] = "back" /\ pc' = [pc EXCEPT ![w] = "ret"]
      /\ UNCHANGED <<tasks, state, armed, ff, wakes, events, timers, cbs>>
  BY DEF DecActive, Goto, fiberVars, ioVars
<1>2. /\ \A v \in Workers : v # w => pc'[v] = pc[v]
      /\ pc'[w] = "ret" /\ pc' \in [Workers -> IOPoint]
  BY <1>1 DEF CoreTypes, IOPoint, Point
<1>3. CoreTypes'
  BY <1>1, <1>2 DEF CoreTypes
<1>4. HeldState' /\ InsideApart' /\ SleeperCallables'
  BY <1>1, <1>2 DEF HeldState, InsideApart, SleeperCallables, Holds, Inside
<1>5. QueuedState' /\ OneWakeUp' /\ ArmedByOne'
  BY <1>1, <1>2 DEF QueuedState, OneWakeUp, Outstanding, Queued, ArmedByOne, WillWake
<1>6. CallablesApart' /\ CallablesKept'
  BY <1>1, <1>2 DEF CallablesApart, CallablesKept, Untouched, Queued, TakenBy
<1> QED BY <1>3, <1>4, <1>5, <1>6

\* The fiber that came back has ended or is suspended from here on.
LEMMA RetireCore ==
  ASSUME CoreInv, NEW w \in Workers, Retire(w), UNCHANGED ioVars
  PROVE  CoreInv'
<1> DEFINE f == ff[w].fiber
<1> USE DEF CoreInv
<1>1. /\ pc[w] = "ret" /\ pc' = [pc EXCEPT ![w] = "loop"]
      /\ ff' = [ff EXCEPT ![w] = NoTask]
      /\ UNCHANGED <<armed, wakes, events, timers, cbs>>
  BY DEF Retire, Goto, ioVars
<1>2. f \in Fibers /\ state[f] \in {"EXEC", "TERM"}
  BY <1>1 DEF CoreTypes, HeldState, Holds, Inside, Task
<1>3. tasks' = tasks /\ state' = IF state[f] = "TERM" THEN state ELSE [state EXCEPT ![f] = "HOLD"]
  BY <1>2 DEF Retire, Requeued, SetState
<1>4. /\ \A v \in Workers : v # w => pc'[v] = pc[v] /\ ff'[v] = ff[v]
      /\ pc'[w] = "loop" /\ ff'[w] = NoTask
      /\ pc' \in [Workers -> IOPoint] /\ ff' \in [Workers -> Task \cup {NoTask}]
      /\ state' \in [Fibers -> FiberState \ {"READY"}]
      /\ \A h \in Fibers : h # f => state'[h] = state[h]
      /\ state'[f] = IF state[f] = "TERM" THEN "TERM" ELSE "HOLD"
  BY <1>1, <1>2, <1>3 DEF CoreTypes, IOPoint, Point, FiberState
<1>5. \A v \in Workers : v # w /\ Inside(v) => ff[v].fiber # f /\ ff[v].fiber \in Fibers
  BY <1>1 DEF InsideApart, Inside, HeldState, Holds, Task
<1>6. \A v \in Workers : pc[v] = "taken" => ff[v].fiber \in Fibers /\ (ff[v].fiber = f => state[f] = "TERM")
  BY <1>2 DEF HeldState, Holds, Task
<1>7. wakes[f] # NoFiber => state[f] = "TERM"
  BY <1>1 DEF SleeperCallables
<1>8. \A g, h \in Fibers : WillWake(g, h)' <=> WillWake(g, h)
  <2> TAKE g, h \in Fibers
  <2>1. CASE g = f
    BY <2>1, <1>1, <1>2, <1>4, <1>7, NoFiberAssumption DEF WillWake
  <2>2. CASE g # f
    BY <2>2, <1>1, <1>4 DEF WillWake
  <2> QED BY <2>1, <2>2
<1>9. \A i \in DOMAIN tasks : tasks[i].fiber \in Fibers /\ tasks[i].kind \in {"cb", "fiber"}
  BY ListTyped DEF CoreTypes, Task
<1> HIDE DEF f
<1>11. CoreTypes'
  BY <1>1, <1>3, <1>4 DEF CoreTypes
<1>12. HeldState'
  <2>1. \A v \in Workers : v # w /\ pc[v] = "taken" => state'[ff[v].fiber] = state[ff[v].fiber]
    BY <1>4, <1>6
  <2>2. \A v \in Workers : v # w /\ Inside(v) => state'[ff[v].fiber] = state[ff[v].fiber]
    BY <1>4, <1>5
  <2> QED BY <2>1, <2>2, <1>4 DEF HeldState, Holds, Inside
<1>13. InsideApart' /\ SleeperCallables'
  BY <1>1, <1>4, <1>5, <1>7 DEF InsideApart, SleeperCallables, Inside
<1>14. QueuedState'
  BY <1>2, <1>3, <1>4, <1>9 DEF QueuedState
<1>15. OneWakeUp'
  BY <1>1, <1>3, <1>4 DEF OneWakeUp, Outstanding, Queued, CoreTypes
<1>16. ArmedByOne'
  BY <1>1, <1>2, <1>4, <1>8 DEF ArmedByOne, CoreTypes
<1>17. CallablesApart'
  <2>1. \A g \in Fibers : Untouched(g) => Untouched(g)'
    BY <1>1, <1>2, <1>3, <1>4 DEF Untouched, Queued, TakenBy
  <2> QED BY <2>1, <1>1, <1>4 DEF CallablesApart, CoreTypes
<1>18. CallablesKept'
  BY <1>1, <1>2, <1>3, <1>4 DEF CallablesKept, Queued, TakenBy
<1> QED BY <1>11, <1>12, <1>13, <1>14, <1>15, <1>16, <1>17, <1>18

\* A fiber suspends itself, or ends with no wake-up of its own going on.
LEMMA LeavesCore ==
  ASSUME CoreInv, NEW w \in Workers, Leaves(w)
  PROVE  CoreInv'
<1> DEFINE f == ff[w].fiber
<1> USE DEF CoreInv
<1>1. /\ pc[w] = "exec" /\ wakes[f] = NoFiber /\ pc' = [pc EXCEPT ![w] = "back"]
      /\ \/ state' = state
         \/ ~Outstanding(f) /\ state' = [state EXCEPT ![f] = "TERM"]
      /\ UNCHANGED <<tasks, armed, ff, wakes, events, timers, cbs>>
  BY DEF Leaves, InApplication, Application, Yield, Finish, Goto, SetState, fiberVars, ioVars
<1>2. /\ ff[w] \in Task /\ f \in Fibers /\ state[f] = "EXEC"
      /\ \A v \in Workers : v # w /\ Holds(v) => ff[v].fiber # f
      /\ f \notin timers /\ \A v \in Workers : f \notin cbs[v]
  BY <1>1, RunningFiber
<1>3. /\ \A v \in Workers : v # w => pc'[v] = pc[v]
      /\ pc'[w] = "back" /\ pc' \in [Workers -> IOPoint]
      /\ state' \in [Fibers -> FiberState \ {"READY"}]
      /\ \A h \in Fibers : h # f => state'[h] = state[h]
      /\ state'[f] \in {"EXEC", "TERM"}
      /\ Outstanding(f) => state'[f] = "EXEC"
  BY <1>1, <1>2 DEF CoreTypes, IOPoint, Point, FiberState
<1>4. \A v \in Workers : Holds(v) => ff[v].fiber \in Fibers
  BY DEF HeldState, Task
<1>5. \A g, h \in Fibers : WillWake(g, h)' <=> WillWake(g, h)
  <2> TAKE g, h \in Fibers
  <2>1. CASE g = f
    BY <2>1, <1>1, NoFiberAssumption DEF WillWake
  <2>2. CASE g # f
    BY <2>2, <1>1, <1>3 DEF WillWake
  <2> QED BY <2>1, <2>2
<1>6. \A i \in DOMAIN tasks : tasks[i].fiber \in Fibers /\ (tasks[i].fiber = f => Outstanding(f))
  BY ListTyped DEF CoreTypes, Queued, Outstanding
<1> HIDE DEF f
<1>11. CoreTypes'
  BY <1>1, <1>3 DEF CoreTypes
<1>12. HeldState' /\ InsideApart'
  BY <1>1, <1>2, <1>3, <1>4 DEF HeldState, InsideApart, Holds, Inside, f
<1>13. SleeperCallables'
  BY <1>1, <1>2, <1>3, <1>4 DEF SleeperCallables, Holds, Inside, f
<1>14. QueuedState'
  BY <1>1, <1>2, <1>3, <1>6 DEF QueuedState
<1>15. OneWakeUp'
  BY <1>1, <1>2, <1>3 DEF OneWakeUp, Outstanding, Queued, CoreTypes
<1>16. ArmedByOne'
  BY <1>1, <1>2, <1>3, <1>5 DEF ArmedByOne, CoreTypes, Outstanding
<1>17. CallablesApart'
  <2>1. \A g \in Fibers : Untouched(g) => Untouched(g)'
    BY <1>1, <1>2, <1>3 DEF Untouched, Queued, TakenBy
  <2> QED BY <2>1, <1>1, <1>3 DEF CallablesApart, CoreTypes
<1>18. CallablesKept'
  BY <1>1, <1>3 DEF CallablesKept, Queued, TakenBy
<1> QED BY <1>11, <1>12, <1>13, <1>14, <1>15, <1>16, <1>17, <1>18

\* A step of run().
LEMMA RunsCore ==
  ASSUME CoreInv, NEW w \in Workers, Runs(w)
  PROVE  CoreInv'
<1>1. UNCHANGED ioVars
  BY DEF Runs
<1>2. CASE Take(w)
  BY <1>1, <1>2, TakeCore
<1>3. CASE SwapIn(w)
  BY <1>1, <1>3, SwapInCore
<1>4. CASE Drop(w)
  BY <1>1, <1>4, DropCore
<1>5. CASE DecActive(w)
  BY <1>1, <1>5, DecActiveCore
<1>6. CASE Retire(w)
  BY <1>1, <1>6, RetireCore
<1>7. CASE TakeNothing(w) \/ Exit(w) \/ IdleIn(w) \/ IdleOut(w)
  <2>1. PICK q \in IOPoint \ HeldPoint : pc' = [pc EXCEPT ![w] = q]
    BY <1>7 DEF TakeNothing, Exit, IdleIn, IdleOut, Goto, IOPoint, Point, HeldPoint
  <2>2. ~Holds(w) /\ pc[w] # "cbs"
    BY <1>7, HoldsAt DEF TakeNothing, Exit, IdleIn, IdleOut, HeldPoint
  <2>3. UNCHANGED <<tasks, state, armed, ff, wakes, events, timers, cbs>>
    BY <1>1, <1>7 DEF TakeNothing, Exit, IdleIn, IdleOut, ioVars, fiberVars
  <2> QED BY <2>1, <2>2, <2>3, CoreMove
<1> QED BY <1>2, <1>3, <1>4, <1>5, <1>6, <1>7 DEF Runs, RunStep

\* A step of idle().
LEMMA IdlesCore ==
  ASSUME CoreInv, NEW w \in Workers, Idles(w)
  PROVE  CoreInv'
<1>1. CASE \/ CheckTimers(w) \/ CheckPending(w) \/ CheckScheduler(w)
           \/ Poll(w) \/ DecPending(w) \/ EventsDone(w)
  <2>1. PICK q \in IOPoint \ HeldPoint : pc' = [pc EXCEPT ![w] = q]
    BY <1>1 DEF CheckTimers, CheckPending, CheckScheduler, Poll, DecPending, EventsDone,
       IdleAt, Goto, IOPoint, Point, HeldPoint
  <2>2. ~Holds(w) /\ pc[w] # "cbs"
    BY <1>1, HoldsAt DEF CheckTimers, CheckPending, CheckScheduler, Poll, DecPending, EventsDone,
       IdleAt, HeldPoint
  <2>3. UNCHANGED <<tasks, state, armed, ff, wakes, events, timers, cbs>>
    BY <1>1 DEF CheckTimers, CheckPending, CheckScheduler, Poll, DecPending, EventsDone,
       IdleAt, timerVars, eventVars
  <2> QED BY <2>1, <2>2, <2>3, CoreMove
<1>2. CASE Expire(w)
  BY <1>2, ExpireCore
<1>3. CASE ScheduleCbs(w)
  BY <1>3, ScheduleCbsCore
<1>4. CASE \E f \in Fibers : Trigger(w, f)
  BY <1>4, TriggerCore
<1>5. CASE \E f \in Fibers : HangUp(w, f)
  BY <1>5, HangUpCore
<1> QED BY <1>1, <1>2, <1>3, <1>4, <1>5 DEF Idles

\* A step of application code.
LEMMA ExecutesCore ==
  ASSUME CoreInv, NEW w \in Workers, Executes(w)
  PROVE  CoreInv'
<1>1. CASE \E f \in Fibers : SpawnIO(w, f)
  BY <1>1, CoreSubmit DEF SpawnIO, Spawn, workVars, timerVars, eventVars
<1>2. CASE AddEvent(w) \/ Leaves(w) \/ WakeSleeper(w)
  BY <1>2, AddEventCore, LeavesCore, WakeSleeperCore
<1>3. CASE \E f \in Fibers : Sleep(w, f)
  BY <1>3, SleepCore
<1> QED BY <1>1, <1>2, <1>3 DEF Executes

\* A step of the owner, or of a tickle() some thread is in.
LEMMA OwnerCore ==
  ASSUME CoreInv, OwnerOutside,
         \/ OwnerStop \/ OwnerChecks \/ OwnerSkips
         \/ \E f \in Fibers : OwnerSchedule(f) \/ OwnerAddTimer(f)
         \/ \E t \in Threads : Tickles(t)
  PROVE  CoreInv'
<1>1. CASE OwnerStop \/ OwnerSkips \/ \E t \in Threads : Tickles(t)
  <2>1. UNCHANGED coreVars
    BY <1>1 DEF coreVars, OwnerStop, StopBegin, StopFlag, CallReturns, Join, OwnerSkips, StopNoCall,
       Tickles, TickleCheck, TickleWrite, vars, ioVars, fiberVars, workVars, timerVars, eventVars
  <2> QED BY <2>1, CoreStutter
<1>2. CASE OwnerChecks
  <2>1. /\ Caller \in Workers /\ mpc \in {"stop2", "stopchk2", "stopchk3"}
        /\ UNCHANGED <<tasks, state, armed, ff, wakes, events, timers, cbs>>
        /\ pc' = pc \/ pc' = [pc EXCEPT ![Caller] = "loop"]
    BY <1>2 DEF OwnerChecks, Goto, fiberVars, eventVars
  <2>2. pc[Caller] = "off"
    BY <2>1 DEF OwnerOutside
  <2>3. CASE pc' = pc
    BY <2>1, <2>3, CoreStutter DEF coreVars
  <2>4. CASE pc' = [pc EXCEPT ![Caller] = "loop"]
    <3>1. "loop" \in IOPoint \ HeldPoint /\ ~Holds(Caller) /\ pc[Caller] # "cbs"
      BY <2>1, <2>2, HoldsAt DEF IOPoint, Point, HeldPoint
    <3> QED BY <2>1, <2>4, <3>1, CoreMove
  <2> QED BY <2>1, <2>3, <2>4
<1>3. CASE \E f \in Fibers : OwnerSchedule(f)
  BY <1>3, CoreSubmit DEF OwnerSchedule, MainSchedule, workVars, timerVars, eventVars
<1>4. CASE \E f \in Fibers : OwnerAddTimer(f)
  BY <1>4, OwnerAddTimerCore
<1> QED BY <1>1, <1>2, <1>3, <1>4

\* Every step keeps one wake-up per fiber and one place per callable.
LEMMA CoreKeeps == CoreInv /\ OwnerOutside /\ [IONext]_iovars => CoreInv'
<1> SUFFICES ASSUME CoreInv, OwnerOutside, [IONext]_iovars PROVE CoreInv'
  OBVIOUS
<1>1. CASE Finished \/ UNCHANGED iovars
  BY <1>1, CoreStutter DEF Finished, iovars, vars, ioVars, coreVars
<1>2. CASE \E w \in Workers : Runs(w) \/ Idles(w) \/ Executes(w)
  BY <1>2, RunsCore, IdlesCore, ExecutesCore
<1>3. CASE \/ OwnerStop \/ OwnerChecks \/ OwnerSkips
           \/ \E f \in Fibers : OwnerSchedule(f) \/ OwnerAddTimer(f)
           \/ \E t \in Threads : Tickles(t)
  BY <1>3, OwnerCore
<1> QED BY <1>1, <1>2, <1>3 DEF IONext

------------------------------------------------------------------------------
(* The second half of the invariant: what is counted                        *)

IOResting(p) == p \in {"idle", "chk2", "chk3", "poll", "fire", "cbs", "ev", "dec", "idleret"}

\* The counters are numbers.
LEMMA CountsAreNumbers ==
  ASSUME CoreInv, CountInv
  PROVE  active \in Nat /\ idle \in Nat /\ pending \in Nat /\ Cardinality(events) \in Nat
<1>1. IsFiniteSet(ActiveWorkers) /\ IsFiniteSet(IOIdleWorkers) /\ IsFiniteSet({w \in Workers : pc[w] = "dec"})
  BY WorkersAssumption, FS_Subset DEF ActiveWorkers, IOIdleWorkers
<1> QED BY <1>1, FS_CardinalityType DEF CountInv, IOCountersExact, PendingExact

\* A worker that adjusts the counters as it moves keeps them exact.
LEMMA IOMoveCounters ==
  ASSUME CoreInv, CountInv, NEW w \in Workers, NEW p \in IOPoint, Goto(w, p),
         active' = active + One(Counted(p)) - One(Counted(pc[w])),
         idle' = idle + One(IOResting(p)) - One(IOResting(pc[w]))
  PROVE  IOCountersExact'
<1> DEFINE A == {"taken", "exec", "back"}
           R == {"idle", "chk2", "chk3", "poll", "fire", "cbs", "ev", "dec", "idleret"}
<1>1. pc \in [Workers -> IOPoint]
  BY DEF CoreInv, CoreTypes
<1>2. Cardinality({v \in Workers : pc'[v] \in A})
        = Cardinality({v \in Workers : pc[v] \in A}) + One(p \in A) - One(pc[w] \in A)
  BY <1>1, PointCounts
<1>3. Cardinality({v \in Workers : pc'[v] \in R})
        = Cardinality({v \in Workers : pc[v] \in R}) + One(p \in R) - One(pc[w] \in R)
  BY <1>1, PointCounts
<1> QED BY <1>2, <1>3 DEF CountInv, IOCountersExact, ActiveWorkers, IOIdleWorkers, Counted, IOResting

\* Whoever registers an event, triggers one or has counted one down keeps the
\* pending count exact.
LEMMA PendingMoves ==
  ASSUME CoreInv, CountInv, NEW w \in Workers, NEW p \in IOPoint, Goto(w, p),
         IsFiniteSet(events'),
         pending' = pending + (Cardinality(events') - Cardinality(events))
                            + One(p = "dec") - One(pc[w] = "dec")
  PROVE  PendingExact'
<1> DEFINE D == {v \in Workers : pc[v] = "dec"}
           E == {v \in Workers : pc'[v] = "dec"}
           P == {"dec"}
<1> HIDE DEF P
<1>1. pc \in [Workers -> IOPoint]
  BY DEF CoreInv, CoreTypes
<1>2. /\ Cardinality({v \in Workers : pc'[v] \in P})
           = Cardinality({v \in Workers : pc[v] \in P}) + One(p \in P) - One(pc[w] \in P)
      /\ Cardinality({v \in Workers : pc[v] \in P}) \in Nat
  BY <1>1, PointCounts
<1>3. D = {v \in Workers : pc[v] \in P} /\ E = {v \in Workers : pc'[v] \in P}
  BY DEF P
<1> HIDE DEF D, E
<1>4. Cardinality(E) = Cardinality(D) + One(p = "dec") - One(pc[w] = "dec") /\ Cardinality(D) \in Nat
  BY <1>2, <1>3 DEF One, P
<1>5. pending = Cardinality(events) + Cardinality(D)
  BY DEF CountInv, PendingExact, D
<1>6. Cardinality(events) \in Nat /\ Cardinality(events') \in Nat
  BY CountsAreNumbers, FS_CardinalityType
<1>7. pending' = Cardinality(events') + Cardinality(E)
  BY <1>4, <1>5, <1>6 DEF One
<1> QED BY <1>7 DEF PendingExact, E

\* A step of a worker in run() or idle() that has nothing to do with events.
LEMMA CountMove ==
  ASSUME CoreInv, CountInv, NEW w \in Workers, NEW p \in IOPoint, Goto(w, p),
         pc[w] # "off", p # "dec", pc[w] # "dec",
         active' = active + One(Counted(p)) - One(Counted(pc[w])),
         idle' = idle + One(IOResting(p)) - One(IOResting(pc[w])),
         UNCHANGED <<mpc, events, pending>>
  PROVE  CountInv'
<1>1. IOCountersExact'
  BY IOMoveCounters
<1>2. PendingExact'
  <2>1. pending' = pending + (Cardinality(events') - Cardinality(events)) + One(p = "dec") - One(pc[w] = "dec")
    BY CountsAreNumbers DEF One
  <2>2. IsFiniteSet(events')
    BY DEF CountInv
  <2> QED BY <2>1, <2>2, PendingMoves
<1>3. OwnerOutside'
  <2>1. \A v \in Workers : v # w => pc'[v] = pc[v]
    BY DEF Goto, CoreInv, CoreTypes
  <2> QED BY <2>1 DEF CountInv, OwnerOutside
<1> QED BY <1>1, <1>2, <1>3 DEF CountInv

\* A step that moves no worker.
LEMMA CountStutter ==
  ASSUME CoreInv, CountInv, UNCHANGED <<pc, active, idle, events, pending>>,
         mpc' \in IOPhase,
         mpc' \in {"open", "stop1", "stop2", "stopchk2", "stopchk3"} =>
           mpc \in {"open", "stop1", "stop2", "stopchk2", "stopchk3"}
  PROVE  CountInv'
BY DEF CountInv, OwnerOutside, IOCountersExact, ActiveWorkers, IOIdleWorkers, PendingExact

\* addEvent() and delEvent() change the set and the count together.
LEMMA CountEvents ==
  ASSUME CoreInv, CountInv, NEW f,
         \/ f \notin events /\ events' = events \cup {f} /\ pending' = pending + 1 /\ mpc' = mpc
         \/ f \in events /\ events' = events \ {f} /\ pending' = pending - 1 /\ mpc' \in {mpc, "aborted"},
         UNCHANGED <<pc, active, idle>>
  PROVE  CountInv'
<1> USE DEF CountInv
<1>1. IsFiniteSet(events') /\ pending' - pending = Cardinality(events') - Cardinality(events)
  <2>1. pending \in Nat /\ Cardinality(events) \in Nat
    BY CountsAreNumbers
  <2>2. CASE f \notin events /\ events' = events \cup {f} /\ pending' = pending + 1
    <3>1. IsFiniteSet(events') /\ Cardinality(events') = Cardinality(events) + 1
      BY <2>2, FS_AddElement
    <3> QED BY <2>1, <2>2, <3>1
  <2>3. CASE f \in events /\ events' = events \ {f} /\ pending' = pending - 1
    <3>1. IsFiniteSet(events') /\ Cardinality(events') = Cardinality(events) - 1
      BY <2>3, FS_RemoveElement
    <3> QED BY <2>1, <2>3, <3>1
  <2> QED BY <2>2, <2>3
<1>2. IsFiniteSet({w \in Workers : pc[w] = "dec"})
  BY WorkersAssumption, FS_Subset
<1>3. PendingExact'
  <2> DEFINE d == Cardinality({w \in Workers : pc[w] = "dec"})
  <2>1. d \in Nat /\ d' = d
    BY <1>2, FS_CardinalityType
  <2>2. pending = Cardinality(events) + d
    BY DEF PendingExact
  <2>3. pending \in Nat /\ Cardinality(events) \in Nat /\ Cardinality(events') \in Nat
    BY <1>1, CountsAreNumbers, FS_CardinalityType
  <2>4. pending' \in Int
    BY <2>3
  <2>5. PendingExact' <=> pending' = Cardinality(events') + d
    BY DEF PendingExact
  <2> HIDE DEF d
  <2> QED BY <1>1, <2>1, <2>2, <2>3, <2>4, <2>5
<1>4. OwnerOutside' /\ IOCountersExact' /\ mpc' \in IOPhase
  BY DEF OwnerOutside, IOCountersExact, ActiveWorkers, IOIdleWorkers, IOPhase
<1> QED BY <1>1, <1>3, <1>4

\* A step of run() keeps the counts.
LEMMA RunsCount ==
  ASSUME CoreInv, CountInv, NEW w \in Workers, Runs(w)
  PROVE  CountInv'
<1> USE DEF One, Counted, IOResting, IOPoint, Point, countVars
<1>1. active \in Nat /\ idle \in Nat /\ UNCHANGED <<events, pending>>
  BY CountsAreNumbers DEF Runs, ioVars
<1>2. CASE Take(w)
  BY <1>1, <1>2, CountMove DEF Take
<1>3. CASE TakeNothing(w)
  BY <1>1, <1>3, CountMove DEF TakeNothing
<1>4. CASE SwapIn(w)
  BY <1>1, <1>4, CountMove DEF SwapIn
<1>5. CASE Drop(w)
  BY <1>1, <1>5, CountMove DEF Drop
<1>6. CASE DecActive(w)
  BY <1>1, <1>6, CountMove DEF DecActive
<1>7. CASE Retire(w)
  BY <1>1, <1>7, CountMove DEF Retire
<1>8. CASE Exit(w)
  BY <1>1, <1>8, CountMove DEF Exit
<1>9. CASE IdleIn(w)
  BY <1>1, <1>9, CountMove DEF IdleIn
<1>10. CASE IdleOut(w)
  BY <1>1, <1>10, CountMove DEF IdleOut
<1> QED BY <1>2, <1>3, <1>4, <1>5, <1>6, <1>7, <1>8, <1>9, <1>10 DEF Runs, RunStep

\* A step of idle() keeps the counts: Trigger() leaves a count for
\* DecPending() to take down.
LEMMA IdlesCount ==
  ASSUME CoreInv, CountInv, NEW w \in Workers, Idles(w)
  PROVE  CountInv'
<1> USE DEF One, Counted, IOResting, IOPoint, Point, countVars, IdleAt
<1>1. active \in Nat /\ idle \in Nat /\ pending \in Nat /\ Cardinality(events) \in Nat
  BY CountsAreNumbers
<1>2. CASE \/ CheckTimers(w) \/ CheckPending(w) \/ CheckScheduler(w) \/ Poll(w)
           \/ Expire(w) \/ ScheduleCbs(w) \/ EventsDone(w)
  <2>1. PICK p \in IOPoint : Goto(w, p) /\ IOResting(p) /\ p # "dec"
    BY <1>2 DEF CheckTimers, CheckPending, CheckScheduler, Poll, Expire, ScheduleCbs, EventsDone
  <2>2. IOResting(pc[w]) /\ pc[w] # "dec" /\ UNCHANGED <<mpc, active, idle, events, pending>>
    BY <1>2 DEF CheckTimers, CheckPending, CheckScheduler, Poll, Expire, ScheduleCbs, EventsDone, eventVars
  <2> QED BY <1>1, <2>1, <2>2, CountMove
<1>3. CASE DecPending(w) \/ \E f \in Fibers : Trigger(w, f)
  <2>1. PICK p \in IOPoint : /\ Goto(w, p) /\ IOResting(p) /\ IOResting(pc[w]) /\ mpc' = mpc
                             /\ active' = active /\ idle' = idle
                             /\ \/ pc[w] = "dec" /\ p # "dec" /\ events' = events /\ pending' = pending - 1
                                \/ /\ pc[w] # "dec" /\ p = "dec" /\ pending' = pending
                                   /\ \E f \in events : events' = events \ {f}
    BY <1>3 DEF DecPending, Trigger
  <2>2. IOCountersExact'
    <3>1. ~Counted(p) /\ ~Counted(pc[w])
      BY <2>1
    <3> HIDE DEF Counted, IOResting
    <3>2. /\ active' = active + One(Counted(p)) - One(Counted(pc[w]))
          /\ idle' = idle + One(IOResting(p)) - One(IOResting(pc[w]))
      BY <1>1, <2>1, <3>1
    <3> QED BY <2>1, <3>2, IOMoveCounters
  <2>3. IsFiniteSet(events') /\ PendingExact'
    <3>1. CASE pc[w] = "dec" /\ p # "dec" /\ events' = events /\ pending' = pending - 1
      <4>1. IsFiniteSet(events')
        BY <3>1 DEF CountInv
      <4>2. pending' = pending + (Cardinality(events') - Cardinality(events)) + One(p = "dec") - One(pc[w] = "dec")
        BY <1>1, <3>1
      <4> QED BY <2>1, <4>1, <4>2, PendingMoves
    <3>2. ASSUME NEW f \in events, events' = events \ {f},
                 pc[w] # "dec", p = "dec", pending' = pending
          PROVE  IsFiniteSet(events') /\ PendingExact'
      <4>1. IsFiniteSet(events') /\ Cardinality(events') = Cardinality(events) - 1
        BY <3>2, FS_RemoveElement DEF CountInv
      <4>2. pending' = pending + (Cardinality(events') - Cardinality(events)) + One(p = "dec") - One(pc[w] = "dec")
        BY <1>1, <3>2, <4>1
      <4> QED BY <2>1, <4>1, <4>2, PendingMoves
    <3> QED BY <2>1, <3>1, <3>2
  <2>4. OwnerOutside'
    <3>1. \A v \in Workers : v # w => pc'[v] = pc[v]
      BY <2>1 DEF Goto, CoreInv, CoreTypes
    <3> QED BY <2>1, <3>1 DEF CountInv, OwnerOutside
  <2> QED BY <2>1, <2>2, <2>3, <2>4 DEF CountInv
<1>4. CASE \E f \in Fibers : HangUp(w, f)
  <2> PICK f \in Fibers : HangUp(w, f)
    BY <1>4
  <2>1. mpc' = "aborted"
    BY HangUpCore
  <2>2. f \in events /\ events' = events \ {f} /\ pending' = pending - 1 /\ UNCHANGED <<pc, active, idle>>
    BY DEF HangUp, workVars
  <2> QED BY <2>1, <2>2, CountEvents
<1> QED BY <1>2, <1>3, <1>4 DEF Idles

\* A step of application code keeps the counts.
LEMMA ExecutesCount ==
  ASSUME CoreInv, CountInv, NEW w \in Workers, Executes(w)
  PROVE  CountInv'
<1> USE DEF One, Counted, IOResting, IOPoint, Point, countVars
<1>1. active \in Nat /\ idle \in Nat
  BY CountsAreNumbers
<1>2. CASE AddEvent(w)
  <2> DEFINE f == ff[w].fiber
  <2>1. /\ events' = events \cup {f} /\ pending' = pending + 1 /\ mpc' = mpc
        /\ UNCHANGED <<pc, active, idle>> /\ f \notin armed
    BY <1>2 DEF AddEvent, Application, Outstanding, Arm, workVars
  <2>2. f \notin events
    BY <2>1 DEF CoreInv, CoreTypes
  <2> QED BY <2>1, <2>2, CountEvents
<1>3. CASE Leaves(w)
  <2>1. /\ pc[w] = "exec" /\ Goto(w, "back") /\ UNCHANGED <<active, idle, mpc, events, pending>>
    BY <1>3 DEF Leaves, InApplication, Application, Yield, Finish, ioVars
  <2> QED BY <1>1, <2>1, CountMove
<1>4. CASE WakeSleeper(w)
  BY <1>1, <1>4, CountMove DEF WakeSleeper, eventVars
<1>5. CASE \E f \in Fibers : SpawnIO(w, f) \/ Sleep(w, f)
  <2>1. UNCHANGED <<pc, active, idle, events, pending, mpc>>
    BY <1>5 DEF SpawnIO, Spawn, Sleep, workVars, eventVars
  <2> QED BY <2>1, CountStutter DEF CountInv
<1> QED BY <1>2, <1>3, <1>4, <1>5 DEF Executes

\* A step of the owner, or of a tickle() some thread is in, keeps the counts.
LEMMA OwnerCount ==
  ASSUME CoreInv, CountInv,
         \/ OwnerStop \/ OwnerChecks \/ OwnerSkips
         \/ \E f \in Fibers : OwnerSchedule(f) \/ OwnerAddTimer(f)
         \/ \E t \in Threads : Tickles(t)
  PROVE  CountInv'
<1> USE DEF One, Counted, IOResting, IOPoint, Point, countVars
<1>1. CASE OwnerStop \/ OwnerSkips
  <2>1. /\ UNCHANGED <<pc, active, idle, events, pending>>
        /\ mpc' \in {"stop1", "stop2", "join", "stopped"}
        /\ mpc \in {"open", "stop1", "stop2", "call", "join"}
        /\ mpc' \in {"stop1", "stop2"} => mpc \in {"open", "stop1"}
    BY <1>1 DEF OwnerStop, StopBegin, StopFlag, CallReturns, Join, OwnerSkips, StopNoCall, workVars, ioVars
  <2> QED BY <2>1, CountStutter DEF IOPhase, Phase
<1>2. CASE OwnerChecks
  <2>1. /\ Caller \in Workers /\ mpc \in {"stop2", "stopchk2", "stopchk3"}
        /\ UNCHANGED <<active, idle, events, pending>>
        /\ \/ mpc' \in {"stopchk2", "stopchk3", "join"} /\ pc' = pc
           \/ mpc' = "call" /\ Goto(Caller, "loop")
    BY <1>2 DEF OwnerChecks, eventVars
  <2>2. CASE mpc' \in {"stopchk2", "stopchk3", "join"} /\ pc' = pc
    BY <2>1, <2>2, CountStutter DEF IOPhase, Phase
  <2>3. CASE mpc' = "call" /\ Goto(Caller, "loop")
    <3>1. pc[Caller] = "off" /\ active \in Nat /\ idle \in Nat /\ pending \in Nat /\ Cardinality(events) \in Nat
      BY <2>1, CountsAreNumbers DEF CountInv, OwnerOutside
    <3>2. IOCountersExact'
      BY <2>1, <2>3, <3>1, IOMoveCounters
    <3>3. PendingExact'
      <4>1. pending' = pending + (Cardinality(events') - Cardinality(events))
                               + One("loop" = "dec") - One(pc[Caller] = "dec")
        BY <2>1, <3>1
      <4>2. IsFiniteSet(events')
        BY <2>1 DEF CountInv
      <4> QED BY <2>1, <2>3, <4>1, <4>2, PendingMoves
    <3> QED BY <2>1, <2>3, <3>2, <3>3 DEF CountInv, OwnerOutside, IOPhase, Phase
  <2> QED BY <2>1, <2>2, <2>3
<1>3. CASE \/ \E f \in Fibers : OwnerSchedule(f) \/ OwnerAddTimer(f)
           \/ \E t \in Threads : Tickles(t)
  <2>1. UNCHANGED <<pc, active, idle, events, pending, mpc>>
    BY <1>3 DEF OwnerSchedule, MainSchedule, OwnerAddTimer, Tickles, TickleCheck, TickleWrite,
       vars, workVars, eventVars
  <2> QED BY <2>1, CountStutter DEF CountInv
<1> QED BY <1>1, <1>2, <1>3

\* Every step keeps the counts.
LEMMA CountKeeps == CoreInv /\ CountInv /\ [IONext]_iovars => CountInv'
<1> SUFFICES ASSUME CoreInv, CountInv, [IONext]_iovars PROVE CountInv'
  OBVIOUS
<1>1. CASE Finished \/ UNCHANGED iovars
  BY <1>1, CountStutter DEF CountInv, Finished, iovars, vars, ioVars
<1>2. CASE \E w \in Workers : Runs(w) \/ Idles(w) \/ Executes(w)
  BY <1>2, RunsCount, IdlesCount, ExecutesCount
<1>3. CASE \/ OwnerStop \/ OwnerChecks \/ OwnerSkips
           \/ \E f \in Fibers : OwnerSchedule(f) \/ OwnerAddTimer(f)
           \/ \E t \in Threads : Tickles(t)
  BY <1>3, OwnerCount
<1> QED BY <1>1, <1>2, <1>3 DEF IONext

------------------------------------------------------------------------------
(* No wake-up is lost                                                       *)

\* A step that takes no fiber's state, wake-up or worker away.
LEMMA LostStutter ==
  ASSUME CoreInv, NothingLost, mpc' = "aborted" \/ mpc # "aborted",
         state' = state, armed \subseteq armed', ff' = ff,
         \A f \in Fibers : Queued(f) => Queued(f)',
         \A w \in Workers : pc'[w] # pc[w] => pc[w] # "taken" /\ (Inside(w) => Inside(w)'),
         \A w \in Workers : pc'[w] # pc[w] /\ pc[w] = "exec" => Outstanding(ff[w].fiber)
  PROVE  NothingLost'
<1>1. \A w \in Workers : \A f \in Fibers : TakenBy(w, f) => TakenBy(w, f)'
  BY DEF TakenBy
<1>2. \A f \in Fibers : Outstanding(f) => Outstanding(f)'
  BY DEF Outstanding
<1>3. \A w \in Workers : Inside(w) => Inside(w)'
  BY DEF Inside
<1>4. \A w \in Workers : Inside(w) /\ pc'[w] # "exec" => pc[w] # "exec" \/ Outstanding(ff[w].fiber)
  OBVIOUS
<1> QED BY <1>1, <1>2, <1>3, <1>4 DEF NothingLost

\* The list takes over a wake-up.
LEMMA HandedOver ==
  ASSUME CoreInv, NEW f \in armed, Schedule(FiberTask(f)), armed' = armed \ {f}
  PROVE  \A g : Outstanding(g) => Outstanding(g)'
BY HandOver DEF Outstanding

\* Every step keeps a way on for every fiber.
LEMMA LostKeeps == CoreInv /\ OwnerOutside /\ NothingLost /\ [IONext]_iovars => NothingLost'
<1> SUFFICES ASSUME CoreInv, OwnerOutside, NothingLost, [IONext]_iovars, mpc' # "aborted", mpc # "aborted"
    PROVE  NothingLost'
  BY DEF NothingLost, IONext, Finished, iovars, vars
<1>1. ASSUME NEW f \in Fibers, Submit(f), UNCHANGED <<pc, ff>> PROVE NothingLost'
  <2>1. PICK t \in Task : /\ Schedule(t) /\ t.fiber = f
                          /\ state' = [state EXCEPT ![f] = IF t.kind = "cb" THEN "FUNC" ELSE "INIT"]
    BY <1>1 DEF Submit, CbTask, FiberTask, Task, SetState
  <2>2. \A g : Queued(g)' <=> Queued(g) \/ g = f
    BY <2>1, AppendToList DEF CoreInv, CoreTypes
  <2>3. /\ \A g \in Fibers : g # f => state'[g] = state[g]
        /\ state'[f] \in {"FUNC", "INIT"} /\ armed' = armed
    BY <1>1, <2>1 DEF CoreInv, CoreTypes, Submit
  <2>4. /\ \A g : Outstanding(g) => Outstanding(g)'
        /\ \A g : \A w \in Workers : (TakenBy(w, g) => TakenBy(w, g)') /\ (Inside(w) => Inside(w)')
    BY <1>1, <2>2, <2>3 DEF Outstanding, TakenBy, Inside
  <2> QED BY <1>1, <2>2, <2>3, <2>4 DEF NothingLost
<1>2. CASE \E w \in Workers : Runs(w)
  <2> PICK w \in Workers : Runs(w)
    BY <1>2
  <2> USE DEF CoreInv
  <2>1. CASE Take(w)
    <3>1. PICK i \in DOMAIN tasks : ff' = [ff EXCEPT ![w] = tasks[i]] /\ tasks' = RemoveAt(tasks, i)
      BY <2>1 DEF Take
    <3>2. \A g : Queued(g)' <=> Queued(g) /\ g # tasks[i].fiber
      BY <3>1, RemoveFromList DEF CoreTypes
    <3>3. /\ pc[w] = "loop" /\ pc' = [pc EXCEPT ![w] = "taken"] /\ UNCHANGED <<state, armed>>
          /\ state[tasks[i].fiber] # "EXEC"
      BY <2>1, <3>1, ListTyped DEF Take, Goto, fiberVars, CoreTypes, QueuedState, Takable, Task
    <3>4. /\ \A v \in Workers : v # w => pc'[v] = pc[v] /\ ff'[v] = ff[v]
          /\ pc'[w] = "taken" /\ ff'[w] = tasks[i]
      BY <3>1, <3>3 DEF CoreTypes
    <3> QED BY <3>2, <3>3, <3>4 DEF NothingLost, Outstanding, TakenBy, Inside
  <2>2. CASE SwapIn(w)
    <3> DEFINE f == ff[w].fiber
    <3>1. /\ pc[w] = "taken" /\ pc' = [pc EXCEPT ![w] = "exec"] /\ state' = [state EXCEPT ![f] = "EXEC"]
          /\ UNCHANGED <<tasks, armed, ff>>
      BY <2>2 DEF SwapIn, Goto, SetState
    <3>2. f \in Fibers
      BY <3>1 DEF HeldState, Holds, Task
    <3>3. /\ \A v \in Workers : v # w => pc'[v] = pc[v]
          /\ pc'[w] = "exec"
          /\ \A g \in Fibers : g # f => state'[g] = state[g]
          /\ state'[f] = "EXEC"
      BY <3>1, <3>2 DEF CoreTypes
    <3> QED BY <3>1, <3>3 DEF NothingLost, Outstanding, Queued, TakenBy, Inside
  <2>3. CASE Drop(w)
    <3>1. /\ pc[w] = "taken" /\ pc' = [pc EXCEPT ![w] = "loop"] /\ ff' = [ff EXCEPT ![w] = NoTask]
          /\ state[ff[w].fiber] = "TERM"
          /\ UNCHANGED <<tasks, state, armed>>
      BY <2>3 DEF Drop, Goto, fiberVars
    <3>2. \A v \in Workers : v # w => pc'[v] = pc[v] /\ ff'[v] = ff[v]
      BY <3>1 DEF CoreTypes
    <3> QED BY <3>1, <3>2 DEF NothingLost, Outstanding, Queued, TakenBy, Inside
  <2>4. CASE Retire(w)
    <3> DEFINE f == ff[w].fiber
    <3>1. /\ pc[w] = "ret" /\ pc' = [pc EXCEPT ![w] = "loop"] /\ ff' = [ff EXCEPT ![w] = NoTask]
          /\ armed' = armed
      BY <2>4 DEF Retire, Goto
    <3>2. f \in Fibers /\ state[f] \in {"EXEC", "TERM"}
      BY <3>1 DEF CoreTypes, HeldState, Holds, Inside, Task
    <3>3. tasks' = tasks /\ state' = IF state[f] = "TERM" THEN state ELSE [state EXCEPT ![f] = "HOLD"]
      BY <2>4, <3>2 DEF Retire, Requeued, SetState
    <3>4. /\ \A v \in Workers : v # w => pc'[v] = pc[v] /\ ff'[v] = ff[v]
          /\ \A g \in Fibers : g # f => state'[g] = state[g]
          /\ state'[f] = IF state[f] = "TERM" THEN "TERM" ELSE "HOLD"
      BY <3>1, <3>2, <3>3 DEF CoreTypes
    <3> HIDE DEF f
    <3>5. ASSUME state[f] = "EXEC" PROVE Outstanding(f)
      <4>1. PICK v \in Workers : Inside(v) /\ ff[v].fiber = f /\ (pc[v] # "exec" => Outstanding(f))
        BY <3>2, <3>5 DEF NothingLost
      <4>2. v = w
        BY <3>1, <4>1 DEF InsideApart, Inside, f
      <4> QED BY <3>1, <4>1, <4>2
    <3>6. /\ \A g : Outstanding(g)' <=> Outstanding(g)
          /\ \A g : Queued(g)' <=> Queued(g)
      BY <3>1, <3>3 DEF Outstanding, Queued
    <3>7. \A g : \A v \in Workers : TakenBy(v, g) => TakenBy(v, g)'
      BY <3>1, <3>4 DEF TakenBy
    <3>8. \A v \in Workers : v # w /\ Inside(v) => Inside(v)' /\ ff'[v] = ff[v] /\ pc'[v] = pc[v]
      BY <3>4 DEF Inside
    <3> QED BY <3>2, <3>4, <3>5, <3>6, <3>7, <3>8 DEF NothingLost, f
  <2>5. CASE TakeNothing(w) \/ DecActive(w) \/ Exit(w) \/ IdleIn(w) \/ IdleOut(w)
    <3>1. /\ UNCHANGED <<tasks, state, armed, ff>>
          /\ \E q \in IOPoint : pc' = [pc EXCEPT ![w] = q]
          /\ pc[w] \in {"loop", "back", "none", "idleret"}
          /\ pc[w] = "back" => pc' = [pc EXCEPT ![w] = "ret"]
      BY <2>5 DEF TakeNothing, DecActive, Exit, IdleIn, IdleOut, Goto, fiberVars, IOPoint, Point
    <3>2. \A v \in Workers : pc'[v] # pc[v] => v = w /\ pc[v] # "taken" /\ pc[v] # "exec" /\ (Inside(v) => Inside(v)')
      BY <3>1 DEF CoreTypes, Inside
    <3> QED BY <3>1, <3>2, LostStutter DEF Queued
  <2> QED BY <2>1, <2>2, <2>3, <2>4, <2>5 DEF Runs, RunStep
<1>3. CASE \E w \in Workers : Idles(w)
  <2> PICK w \in Workers : Idles(w)
    BY <1>3
  <2> USE DEF CoreInv
  <2>1. CASE ~\E f \in Fibers : Trigger(w, f) \/ HangUp(w, f)
    <3>1. /\ UNCHANGED <<state, armed, ff>>
          /\ \E q \in IOPoint : pc' = [pc EXCEPT ![w] = q]
          /\ pc[w] \notin {"taken", "exec", "back", "ret"}
      BY <2>1 DEF Idles, CheckTimers, CheckPending, CheckScheduler, Poll, Expire, ScheduleCbs, DecPending,
         EventsDone, IdleAt, Goto, IOPoint, Point
    <3>2. \A v \in Workers : pc'[v] # pc[v] => v = w /\ ~Inside(v)
      BY <3>1 DEF CoreTypes, Inside
    <3>3. \A f \in Fibers : Queued(f) => Queued(f)'
      <4>1. CASE ScheduleCbs(w)
        <5>1. PICK order \in SetToSeqs(cbs[w]) : tasks' = tasks \o [i \in DOMAIN order |-> CbTask(order[i])]
          BY <4>1 DEF ScheduleCbs
        <5> DEFINE b == [i \in DOMAIN order |-> CbTask(order[i])]
        <5>2. order \in Seq(cbs[w]) /\ \A i \in DOMAIN order : order[i] \in Fibers
          BY OrderOfSet DEF CoreTypes
        <5>3. b \in Seq(Task)
          <6>1. DOMAIN order = 1..Len(order) /\ Len(order) \in Nat
            BY <5>2, LenProperties
          <6>2. b \in [1..Len(order) -> Task]
            BY <5>2, <6>1 DEF CbTask, Task
          <6> QED BY <6>1, <6>2 DEF Seq
        <5> HIDE DEF b
        <5>4. \A i \in DOMAIN tasks : i \in DOMAIN tasks' /\ tasks'[i] = tasks[i]
          BY <5>1, <5>3, ConcatProperties, LenProperties DEF CoreTypes, b
        <5> QED BY <5>4 DEF Queued
      <4>2. CASE ~ScheduleCbs(w)
        <5>1. tasks' = tasks
          BY <2>1, <4>2 DEF Idles, CheckTimers, CheckPending, CheckScheduler, Poll, Expire, DecPending, EventsDone
        <5> QED BY <5>1 DEF Queued
      <4> QED BY <4>1, <4>2
    <3> QED BY <3>1, <3>2, <3>3, LostStutter DEF Inside
  <2>2. CASE \E f \in Fibers : Trigger(w, f)
    <3> PICK f \in Fibers : Trigger(w, f)
      BY <2>2
    <3>1. /\ pc[w] = "ev" /\ pc' = [pc EXCEPT ![w] = "dec"] /\ UNCHANGED <<state, ff>>
          /\ f \in armed /\ Schedule(FiberTask(f)) /\ armed' = armed \ {f}
      BY DEF Trigger, IdleAt, Goto, CoreTypes
    <3>2. \A g : (Queued(g) => Queued(g)') /\ (Outstanding(g) => Outstanding(g)')
      BY <3>1, HandOver, HandedOver
    <3>3. \A v \in Workers : v # w => pc'[v] = pc[v]
      BY <3>1 DEF CoreTypes
    <3> QED BY <3>1, <3>2, <3>3 DEF NothingLost, TakenBy, Inside
  <2>3. CASE \E f \in Fibers : HangUp(w, f)
    BY <2>3, HangUpCore
  <2> QED BY <2>1, <2>2, <2>3
<1>4. CASE \E w \in Workers : Executes(w)
  <2> PICK w \in Workers : Executes(w)
    BY <1>4
  <2> USE DEF CoreInv
  <2> DEFINE f == ff[w].fiber
  <2>1. CASE AddEvent(w)
    <3>1. UNCHANGED <<tasks, state, pc, ff>> /\ armed \subseteq armed'
      BY <2>1 DEF AddEvent, Arm, workVars
    <3> QED BY <3>1, LostStutter DEF Queued
  <2>2. CASE \E g \in Fibers : Sleep(w, g)
    <3> PICK g \in Fibers : Sleep(w, g)
      BY <2>2
    <3>1. /\ UNCHANGED <<tasks, pc, ff>> /\ armed \subseteq armed'
          /\ \A h \in Fibers : h # g => state'[h] = state[h]
          /\ state'[g] = "FUNC"
      BY DEF Sleep, SetState, workVars, CoreTypes
    <3> QED BY <3>1 DEF NothingLost, Outstanding, Queued, TakenBy, Inside
  <2>3. CASE \E g \in Fibers : SpawnIO(w, g)
    BY <2>3, <1>1 DEF SpawnIO, Spawn, workVars
  <2>4. CASE Leaves(w)
    <3>1. /\ pc[w] = "exec" /\ pc' = [pc EXCEPT ![w] = "back"]
          /\ \/ state' = state /\ Outstanding(f)
             \/ state' = [state EXCEPT ![f] = "TERM"]
          /\ UNCHANGED <<tasks, armed, ff>>
      BY <2>4 DEF Leaves, InApplication, Application, Yield, Finish, Goto, SetState, fiberVars
    <3>2. f \in Fibers
      BY <3>1, RunningFiber
    <3>3. /\ \A v \in Workers : v # w => pc'[v] = pc[v]
          /\ pc'[w] = "back"
          /\ \A g \in Fibers : g # f => state'[g] = state[g]
          /\ state'[f] = "TERM" \/ (state'[f] = state[f] /\ Outstanding(f))
      BY <3>1, <3>2 DEF CoreTypes
    <3> QED BY <3>1, <3>3 DEF NothingLost, Outstanding, Queued, TakenBy, Inside
  <2>5. CASE WakeSleeper(w)
    <3> DEFINE h == wakes[f]
    <3>1. /\ pc[w] = "exec" /\ pc' = [pc EXCEPT ![w] = "back"] /\ state' = [state EXCEPT ![f] = "TERM"]
          /\ ff' = ff /\ Schedule(FiberTask(h)) /\ armed' = armed \ {h} /\ h # NoFiber
      BY <2>5 DEF WakeSleeper, Goto, SetState
    <3>2. f \in Fibers /\ h \in armed
      <4>1. f \in Fibers /\ state[f] = "EXEC" /\ h \in Fibers
        BY <3>1, RunningFiber DEF CoreTypes
      <4> QED BY <4>1 DEF ArmedByOne, WillWake
    <3> HIDE DEF h
    <3>3. \A g : (Queued(g) => Queued(g)') /\ (Outstanding(g) => Outstanding(g)')
      BY <3>1, <3>2, HandOver, HandedOver
    <3>4. /\ \A v \in Workers : v # w => pc'[v] = pc[v]
          /\ \A g \in Fibers : g # f => state'[g] = state[g]
          /\ state'[f] = "TERM"
      BY <3>1, <3>2 DEF CoreTypes
    <3> QED BY <3>1, <3>3, <3>4 DEF NothingLost, TakenBy, Inside
  <2> QED BY <2>1, <2>2, <2>3, <2>4, <2>5 DEF Executes
<1>5. CASE \/ Finished \/ UNCHANGED iovars \/ OwnerStop \/ OwnerChecks \/ OwnerSkips
           \/ \E t \in Threads : Tickles(t)
  <2>1. UNCHANGED <<tasks, state, armed, ff>> /\ (pc' = pc \/ (OwnerChecks /\ pc' = [pc EXCEPT ![Caller] = "loop"]))
    BY <1>5 DEF Finished, iovars, OwnerStop, StopBegin, StopFlag, CallReturns, Join, OwnerChecks, Goto,
       OwnerSkips, StopNoCall, Tickles, TickleCheck, TickleWrite, vars, ioVars, fiberVars, workVars
  <2>2. OwnerChecks => pc[Caller] = "off"
    BY DEF OwnerChecks, OwnerOutside
  <2>3. \A w \in Workers : pc'[w] # pc[w] => pc[w] = "off"
    BY <2>1, <2>2 DEF CoreInv, CoreTypes
  <2> QED BY <2>1, <2>3, LostStutter DEF Queued, Inside
<1>6. CASE \E f \in Fibers : OwnerSchedule(f)
  BY <1>6, <1>1 DEF OwnerSchedule, MainSchedule, workVars
<1>7. CASE \E f \in Fibers : OwnerAddTimer(f)
  <2> PICK g \in Fibers : OwnerAddTimer(g)
    BY <1>7
  <2>1. /\ UNCHANGED <<tasks, armed, pc, ff>>
        /\ \A h \in Fibers : h # g => state'[h] = state[h]
        /\ state'[g] = "FUNC"
    BY DEF OwnerAddTimer, SetState, workVars, CoreInv, CoreTypes
  <2> QED BY <2>1 DEF NothingLost, Outstanding, Queued, TakenBy, Inside
<1> QED BY <1>2, <1>3, <1>4, <1>5, <1>6, <1>7 DEF IONext

\* Every step keeps the other variables in their types.
LEMMA RestKeeps == CoreInv /\ RestTypes /\ [IONext]_iovars => RestTypes'
<1> SUFFICES ASSUME CoreInv, RestTypes, [IONext]_iovars PROVE RestTypes'
  OBVIOUS
<1> USE DEF RestTypes
<1>1. ASSUME NEW f \in Fibers, fuel[f] > 0, fuel' = [fuel EXCEPT ![f] = @ - 1]
      PROVE  fuel' \in [Fibers -> 0..MaxYields]
  BY <1>1, MaxYieldsAssumption
<1>2. CASE \/ Finished \/ UNCHANGED iovars \/ OwnerStop \/ OwnerChecks \/ OwnerSkips
           \/ \E f \in Fibers : OwnerSchedule(f) \/ OwnerAddTimer(f)
  <2>1. UNCHANGED <<fuel, pipe, drain>>
    BY <1>2 DEF Finished, iovars, vars, ioVars, OwnerStop, StopBegin, StopFlag, CallReturns, Join,
       OwnerChecks, OwnerSkips, StopNoCall, OwnerSchedule, MainSchedule, Submit, OwnerAddTimer, fiberVars, pipeVars
  <2>2. owe' \in [Threads -> {"no", "check", "write"}]
    BY <1>2 DEF Finished, iovars, vars, ioVars, OwnerStop, OwnerChecks, OwnerSkips, OwnerSchedule, ThenTickle,
       OwnerAddTimer, AddTimer, Threads
  <2> QED BY <2>1, <2>2
<1>3. CASE \E t \in Threads : Tickles(t)
  BY <1>3, PipeCapacityAssumption DEF Tickles, TickleCheck, TickleWrite, vars, pipeVars
<1>4. CASE \E w \in Workers : Runs(w)
  BY <1>4 DEF Runs, RunStep, Take, TakeNothing, SwapIn, Drop, DecActive, Retire, Exit, IdleIn, IdleOut,
     ioVars, fiberVars
<1>5. CASE \E w \in Workers : Idles(w)
  BY <1>5, PipeCapacityAssumption DEF Idles, CheckTimers, CheckPending, CheckScheduler, Poll, Expire, ScheduleCbs,
     DecPending, EventsDone, Trigger, HangUp, IdleAt, pipeVars
<1>6. CASE \E w \in Workers : Executes(w)
  <2> PICK w \in Workers : Executes(w)
    BY <1>6
  <2>1. CASE AddEvent(w)
    <3>1. ff[w].fiber \in Fibers
      BY <2>1, RunningFiber DEF AddEvent, Application, InApplication
    <3> QED BY <2>1, <3>1, <1>1 DEF AddEvent, Arm, pipeVars
  <2>2. CASE \E g \in Fibers : Sleep(w, g)
    <3> PICK g \in Fibers : Sleep(w, g)
      BY <2>2
    <3>1. ff[w].fiber \in Fibers
      BY RunningFiber DEF Sleep, Application, InApplication
    <3>2. fuel' \in [Fibers -> 0..MaxYields]
      BY <3>1, <1>1 DEF Sleep
    <3> QED BY <3>2 DEF Sleep, AddTimer, pipeVars, Threads
  <2>3. CASE Leaves(w) \/ WakeSleeper(w) \/ \E f \in Fibers : SpawnIO(w, f)
    BY <2>3 DEF Leaves, Yield, Finish, WakeSleeper, SpawnIO, Spawn, Submit, ThenTickle, fiberVars, ioVars, pipeVars, Threads
  <2> QED BY <2>1, <2>2, <2>3 DEF Executes
<1> QED BY <1>2, <1>3, <1>4, <1>5, <1>6 DEF IONext

------------------------------------------------------------------------------
(* The invariants hold initially and so for ever                            *)

IOInv == CoreInv /\ CountInv /\ NothingLost /\ RestTypes

\* The constructor leaves nothing going on.
LEMMA IOInitHolds == IOInit => IOInv
<1> SUFFICES ASSUME IOInit PROVE IOInv
  OBVIOUS
<1>1. CoreTypes
  BY FS_EmptySet DEF IOInit, CoreTypes, FiberState, IOPoint, Point
<1>2. /\ \A w \in Workers : pc[w] \in {"off", "loop"}
      /\ \A f : ~Queued(f) /\ f \notin armed
      /\ \A g \in Fibers : state[g] = "NONE"
  BY DEF IOInit, Queued
<1>3. HeldState /\ QueuedState /\ OneWakeUp /\ InsideApart
  BY <1>2 DEF IOInit, HeldState, QueuedState, OneWakeUp, InsideApart, Holds, Inside
<1>4. SleeperCallables /\ ArmedByOne /\ CallablesApart /\ CallablesKept
  BY <1>2 DEF IOInit, SleeperCallables, ArmedByOne, WillWake, CallablesApart, CallablesKept
<1>5. CountInv
  <2>1. ActiveWorkers = {} /\ IOIdleWorkers = {} /\ {w \in Workers : pc[w] = "dec"} = {}
    BY <1>2 DEF ActiveWorkers, IOIdleWorkers
  <2>2. Cardinality({}) = 0 /\ IsFiniteSet({})
    BY FS_EmptySet
  <2>3. IOCountersExact
    BY <2>1, <2>2 DEF IOInit, IOCountersExact
  <2>4. PendingExact
    <3>1. pending = 0 /\ Cardinality(events) = 0 /\ Cardinality({w \in Workers : pc[w] = "dec"}) = 0
      BY <2>1, <2>2 DEF IOInit
    <3> QED BY <3>1 DEF PendingExact
  <2>5. OwnerOutside
    BY DEF IOInit, OwnerOutside
  <2> QED BY <2>2, <2>3, <2>4, <2>5 DEF IOInit, CountInv, IOPhase, Phase
<1>6. NothingLost
  BY <1>2 DEF NothingLost
<1>7. RestTypes
  BY MaxYieldsAssumption, PipeCapacityAssumption DEF IOInit, RestTypes
<1> QED BY <1>1, <1>3, <1>4, <1>5, <1>6, <1>7 DEF IOInv, CoreInv

\* The conjunction of the parts is an invariant of the IO manager.
THEOREM IOInvariance == IOSpec => []IOInv
<1>1. IOInv /\ [IONext]_iovars => IOInv'
  BY CoreKeeps, CountKeeps, LostKeeps, RestKeeps DEF IOInv, CountInv
<1> QED BY <1>1, IOInitHolds, PTL DEF IOSpec

\* The IO manager's variables keep their types: the tickle pipe never holds
\* more than it can, and the counters stay between 0 and the worker count.
THEOREM IOTypeCorrect == IOSpec => []IOTypeOK
<1>1. ASSUME IOInv PROVE IOTypeOK
  <2> USE <1>1 DEF IOInv
  <2>1. active \in 0..Cardinality(Workers) /\ idle \in 0..Cardinality(Workers)
    <3>1. ActiveWorkers \subseteq Workers /\ IOIdleWorkers \subseteq Workers
      BY DEF ActiveWorkers, IOIdleWorkers
    <3>2. /\ Cardinality(ActiveWorkers) \in Nat /\ Cardinality(ActiveWorkers) <= Cardinality(Workers)
          /\ Cardinality(IOIdleWorkers) \in Nat /\ Cardinality(IOIdleWorkers) <= Cardinality(Workers)
          /\ Cardinality(Workers) \in Nat
      BY <3>1, WorkersAssumption, FS_Subset, FS_CardinalityType
    <3> QED BY <3>2 DEF CountInv, IOCountersExact
  <2> QED BY <2>1 DEF IOTypeOK, CoreInv, CoreTypes, CountInv, RestTypes
<1> QED BY <1>1, IOInvariance, PTL

\* A callable is handed from addTimer() to m_timers, to the batch of a
\* worker, to the list and to run(), each under a lock of its own: at every
\* moment it is in exactly one of them.
THEOREM CallablesInOnePlace == IOSpec => []InOnePlace
<1>1. ASSUME IOInv, NEW g \in Fibers, state[g] = "FUNC" PROVE Cardinality(Places(g)) = 1
  <2> USE <1>1 DEF IOInv, CoreInv
  <2>1. \A w \in Workers : pc[w] = "taken" /\ ff[w].fiber = g => ff[w] = CbTask(g) /\ ~Queued(g)
    <3> SUFFICES ASSUME NEW w \in Workers, pc[w] = "taken", ff[w].fiber = g PROVE ff[w].kind = "cb" /\ ~Queued(g)
      BY DEF HeldState, Holds, Task, CbTask
    <3> QED BY DEF HeldState, Holds, Task, OneWakeUp, Outstanding
  <2>2. \A i \in DOMAIN tasks : tasks[i].fiber = g <=> tasks[i] = CbTask(g)
    BY ListTyped DEF CoreTypes, QueuedState, Task, CbTask
  <2> DEFINE T == IF g \in timers THEN {<<"timer", NoFiber>>} ELSE {}
             C == {<<"cbs", w>> : w \in {v \in Workers : g \in cbs[v]}}
             L == {<<"list", i>> : i \in {j \in DOMAIN tasks : tasks[j] = CbTask(g)}}
             K == {<<"taken", w>> : w \in {v \in Workers : TakenBy(v, g)}}
  <2>3. Places(g) = T \cup C \cup L \cup K
    BY DEF Places
  <2>4. g \in timers \/ (\E w \in Workers : g \in cbs[w] \/ TakenBy(w, g)) \/ Queued(g)
    BY DEF CallablesKept
  <2>5. \E p : Places(g) = {p}
    <3>1. CASE g \in timers
      <4>1. T = {<<"timer", NoFiber>>} /\ C = {} /\ L = {} /\ K = {}
        BY <3>1, <2>2 DEF CallablesApart, Untouched, Queued
      <4> QED BY <4>1, <2>3
    <3>2. CASE g \notin timers /\ \E w \in Workers : g \in cbs[w]
      <4>1. PICK w \in Workers : g \in cbs[w]
        BY <3>2
      <4>2. {v \in Workers : g \in cbs[v]} = {w} /\ ~Queued(g) /\ \A v \in Workers : ~TakenBy(v, g)
        BY <4>1 DEF CallablesApart, Untouched
      <4>3. T = {} /\ C = {<<"cbs", w>>} /\ L = {} /\ K = {}
        BY <3>2, <4>2, <2>2 DEF Queued
      <4> QED BY <4>3, <2>3
    <3>3. CASE g \notin timers /\ (\A w \in Workers : g \notin cbs[w]) /\ \E w \in Workers : TakenBy(w, g)
      <4>1. PICK w \in Workers : TakenBy(w, g)
        BY <3>3
      <4>2. {v \in Workers : TakenBy(v, g)} = {w} /\ ~Queued(g)
        BY <4>1, <2>1 DEF TakenBy, OneWakeUp
      <4>3. T = {} /\ C = {} /\ L = {} /\ K = {<<"taken", w>>}
        BY <3>3, <4>2, <2>2 DEF Queued
      <4> QED BY <4>3, <2>3
    <3>4. CASE g \notin timers /\ (\A w \in Workers : g \notin cbs[w] /\ ~TakenBy(w, g)) /\ Queued(g)
      <4>1. PICK i \in DOMAIN tasks : tasks[i].fiber = g
        BY <3>4 DEF Queued
      <4>2. {j \in DOMAIN tasks : tasks[j] = CbTask(g)} = {i}
        BY <4>1, <2>2 DEF OneWakeUp
      <4>3. T = {} /\ C = {} /\ L = {<<"list", i>>} /\ K = {}
        BY <3>4, <4>2
      <4> QED BY <4>3, <2>3
    <3> QED BY <2>4, <3>1, <3>2, <3>3, <3>4
  <2> QED BY <2>5, FS_Singleton
<1>2. IOInv => InOnePlace
  BY <1>1 DEF InOnePlace
<1> QED BY <1>2, IOInvariance, PTL

\* A fiber that has left its wake-up with sleep() or addEvent() is waited for
\* by exactly one party, the callable of one timer or one fd event, and no
\* other fiber is: no sleeper is forgotten and none is woken twice.
THEOREM OneWakerEach == IOSpec => []OneWaker
<1>1. ASSUME IOInv, NEW f \in Fibers
      PROVE  Cardinality(Wakers(f)) + (IF f \in events THEN 1 ELSE 0) = IF f \in armed THEN 1 ELSE 0
  <2> USE <1>1 DEF IOInv, CoreInv
  <2>1. Wakers(f) = {g \in Fibers : WillWake(g, f)}
    BY DEF Wakers, WillWake
  <2>2. CASE \E g \in Fibers : WillWake(g, f)
    <3>1. PICK g \in Fibers : WillWake(g, f)
      BY <2>2
    <3>2. Wakers(f) = {g} /\ f \notin events /\ f \in armed
      BY <2>1, <3>1 DEF ArmedByOne
    <3>3. Cardinality(Wakers(f)) = 1
      BY <3>2, FS_Singleton
    <3> QED BY <3>2, <3>3
  <2>3. CASE ~\E g \in Fibers : WillWake(g, f)
    <3>1. Wakers(f) = {} /\ (f \in armed <=> f \in events)
      BY <2>1, <2>3 DEF ArmedByOne
    <3>2. Cardinality(Wakers(f)) = 0
      BY <3>1, FS_EmptySet
    <3> QED BY <3>1, <3>2
  <2> QED BY <2>2, <2>3
<1>2. IOInv => OneWaker
  BY <1>1 DEF OneWaker
<1> QED BY <1>2, IOInvariance, PTL

\* a_pendingEventCount, raised by addEvent() under one lock and lowered behind
\* triggerEvent() under none, is what stopping() takes it for.
THEOREM PendingCountExact == IOSpec => []PendingExact
BY IOInvariance, PTL DEF IOInv, CountInv

\* As long as delEvent() has not brought the process down, no coroutine is
\* ever suspended without a party that will schedule it.
THEOREM NoFiberLost == IOSpec => []NothingLost
BY IOInvariance, PTL DEF IOInv

\* No coroutine is executed by two workers of the IO manager.
THEOREM IONeverRunTwice == IOSpec => []NoDoubleRun
<1>1. IOInv => NoDoubleRun
  BY DEF IOInv, CoreInv, InsideApart, Inside, NoDoubleRun
<1> QED BY <1>1, IOInvariance, PTL

\* An fd event in error always ends the process: the fiber whose reset()
\* delEvent() calls is suspended or running, never ended or fresh.
THEOREM HangUpAborts ==
  IOSpec => [][\A w \in Workers, f \in Fibers : HangUp(w, f) => mpc' = "aborted"]_iovars
<1>1. IOInv => [\A w \in Workers, f \in Fibers : HangUp(w, f) => mpc' = "aborted"]_iovars
  BY HangUpCore DEF IOInv
<1> QED BY <1>1, IOInvariance, PTL

------------------------------------------------------------------------------
(* What stop() leaves behind                                                *)

\* Worker w will look at the list again before it leaves run().
WillLook(w) == pc[w] \notin {"off", "done"} /\ (pc[w] = "none" => w \notin quit)

\* The owner will, in stop(), or finds the list empty there.
OwnerWillLook == Caller \in Workers /\ mpc \in {"open", "stop1", "stop2", "stopchk2", "stopchk3"}

\* A list that is not empty has a thread that will look at it, although
\* workers leave on an answer of stopping() that may be out of date.
ListHasWorker ==
  /\ mpc # "ctor" /\ (stopping => mpc \notin {"open", "stop1"})
  /\ quit # {} => stopping
  /\ mpc \in {"stopchk2", "stopchk3"} => Caller \in Workers
  /\ \A w \in Workers :
       /\ pc[w] = "done" => w \in quit
       /\ w # Caller => pc[w] # "off"
  /\ mpc \in {"join", "stopped"} /\ Caller \in Workers => pc[Caller] \in {"off", "done"}
  /\ mpc = "stopped" => \A w \in Workers \ {Caller} : pc[w] = "done"
  /\ mpc # "aborted" /\ tasks # <<>> => OwnerWillLook \/ \E w \in Workers : WillLook(w)

\* A worker that goes on towards the list, or puts something into it.
LEMMA LookMove ==
  ASSUME CoreTypes, OwnerOutside, ListHasWorker, NEW w \in Workers, NEW q,
         pc[w] \notin {"off", "done"}, pc' = [pc EXCEPT ![w] = q],
         q \notin {"off", "done", "none"},
         quit' = quit \/ (quit' = quit \cup {w} /\ stopping), UNCHANGED <<stopping, mpc>>
  PROVE  ListHasWorker'
<1>1. pc'[w] = q /\ \A v \in Workers \ {w} : pc'[v] = pc[v]
  BY DEF CoreTypes
<1>2. WillLook(w)'
  BY <1>1 DEF WillLook
<1>3. w = Caller => mpc \notin {"join", "stopped"}
  BY DEF ListHasWorker
<1>4. w # Caller => mpc # "stopped"
  BY DEF ListHasWorker
<1> QED BY <1>1, <1>2, <1>3, <1>4 DEF ListHasWorker

\* Every step keeps it.
LEMMA ListHasWorkerKeeps ==
  ASSUME IOInv, ListHasWorker, [IONext]_iovars
  PROVE  ListHasWorker'
<1> USE DEF IOInv, CoreInv, CountInv
<1>1. ASSUME UNCHANGED <<pc, quit, tasks, stopping>>, mpc' = mpc \/ mpc' = "aborted"
      PROVE  ListHasWorker'
  BY <1>1 DEF ListHasWorker, OwnerWillLook, WillLook
<1>2. CASE Finished \/ UNCHANGED iovars \/ \E t \in Threads : Tickles(t)
  BY <1>1, <1>2 DEF Finished, iovars, vars, Tickles, TickleCheck, TickleWrite
<1>3. CASE OwnerStop
  <2>1. CASE StopBegin \/ StopFlag
    BY <2>1 DEF StopBegin, StopFlag, ListHasWorker, OwnerWillLook, WillLook, workVars
  <2>2. CASE CallReturns \/ Join
    BY <2>2 DEF CallReturns, Join, ListHasWorker, OwnerWillLook, WillLook, workVars, flagVars
  <2> QED BY <1>3, <2>1, <2>2 DEF OwnerStop
<1>4. CASE OwnerChecks
  <2>1. /\ Caller \in Workers /\ pc[Caller] = "off"
        /\ UNCHANGED <<tasks, quit, stopping>>
        /\ \/ mpc = "stop2" /\ mpc' = "stopchk2" /\ pc' = pc
           \/ mpc = "stopchk2" /\ mpc' = "stopchk3" /\ pc' = pc
           \/ mpc = "stopchk3" /\ mpc' = "join" /\ tasks = <<>> /\ pc' = pc
           \/ /\ mpc \in {"stop2", "stopchk2", "stopchk3"}
              /\ mpc' = "call" /\ pc' = [pc EXCEPT ![Caller] = "loop"]
    BY <1>4 DEF OwnerChecks, OwnerOutside, Goto, Stopping, flagVars
  <2>2. CASE pc' = pc
    BY <2>1, <2>2 DEF ListHasWorker, OwnerWillLook, WillLook, CoreTypes
  <2>3. CASE mpc' = "call" /\ pc' = [pc EXCEPT ![Caller] = "loop"]
    <3>1. pc'[Caller] = "loop" /\ \A w \in Workers \ {Caller} : pc'[w] = pc[w]
      BY <2>1, <2>3 DEF CoreTypes
    <3>2. WillLook(Caller)'
      BY <3>1 DEF WillLook
    <3> QED BY <2>1, <2>3, <3>1, <3>2 DEF ListHasWorker
  <2> QED BY <2>1, <2>2, <2>3
<1>5. CASE OwnerSkips
  BY <1>5 DEF OwnerSkips, StopNoCall, ListHasWorker, OwnerWillLook, WillLook, workVars, flagVars, ioVars
<1>6. CASE \E f \in Fibers : OwnerSchedule(f) \/ OwnerAddTimer(f)
  <2>1. UNCHANGED <<pc, quit, stopping, mpc>> /\ mpc \in {"ctor", "open"}
    BY <1>6 DEF OwnerSchedule, MainSchedule, OwnerAddTimer, workVars, flagVars
  <2>2. mpc = "open"
    BY <2>1 DEF ListHasWorker
  <2>3. Caller \notin Workers => \E w \in Workers : WillLook(w)
    BY <2>2, WorkersAssumption DEF ListHasWorker, WillLook
  <2> QED BY <2>1, <2>2, <2>3 DEF ListHasWorker, OwnerWillLook, WillLook
<1>7. ASSUME NEW w \in Workers, mpc # "aborted", Runs(w) PROVE ListHasWorker'
  <2>1. CASE TakeNothing(w)
    <3>1. /\ pc[w] = "loop" /\ pc' = [pc EXCEPT ![w] = "none"]
          /\ \A i \in DOMAIN tasks : ~Takable(tasks[i])
          /\ UNCHANGED <<tasks, stopping, quit, mpc>>
      BY <2>1 DEF TakeNothing, Goto, flagVars
    <3>2. pc'[w] = "none" /\ \A v \in Workers \ {w} : pc'[v] = pc[v]
      BY <3>1 DEF CoreTypes
    <3>3. ASSUME tasks # <<>> PROVE \E v \in Workers \ {w} : WillLook(v)
      <4>1. 1 \in DOMAIN tasks /\ tasks[1].fiber \in Fibers
        BY <3>3, ListTyped DEF CoreTypes
      <4>2. state[tasks[1].fiber] = "EXEC"
        BY <4>1, <3>1 DEF Takable
      <4>3. PICK v \in Workers : Inside(v)
        BY <1>7, <4>1, <4>2 DEF NothingLost
      <4>4. v # w /\ WillLook(v)
        BY <4>3, <3>1 DEF Inside, WillLook
      <4> QED BY <4>4
    <3>4. w = Caller => mpc \notin {"join", "stopped"}
      BY <3>1 DEF ListHasWorker
    <3>5. mpc # "stopped"
      BY <3>1, <3>4 DEF ListHasWorker
    <3>6. mpc' # "aborted" /\ tasks' # <<>> => \E v \in Workers : WillLook(v)'
      BY <3>1, <3>2, <3>3 DEF WillLook
    <3> QED BY <3>1, <3>2, <3>4, <3>5, <3>6 DEF ListHasWorker
  <2>2. CASE Exit(w)
    <3>1. /\ pc[w] = "none" /\ w \in quit /\ pc' = [pc EXCEPT ![w] = "done"]
          /\ UNCHANGED <<tasks, stopping, quit, mpc>>
      BY <2>2 DEF Exit, Goto, flagVars
    <3>2. pc'[w] = "done" /\ \A v \in Workers \ {w} : pc'[v] = pc[v]
      BY <3>1 DEF CoreTypes
    <3>3. \A v \in Workers : WillLook(v) => WillLook(v)'
      BY <3>1, <3>2 DEF WillLook
    <3> QED BY <3>1, <3>2, <3>3 DEF ListHasWorker, OwnerWillLook
  <2>3. CASE ~TakeNothing(w) /\ ~Exit(w)
    <3>1. PICK q : q \in {"taken", "exec", "loop", "ret", "idle"} /\ pc' = [pc EXCEPT ![w] = q]
      BY <1>7, <2>3 DEF Runs, RunStep, Take, SwapIn, Drop, DecActive, Retire, IdleIn, IdleOut, Goto
    <3>2. pc[w] \notin {"off", "done"} /\ UNCHANGED <<quit, stopping, mpc>>
      BY <1>7, <2>3 DEF Runs, RunStep, Take, SwapIn, Drop, DecActive, Retire, IdleIn, IdleOut, flagVars
    <3> QED BY <3>1, <3>2, LookMove
  <2> QED BY <2>1, <2>2, <2>3
<1>8. ASSUME NEW w \in Workers, Idles(w) PROVE ListHasWorker'
  <2>1. CASE \E f \in Fibers : HangUp(w, f)
    BY <1>1, <2>1, HangUpCore DEF HangUp, workVars, flagVars
  <2>2. CASE ~\E f \in Fibers : HangUp(w, f)
    <3>1. PICK q : /\ q \in {"chk2", "chk3", "poll", "fire", "cbs", "ev", "dec", "idleret"}
                   /\ pc' = [pc EXCEPT ![w] = q]
      BY <1>8, <2>2 DEF Idles, CheckTimers, CheckPending, CheckScheduler, Poll, Expire, ScheduleCbs,
         DecPending, EventsDone, Trigger, IdleAt, Goto
    <3>2. pc[w] \notin {"off", "done"} /\ UNCHANGED <<stopping, mpc>>
      BY <1>8, <2>2 DEF Idles, CheckTimers, CheckPending, CheckScheduler, Poll, Expire, ScheduleCbs,
         DecPending, EventsDone, Trigger, IdleAt, flagVars
    <3>3. quit' = quit \/ (quit' = quit \cup {w} /\ stopping)
      BY <1>8, <2>2 DEF Idles, CheckTimers, CheckPending, CheckScheduler, Poll, Expire, ScheduleCbs,
         DecPending, EventsDone, Trigger, Stopping
    <3> QED BY <3>1, <3>2, <3>3, LookMove
  <2> QED BY <2>1, <2>2
<1>9. ASSUME NEW w \in Workers, Executes(w) PROVE ListHasWorker'
  <2>1. pc[w] = "exec" /\ UNCHANGED <<quit, stopping, mpc>>
    BY <1>9 DEF Executes, AddEvent, Arm, Leaves, InApplication, Application, Yield, Finish, WakeSleeper,
       SpawnIO, Spawn, Sleep, workVars, flagVars
  <2>2. pc' = pc \/ pc' = [pc EXCEPT ![w] = "back"]
    BY <1>9 DEF Executes, AddEvent, Arm, Leaves, InApplication, Application, Yield, Finish, WakeSleeper,
       SpawnIO, Spawn, Sleep, Goto, workVars
  <2>3. pc = [pc EXCEPT ![w] = "exec"]
    BY <2>1 DEF CoreTypes
  <2>4. PICK q : q \in {"exec", "back"} /\ pc' = [pc EXCEPT ![w] = q]
    BY <2>2, <2>3
  <2> QED BY <2>1, <2>4, LookMove
<1> QED BY <1>2, <1>3, <1>4, <1>5, <1>6, <1>7, <1>8, <1>9 DEF IONext

\* What stop() has left when it returns.
LEMMA LeftBehind ==
  ASSUME IOInv, ListHasWorker, mpc = "stopped"
  PROVE  /\ tasks = <<>> /\ \A w \in Workers : cbs[w] = {}
         /\ \A f \in Fibers :
              \/ state[f] \in {"NONE", "TERM"}
              \/ state[f] = "FUNC" /\ f \in timers
              \/ state[f] = "HOLD" /\ (f \in events \/ \E g \in timers : wakes[g] = f)
<1> USE DEF IOInv, CoreInv
<1>1. \A w \in Workers : pc[w] \in {"off", "done"} /\ ~WillLook(w)
  BY DEF ListHasWorker, WillLook
<1>2. tasks = <<>>
  BY <1>1 DEF ListHasWorker, OwnerWillLook
<1>3. /\ \A w \in Workers : cbs[w] = {} /\ ~Inside(w) /\ \A f : ~TakenBy(w, f)
      /\ \A f : ~Queued(f)
  BY <1>1, <1>2 DEF CallablesApart, Inside, TakenBy, Queued
<1>4. ASSUME NEW f \in Fibers
      PROVE  /\ state[f] \notin {"INIT", "EXEC"} /\ (state[f] = "FUNC" => f \in timers)
             /\ state[f] = "HOLD" => f \in armed
  BY <1>3 DEF NothingLost, CallablesKept, Outstanding
<1>5. ASSUME NEW f \in armed
      PROVE  f \in events \/ \E g \in timers : wakes[g] = f
  <2>1. f \in Fibers
    BY DEF CoreTypes
  <2>2. \A g \in Fibers : WillWake(g, f) => g \in timers /\ wakes[g] = f
    BY <1>4 DEF WillWake
  <2> QED BY <2>1, <2>2 DEF ArmedByOne
<1>6. \A f \in Fibers : state[f] \in {"NONE", "FUNC", "HOLD", "TERM"}
  BY <1>4 DEF CoreTypes, FiberState
<1> QED BY <1>2, <1>3, <1>4, <1>5, <1>6

\* Whatever workers find in the three reads of stopping(), and however many
\* there are: they leave no callable, task or wake-up on its way and no fiber
\* half run.  A fiber that is left waits for a timer or an event.
THEOREM OnlyWaitersAreLeft == IOSpec => []OnlyWaitersLeft
<1>1. IOInit => ListHasWorker
  BY DEF IOInit, ListHasWorker
<1>2. IOInv /\ ListHasWorker /\ [IONext]_iovars => ListHasWorker'
  BY ListHasWorkerKeeps
<1>3. IOInv /\ ListHasWorker => OnlyWaitersLeft
  BY LeftBehind DEF OnlyWaitersLeft
<1> QED BY <1>1, <1>2, <1>3, IOInvariance, PTL DEF IOSpec

------------------------------------------------------------------------------
(* One worker: stopping() and stop()                                        *)

\* With one worker every step keeps what the worker or the owner has found out
\* in the reads of stopping().
LEMMA LastLookKeeps ==
  ASSUME NEW one, Workers = {one}, IOInv, LastLook, [IONext]_iovars
  PROVE  LastLook'
<1> USE DEF IOInv, CoreInv, CountInv
<1>0. pending = 0 => events = {}
  <2>1. IsFiniteSet({w \in Workers : pc[w] = "dec"})
    BY WorkersAssumption, FS_Subset
  <2>2. Cardinality({w \in Workers : pc[w] = "dec"}) \in Nat /\ Cardinality(events) \in Nat
    BY <2>1, FS_CardinalityType
  <2>3. pending = 0 => Cardinality(events) = 0
    BY <2>2 DEF PendingExact
  <2> QED BY <2>3, FS_EmptySet
<1>1. ASSUME UNCHANGED <<pc, quit, timers, wakes, events, stopping>>,
             mpc' = mpc \/ mpc' = "aborted", AllGone => tasks' = tasks
      PROVE  LastLook'
  BY <1>1 DEF LastLook, AllGone, NoSleeper
<1>2. pc[one] # "off" => ~(mpc \in {"open", "stop1", "stop2", "stopchk2", "stopchk3"} /\ Caller \in Workers)
  BY DEF OwnerOutside
<1>3. CASE Finished \/ UNCHANGED iovars \/ \E t \in Threads : Tickles(t)
  BY <1>1, <1>3 DEF Finished, iovars, vars, ioVars, Tickles, TickleCheck, TickleWrite, timerVars, eventVars
<1>4. CASE OwnerStop
  <2>1. CASE StopBegin \/ StopFlag
    BY <1>4, <2>1 DEF OwnerStop, StopBegin, StopFlag, LastLook, AllGone, NoSleeper, workVars, ioVars
  <2>2. CASE CallReturns \/ Join
    BY <1>4, <2>2 DEF OwnerStop, CallReturns, Join, LastLook, AllGone, NoSleeper, workVars, flagVars, ioVars
  <2> QED BY <1>4, <2>1, <2>2 DEF OwnerStop
<1>5. CASE OwnerChecks
  <2>1. /\ Caller = one /\ pc[one] = "off" /\ one \notin quit
        /\ UNCHANGED <<tasks, timers, wakes, events, quit, stopping>>
        /\ \/ mpc = "stop2" /\ mpc' = "stopchk2" /\ timers = {} /\ pc' = pc
           \/ mpc = "stopchk2" /\ mpc' = "stopchk3" /\ pending = 0 /\ pc' = pc
           \/ mpc = "stopchk3" /\ mpc' = "join" /\ Stopping /\ pc' = pc
           \/ mpc' = "call" /\ pc' = [pc EXCEPT ![one] = "loop"]
    BY <1>5 DEF OwnerChecks, OwnerOutside, LastLook, Goto, flagVars, eventVars
  <2> QED BY <1>0, <2>1 DEF LastLook, AllGone, NoSleeper, Stopping, CoreTypes
<1>6. CASE OwnerSkips
  BY <1>6 DEF OwnerSkips, StopNoCall, LastLook, AllGone, NoSleeper, workVars, flagVars, ioVars
<1>7. CASE \E f \in Fibers : OwnerSchedule(f) \/ OwnerAddTimer(f)
  <2>1. /\ UNCHANGED <<pc, quit, events, stopping, mpc>>
        /\ mpc \in {"ctor", "open"}
        /\ NoSleeper => NoSleeper'
    BY <1>7 DEF OwnerSchedule, MainSchedule, OwnerAddTimer, AddTimer, NoSleeper, CoreTypes, workVars, flagVars, timerVars,
       eventVars
  <2>2. quit = {}
    BY <2>1 DEF LastLook
  <2> QED BY <2>1, <2>2 DEF LastLook, AllGone
<1>8. CASE Runs(one)
  <2>1. UNCHANGED <<timers, wakes, events, stopping, quit, mpc>> /\ pc[one] \notin {"off", "done"}
    BY <1>8 DEF Runs, RunStep, Take, TakeNothing, SwapIn, Drop, DecActive, Retire, Exit, IdleIn, IdleOut,
       flagVars, ioVars
  <2>2. mpc \notin {"stopchk2", "stopchk3"} \/ Caller # one
    BY <2>1 DEF OwnerOutside
  <2>3. pc'[one] \in {"taken", "none", "exec", "loop", "ret", "done", "idle"}
    BY <1>8 DEF Runs, RunStep, Take, TakeNothing, SwapIn, Drop, DecActive, Retire, Exit, IdleIn, IdleOut,
       Goto, CoreTypes
  <2>4. pc'[one] = "done" => one \in quit
    BY <1>8 DEF Runs, RunStep, Take, TakeNothing, SwapIn, Drop, DecActive, Retire, Exit, IdleIn, IdleOut,
       Goto, CoreTypes
  <2>5. one \in quit => tasks' = tasks /\ pc'[one] \in {"loop", "none", "done"}
    BY <1>8 DEF Runs, RunStep, Take, TakeNothing, SwapIn, Drop, DecActive, Retire, Exit, IdleIn, IdleOut,
       Goto, CoreTypes, LastLook, AllGone
  <2>6. mpc \in {"join", "stopped"} /\ Caller \in Workers => FALSE
    BY <2>1 DEF LastLook
  <2>7. mpc # "stopped"
    BY <2>1, <2>6 DEF LastLook
  <2> QED BY <2>1, <2>2, <2>3, <2>4, <2>5, <2>6, <2>7 DEF LastLook, AllGone, NoSleeper
<1>9. CASE Idles(one)
  <2>1. CASE \E f \in Fibers : HangUp(one, f)
    <3>1. mpc' = "aborted" /\ pc[one] = "ev" /\ UNCHANGED <<pc, quit, stopping>>
      BY <2>1, HangUpCore DEF HangUp, workVars, flagVars
    <3> QED BY <3>1 DEF LastLook
  <2>2. CASE ~\E f \in Fibers : HangUp(one, f)
    <3>1. /\ pc[one] \in {"idle", "chk2", "chk3", "poll", "fire", "cbs", "ev", "dec"}
          /\ UNCHANGED <<stopping, mpc>>
      BY <1>9, <2>2 DEF Idles, CheckTimers, CheckPending, CheckScheduler, Poll, Expire, ScheduleCbs,
         DecPending, EventsDone, Trigger, IdleAt, flagVars
    <3>2. one \notin quit /\ quit = {}
      BY <3>1, WorkersAssumption DEF LastLook, AllGone
    <3>3. mpc \notin {"join", "stopped"} \/ Caller # one
      BY <3>1 DEF LastLook
    <3>4. mpc # "stopped"
      BY <3>1, <3>3 DEF LastLook
    <3>5. timers' \subseteq timers /\ wakes' = wakes /\ events' \subseteq events
      BY <1>9, <2>2 DEF Idles, CheckTimers, CheckPending, CheckScheduler, Poll, Expire, ScheduleCbs,
         DecPending, EventsDone, Trigger, timerVars, eventVars
    <3>6. pc'[one] = "chk2" => timers = {}
      BY <1>9, <2>2, <3>1 DEF Idles, CheckTimers, CheckPending, CheckScheduler, Poll, Expire, ScheduleCbs,
         DecPending, EventsDone, Trigger, IdleAt, Goto, CoreTypes
    <3>7. pc'[one] = "chk3" => pc[one] = "chk2" /\ pending = 0
      BY <1>9, <2>2, <3>1 DEF Idles, CheckTimers, CheckPending, CheckScheduler, Poll, Expire, ScheduleCbs,
         DecPending, EventsDone, Trigger, IdleAt, Goto, CoreTypes
    <3>8. pending = 0 => events = {}
      BY <1>0
    <3>9. pc'[one] # "done"
      BY <1>9, <2>2, <3>1 DEF Idles, CheckTimers, CheckPending, CheckScheduler, Poll, Expire, ScheduleCbs,
         DecPending, EventsDone, Trigger, IdleAt, Goto, CoreTypes
    <3>10. \/ quit' = quit
           \/ /\ quit' = quit \cup {one} /\ pc[one] = "chk3" /\ pc'[one] = "idleret" /\ Stopping
              /\ UNCHANGED <<tasks, timers, wakes, events>>
      BY <1>9, <2>2 DEF Idles, CheckTimers, CheckPending, CheckScheduler, Poll, Expire, ScheduleCbs,
         DecPending, EventsDone, Trigger, IdleAt, Goto, CoreTypes, timerVars, eventVars
    <3>11. quit' # {} => /\ stopping /\ AllGone' /\ pc'[one] = "idleret"
      BY <3>2, <3>10 DEF LastLook, AllGone, NoSleeper, Stopping
    <3>12. quit' \subseteq Workers
      BY <3>10 DEF LastLook
    <3> QED BY <3>1, <3>3, <3>4, <3>5, <3>6, <3>7, <3>8, <3>9, <3>11, <3>12 DEF LastLook, NoSleeper
  <2> QED BY <2>1, <2>2
<1>10. CASE Executes(one)
  <2>1. pc[one] = "exec" /\ UNCHANGED <<quit, stopping, mpc>> /\ pc'[one] \in {"exec", "back"}
    BY <1>10 DEF Executes, AddEvent, Arm, Leaves, InApplication, Application, Yield, Finish, WakeSleeper,
       SpawnIO, Spawn, Sleep, Goto, workVars, flagVars, CoreTypes
  <2>2. mpc \notin {"stopchk2", "stopchk3", "stopped"} /\ quit = {} /\ ~(mpc = "join" /\ Caller \in Workers)
    BY <1>2, <2>1 DEF LastLook, AllGone
  <2> QED BY <2>1, <2>2 DEF LastLook
<1> QED BY <1>3, <1>4, <1>5, <1>6, <1>7, <1>8, <1>9, <1>10 DEF IONext

\* It is an invariant of an IO manager with one worker.
LEMMA LastLookHolds ==
  ASSUME NEW one, Workers = {one}
  PROVE  IOSpec => [](IOInv /\ LastLook)
<1>1. IOInit => LastLook
  BY DEF IOInit, LastLook
<1>2. IOInv /\ LastLook /\ [IONext]_iovars => LastLook'
  BY LastLookKeeps
<1> QED BY <1>1, <1>2, IOInvariance, PTL DEF IOSpec

\* When stop() has returned no task, event or fiber is left, and no timer but
\* the owner's own.
LEMMA StoppedIsEmpty ==
  ASSUME NEW one, Workers = {one}, IOInv, LastLook, mpc = "stopped"
  PROVE  /\ tasks = <<>> /\ NoSleeper /\ events = {} /\ armed = {}
         /\ cbs[one] = {}
         /\ \A f \in Fibers : state[f] \in {"NONE", "TERM"} \/ (f \in timers /\ state[f] = "FUNC")
<1> USE DEF IOInv, CoreInv
<1>1. AllGone /\ pc[one] \in {"off", "done"}
  BY DEF LastLook
<1>2. /\ tasks = <<>> /\ NoSleeper /\ events = {} /\ cbs[one] = {}
      /\ \A f : ~Queued(f) /\ ~TakenBy(one, f) /\ ~Inside(one)
  BY <1>1 DEF AllGone, CallablesApart, Queued, TakenBy, Inside
<1>3. \A f \in Fibers : state[f] \notin {"INIT", "EXEC"} /\ (state[f] = "FUNC" => f \in timers)
  BY <1>2 DEF CallablesKept, NothingLost
<1>4. armed = {}
  BY <1>2, <1>3, NoFiberAssumption DEF ArmedByOne, WillWake, CoreTypes, NoSleeper
<1>5. \A f \in Fibers : state[f] \in {"NONE", "TERM", "FUNC"}
  BY <1>2, <1>3, <1>4 DEF CoreTypes, FiberState, NothingLost, Outstanding
<1> QED BY <1>2, <1>3, <1>4, <1>5

\* With one worker stop() leaves no fiber behind, whatever timers the owner
\* sets and although stopping() is three reads under three locks; what may be
\* left are timers of the owner's whose callables have not run.
THEOREM OneWorkerLeavesNoFiber ==
  ASSUME NEW one, Workers = {one}
  PROVE  IOSpec => [](mpc = "stopped" =>
                        /\ armed = {} /\ events = {}
                        /\ \A f \in Fibers : state[f] \in {"NONE", "TERM"} \/ (f \in timers /\ state[f] = "FUNC"))
<1>1. IOInv /\ LastLook => (mpc = "stopped" =>
                              /\ armed = {} /\ events = {}
                              /\ \A f \in Fibers : state[f] \in {"NONE", "TERM"} \/ (f \in timers /\ state[f] = "FUNC"))
  BY StoppedIsEmpty
<1> QED BY <1>1, LastLookHolds, PTL

\* An owner that sets no timers leaves only those of sleep().
TimersOfSleepers == \A g \in timers : wakes[g] # NoFiber

\* Every step keeps it.
LEMMA SleeperTimersKeep ==
  ASSUME OwnerTimers = {}, IOInv, TimersOfSleepers, [IONext]_iovars
  PROVE  TimersOfSleepers'
<1> USE DEF IOInv, CoreInv
<1>1. ASSUME wakes' = wakes, timers' \subseteq timers
      PROVE  TimersOfSleepers'
  BY <1>1 DEF TimersOfSleepers
<1>2. CASE Finished \/ UNCHANGED iovars \/ OwnerStop \/ OwnerChecks \/ OwnerSkips \/ \E t \in Threads : Tickles(t)
  BY <1>1, <1>2 DEF Finished, OwnerStop, OwnerChecks, OwnerSkips, Tickles, TickleCheck, TickleWrite, iovars, ioVars,
     timerVars
<1>3. CASE \E f \in Fibers : OwnerSchedule(f) \/ OwnerAddTimer(f)
  BY <1>1, <1>3 DEF OwnerSchedule, OwnerAddTimer, timerVars
<1>4. ASSUME NEW w \in Workers, Runs(w) \/ Idles(w)
      PROVE  TimersOfSleepers'
  BY <1>1, <1>4 DEF Runs, ioVars, Idles, CheckTimers, CheckPending, CheckScheduler, Poll, Expire, ScheduleCbs,
     DecPending, EventsDone, Trigger, HangUp, timerVars
<1>5. ASSUME NEW w \in Workers, NEW g \in Fibers, Sleep(w, g)
      PROVE  TimersOfSleepers'
  <2>1. pc[w] = "exec"
    BY <1>5 DEF Sleep, Application, InApplication
  <2>2. ff[w].fiber \in Fibers
    BY <2>1 DEF HeldState, Holds, Inside, CoreTypes, Task
  <2>3. timers' = timers \cup {g} /\ wakes' = [wakes EXCEPT ![g] = ff[w].fiber]
    BY <1>5 DEF Sleep, AddTimer
  <2> QED BY <2>2, <2>3, NoFiberAssumption DEF TimersOfSleepers, CoreTypes
<1>6. ASSUME NEW w \in Workers, AddEvent(w) \/ Leaves(w) \/ WakeSleeper(w) \/ \E f \in Fibers : SpawnIO(w, f)
      PROVE  TimersOfSleepers'
  BY <1>1, <1>6 DEF AddEvent, Leaves, WakeSleeper, SpawnIO, ioVars, timerVars
<1> QED BY <1>2, <1>3, <1>4, <1>5, <1>6 DEF IONext, Executes

\* With one worker, and an owner that sets no timers after start(), nothing
\* is left behind: when stop() has returned there is no task, timer or fd
\* event, and every coroutine has ended, although stopping() is three reads
\* under three locks.
THEOREM OneWorkerAbandonsNothing ==
  ASSUME NEW one, Workers = {one}, OwnerTimers = {}
  PROVE  IOSpec => []NothingAbandoned
<1>1. IOInit => TimersOfSleepers
  BY DEF IOInit, TimersOfSleepers
<1>2. IOInv /\ TimersOfSleepers /\ [IONext]_iovars => TimersOfSleepers'
  BY SleeperTimersKeep
<1>3. IOInv /\ LastLook /\ TimersOfSleepers => NothingAbandoned
  BY StoppedIsEmpty DEF NothingAbandoned, NoSleeper, TimersOfSleepers
<1> QED BY <1>1, <1>2, <1>3, LastLookHolds, PTL DEF IOSpec
==============================================================================
