------------------------- MODULE SchedulerPool_proofs -------------------------
(***************************************************************************)
(* Proof that the scheduler implements FiberPool, for any number of        *)
(* workers and coroutines, and that it loses a fiber in one way only.      *)
(* Besides the invariant of Scheduler_proofs both need that a fiber which  *)
(* has swapped out to wait has its wake-up.                                *)
(***************************************************************************)
EXTENDS Scheduler_proofs

\* YieldToHold() is called with a wake-up underway, and that is not used up before run() is through with the fiber.
AsleepIsWoken ==
  \A w \in Workers : pc[w] \in {"back", "ret"} /\ state[ff[w].fiber] = "EXEC" => Outstanding(ff[w].fiber)

------------------------------------------------------------------------------
(* What a step does to the list and to the fibers that are inside           *)

\* What is held has a fiber.
LEMMA HeldFiber ==
  ASSUME IInv, NEW w \in Workers, Holds(w)
  PROVE  ff[w] \in Task /\ ff[w].fiber \in Fibers /\ ff[w].kind \in {"cb", "fiber"} /\ ff[w] # NoTask
BY NoTaskAssumption DEF IInv, HeldState, Task

\* schedule() adds one wake-up.
LEMMA SubmitQueues ==
  ASSUME IInv, NEW f \in Fibers, Submit(f)
  PROVE  /\ state[f] = "NONE" /\ state'[f] \in {"FUNC", "INIT"}
         /\ \A g \in Fibers : g # f => state'[g] = state[g]
         /\ \A g : Queued(g)' <=> Queued(g) \/ g = f
         /\ armed' = armed
<1>1. PICK t \in Task : /\ Schedule(t)
                        /\ t.fiber = f
                        /\ state' = [state EXCEPT ![f] = IF t.kind = "cb" THEN "FUNC" ELSE "INIT"]
  BY DEF Submit, CbTask, FiberTask, Task, SetState
<1>2. \A g : Queued(g)' <=> Queued(g) \/ g = f
  BY <1>1, AppendTask DEF IInv
<1> QED BY <1>1, <1>2 DEF Submit, IInv, TypeOK

\* The holder of a wake-up hands it over.
LEMMA DeliverQueues ==
  ASSUME IInv, NEW f \in Fibers, Deliver(f)
  PROVE  \A g : Queued(g)' <=> Queued(g) \/ g = f
<1>1. FiberTask(f) \in Task /\ FiberTask(f).fiber = f
  BY DEF FiberTask, Task
<1> QED BY <1>1, AppendTask DEF IInv, Deliver

\* A worker takes a task of a fiber that nobody is inside.
LEMMA TakeQueues ==
  ASSUME IInv, NEW w \in Workers, Take(w)
  PROVE  /\ ff'[w] \in Task /\ Queued(ff'[w].fiber) /\ state[ff'[w].fiber] # "EXEC"
         /\ ff'[w].fiber \in Fibers
         /\ \A v \in Workers : v # w => ff'[v] = ff[v] /\ pc'[v] = pc[v]
         /\ pc[w] = "loop" /\ pc'[w] = "taken"
         /\ \A g : Queued(g)' <=> Queued(g) /\ g # ff'[w].fiber
         /\ UNCHANGED <<state, armed>>
<1>1. PICK i \in DOMAIN tasks : /\ Takable(tasks[i])
                                /\ ff' = [ff EXCEPT ![w] = tasks[i]]
                                /\ tasks' = RemoveAt(tasks, i)
  BY DEF Take
<1>2. tasks[i] \in Task /\ tasks[i].fiber \in Fibers
  BY TasksTyped DEF IInv
<1>3. /\ pc \in [Workers -> Point] /\ ff \in [Workers -> Task \cup {NoTask}]
      /\ pc' = [pc EXCEPT ![w] = "taken"] /\ pc[w] = "loop"
  BY DEF IInv, TypeOK, Take, Goto
<1>4. ff'[w] = tasks[i]
  BY <1>1, <1>3
<1>5. state[tasks[i].fiber] # "EXEC"
  BY <1>1, <1>2 DEF IInv, QueuedState, Takable, Task
<1>6. \A g : Queued(g)' <=> Queued(g) /\ g # tasks[i].fiber
  BY <1>1, RemoveTask DEF IInv
<1>7. Queued(tasks[i].fiber)
  BY DEF Queued
<1> QED BY <1>1, <1>2, <1>3, <1>4, <1>5, <1>6, <1>7 DEF Take, fiberVars

\* run() is through with the fiber it has swapped in.
LEMMA RetireQueues ==
  ASSUME IInv, NEW w \in Workers, Retire(w)
  PROVE  LET t == ff[w]
         IN /\ t \in Task /\ t.fiber \in Fibers /\ pc[w] = "ret" /\ pc'[w] = "loop"
            /\ \A v \in Workers : v # w => ff'[v] = ff[v] /\ pc'[v] = pc[v]
            /\ \A g : Queued(g)' <=> Queued(g) \/ (g = t.fiber /\ Requeued(t))
            /\ \A g \in Fibers : state'[g] = IF g = t.fiber /\ ~Requeued(t) /\ state[g] # "TERM" THEN "HOLD" ELSE state[g]
            /\ armed' = armed
<1>1. ff[w] \in Task /\ ff[w].fiber \in Fibers /\ pc[w] = "ret"
  BY HeldFiber DEF Retire, Holds, Inside
<1>2. CASE Requeued(ff[w])
  <2>1. \A g : Queued(g)' <=> Queued(g) \/ g = ff[w].fiber
    BY <1>1, <1>2, AppendTask DEF IInv, Retire
  <2> QED BY <1>1, <1>2, <2>1 DEF IInv, TypeOK, Retire, Goto
<1>3. CASE ~Requeued(ff[w])
  <2>1. tasks' = tasks /\ armed' = armed
    BY <1>3 DEF Retire
  <2>2. \A g : Queued(g)' <=> Queued(g)
    BY <2>1 DEF Queued
  <2>3. \A g \in Fibers : state'[g] = IF g = ff[w].fiber /\ state[g] # "TERM" THEN "HOLD" ELSE state[g]
    BY <1>1, <1>3 DEF IInv, TypeOK, Retire, SetState
  <2>4. \A v \in Workers : v # w => ff'[v] = ff[v] /\ pc'[v] = pc[v]
    BY DEF Retire, Goto, IInv, TypeOK
  <2>5. pc'[w] = "loop"
    BY DEF Retire, Goto, IInv, TypeOK
  <2> QED BY <1>1, <1>3, <2>1, <2>2, <2>3, <2>4, <2>5
<1> QED BY <1>2, <1>3

\* A step of run() or of a fiber that only moves its worker.
LEMMA Moves ==
  ASSUME IInv, NEW w \in Workers, NEW p, Goto(w, p)
  PROVE  pc'[w] = p /\ \A v \in Workers : v # w => pc'[v] = pc[v]
BY DEF IInv, TypeOK, Goto

\* The list does not change when m_tasks does not.
LEMMA SameList ==
  ASSUME tasks' = tasks
  PROVE  \A g : Queued(g)' <=> Queued(g)
BY DEF Queued

------------------------------------------------------------------------------
(* A fiber that waits has its wake-up                                       *)

\* The steps of the other workers and of the owner leave a wake-up where it is or pass it on.
LEMMA AsleepStep ==
  ASSUME IInv, IInv', AsleepIsWoken, [Next]_vars
  PROVE  AsleepIsWoken'
<1> SUFFICES ASSUME NEW w \in Workers, NEW h \in Fibers,
                    pc'[w] \in {"back", "ret"}, ff'[w].fiber = h, state'[h] = "EXEC"
             PROVE  h \in armed' \/ Queued(h)'
  <2> SUFFICES ASSUME NEW w \in Workers, (pc[w] \in {"back", "ret"} /\ state[ff[w].fiber] = "EXEC")'
               PROVE  Outstanding(ff[w].fiber)'
    BY DEF AsleepIsWoken
  <2>1. ff'[w].fiber \in Fibers
    BY DEF IInv, HeldState, Holds, Inside, Task
  <2>2. PICK h \in Fibers : ff'[w].fiber = h
    BY <2>1
  <2> QED BY <2>2 DEF Outstanding, Queued
<1> USE DEF fiberVars, countVars, flagVars, workVars, Outstanding
\* It is enough that w stood there already and that no wake-up is lost.
<1>1. ASSUME ff'[w] = ff[w], pc[w] \in {"back", "ret"}, state[ff[w].fiber] = "EXEC",
             \A g : Queued(g) => Queued(g)', \A g : g \in armed => g \in armed' \/ Queued(g)'
      PROVE  h \in armed' \/ Queued(h)'
  BY <1>1 DEF AsleepIsWoken
<1>2. ff[w] = ff'[w] /\ pc[w] \in {"back", "ret"} /\ state[h] = "EXEC" => Outstanding(h)
  BY DEF AsleepIsWoken
<1>3. ASSUME NEW f \in Fibers, MainSchedule(f) \/ \E v \in Workers : Spawn(v, f)
      PROVE  h \in armed' \/ Queued(h)'
  <2>1. Submit(f) /\ UNCHANGED workVars
    BY <1>3 DEF MainSchedule, Spawn
  <2> QED BY <1>1, <1>2, <2>1, SubmitQueues
<1>4. ASSUME NEW f \in Fibers, Wake(f)
      PROVE  h \in armed' \/ Queued(h)'
  <2>1. Deliver(f) /\ UNCHANGED workVars /\ armed' = armed \ {f} /\ state' = state
    BY <1>4 DEF Wake, Deliver
  <2> QED BY <1>1, <2>1, DeliverQueues
<1>5. ASSUME NEW v \in Workers, Take(v)
      PROVE  h \in armed' \/ Queued(h)'
  <2>1. w # v /\ ff'[w] = ff[w] /\ pc'[w] = pc[w] /\ state' = state /\ armed' = armed
    BY <1>5, TakeQueues
  <2>2. ff[w].fiber # ff'[v].fiber
    BY <1>5, <2>1, TakeQueues
  <2>3. Outstanding(ff[w].fiber)
    BY <2>1 DEF AsleepIsWoken
  <2> QED BY <1>5, <2>1, <2>2, <2>3, TakeQueues
<1>6. ASSUME NEW v \in Workers, SwapIn(v)
      PROVE  h \in armed' \/ Queued(h)'
  <2>1. /\ ff' = ff /\ pc'[v] = "exec" /\ pc'[w] = pc[w] /\ w # v /\ tasks' = tasks /\ armed' = armed
        /\ state' = [state EXCEPT ![ff[v].fiber] = "EXEC"]
    BY <1>6, Moves DEF SwapIn, SetState
  <2>2. ff[w].fiber # ff[v].fiber
    BY <2>1 DEF IInv, OneInside, Inside
  <2>3. state[ff[w].fiber] = "EXEC"
    BY <1>2, <2>1, <2>2 DEF IInv, TypeOK
  <2> QED BY <1>1, <2>1, <2>3, SameList
<1>7. ASSUME NEW v \in Workers, Drop(v) \/ DecActive(v)
      PROVE  h \in armed' \/ Queued(h)'
  <2>1. /\ tasks' = tasks /\ armed' = armed /\ state' = state
        /\ pc'[w] = pc[w] \/ pc[w] = "back"
        /\ ff'[w] = ff[w]
    BY <1>7, Moves DEF Drop, DecActive, IInv, TypeOK
  <2> QED BY <1>1, <2>1, SameList
<1>8. ASSUME NEW v \in Workers, Retire(v)
      PROVE  h \in armed' \/ Queued(h)'
  <2>1. w # v /\ ff'[w] = ff[w] /\ pc'[w] = pc[w] /\ armed' = armed
    BY <1>8, RetireQueues
  <2>2. state[ff[w].fiber] = "EXEC"
    BY <1>2, <1>8, <2>1, RetireQueues
  <2> QED BY <1>1, <1>8, <2>1, <2>2, RetireQueues
<1>9. ASSUME NEW v \in Workers, Arm(v)
      PROVE  h \in armed' \/ Queued(h)'
  BY <1>1, <1>9, SameList DEF Arm
<1>10. ASSUME NEW v \in Workers, Yield(v)
       PROVE  h \in armed' \/ Queued(h)'
  <2>1. tasks' = tasks /\ armed' = armed /\ state' = state /\ ff' = ff /\ Outstanding(ff[v].fiber)
    BY <1>10 DEF Yield
  <2>2. CASE w = v
    BY <2>1, <2>2, SameList
  <2>3. CASE w # v
    <3>1. pc'[w] = pc[w]
      BY <1>10, <2>3, Moves DEF Yield
    <3> QED BY <1>1, <2>1, <3>1, SameList
  <2> QED BY <2>2, <2>3
<1>11. ASSUME NEW v \in Workers, YieldReady(v) \/ Finish(v)
       PROVE  h \in armed' \/ Queued(h)'
  <2>1. PICK s \in {"READY", "TERM"} :
          /\ tasks' = tasks /\ armed' = armed /\ ff' = ff
          /\ state' = [state EXCEPT ![ff[v].fiber] = s]
          /\ pc[v] = "exec"
    BY <1>11 DEF YieldReady, Finish, SetState
  <2>2. ff[v].fiber \in Fibers
    BY <2>1, HeldFiber DEF Holds, Inside
  <2>3. ff[w].fiber # ff[v].fiber /\ state[ff[w].fiber] = "EXEC"
    BY <1>2, <2>1, <2>2 DEF IInv, TypeOK
  <2>4. w # v /\ pc'[w] = pc[w]
    BY <1>11, <2>3, Moves DEF YieldReady, Finish
  <2> QED BY <1>1, <2>1, <2>3, <2>4, SameList
<1>12. ASSUME NEW v \in Workers, TakeNothing(v) \/ IdleStep(v)
       PROVE  h \in armed' \/ Queued(h)'
  <2>1. /\ UNCHANGED <<tasks, armed, state, ff>>
        /\ \E p : Goto(v, p) /\ p \notin {"back", "ret"}
    BY <1>12 DEF TakeNothing, IdleStep, Exit, IdleIn, IdleCheck, IdleOut
  <2>2. pc'[w] = pc[w]
    BY <2>1, Moves
  <2> QED BY <1>1, <2>1, <2>2, SameList
<1>13. CASE Start \/ StopCall
  <2>1. UNCHANGED <<tasks, armed, state, ff>> /\ pc'[w] = pc[w]
    BY <1>13 DEF Start, StopCall, Goto, IInv, TypeOK
  <2> QED BY <1>1, <2>1, SameList
<1>14. CASE StopBegin \/ StopFlag \/ StopNoCall \/ CallReturns \/ Join \/ Terminated \/ UNCHANGED vars
  <2>1. UNCHANGED <<tasks, armed, state, ff, pc>>
    BY <1>14 DEF StopBegin, StopFlag, StopNoCall, CallReturns, Join, Terminated, vars
  <2> QED BY <1>1, <2>1, SameList
<1> QED BY <1>3, <1>4, <1>5, <1>6, <1>7, <1>8, <1>9, <1>10, <1>11, <1>12, <1>13, <1>14
        DEF Next, StopStep, RunStep, FiberStep

\* The invariant and the wake-ups together.
THEOREM WakeUpsKept == Spec => [](IInv /\ AsleepIsWoken)
<1>1. Init => AsleepIsWoken
  BY DEF Init, AsleepIsWoken
<1>2. IInv /\ AsleepIsWoken /\ [Next]_vars => (IInv /\ AsleepIsWoken)'
  BY NextKeeps, AsleepStep
<1> QED BY InitKeeps, <1>1, <1>2, PTL DEF Spec

------------------------------------------------------------------------------
(* How a fiber is lost                                                      *)

\* A fiber that nobody will resume any more has been READY in a callable's Fiber.
LEMMA LostStep ==
  ASSUME IInv, AsleepIsWoken, [Next]_vars, NEW f \in Fibers, Stranded(f)', ~Stranded(f)
  PROVE  \E w \in Workers : pc[w] = "ret" /\ ff[w] = CbTask(f) /\ state[f] = "READY"
<1> USE DEF fiberVars, countVars, flagVars, workVars, TakenBy
<1>1. /\ state'[f] = "HOLD" /\ f \notin armed' /\ ~Queued(f)'
      /\ \A w \in Workers : ~(pc'[w] = "taken" /\ ff'[w].fiber = f)
  BY DEF Stranded, Outstanding
<1>2. state[f] # "HOLD" \/ f \in armed \/ Queued(f) \/ \E w \in Workers : TakenBy(w, f)
  BY DEF Stranded, Outstanding
\* A step that keeps the state and the wake-ups of f does not lose it.
<1>3. ASSUME state'[f] = state[f], \A g : Queued(g) => Queued(g)', f \in armed => f \in armed' \/ Queued(f)',
             \A w \in Workers : TakenBy(w, f) => pc'[w] = "taken" /\ ff'[w].fiber = f
      PROVE  FALSE
  BY <1>1, <1>2, <1>3
<1> DEFINE Lost == \E w \in Workers : pc[w] = "ret" /\ ff[w] = CbTask(f) /\ state[f] = "READY"
<1>4. ASSUME NEW g \in Fibers, MainSchedule(g) \/ \E v \in Workers : Spawn(v, g)
      PROVE  Lost
  <2>1. Submit(g) /\ UNCHANGED workVars
    BY <1>4 DEF MainSchedule, Spawn
  <2> QED BY <1>1, <1>3, <2>1, SubmitQueues
<1>5. ASSUME NEW g \in Fibers, Wake(g)
      PROVE  Lost
  <2>1. Deliver(g) /\ UNCHANGED workVars /\ armed' = armed \ {g} /\ state' = state
    BY <1>5 DEF Wake, Deliver
  <2> QED BY <1>3, <2>1, DeliverQueues
<1>6. ASSUME NEW v \in Workers, Take(v)
      PROVE  Lost
  <2>1. ff'[v].fiber # f
    BY <1>1, <1>6, TakeQueues
  <2> QED BY <1>1, <1>2, <1>6, <2>1, TakeQueues
<1>7. ASSUME NEW v \in Workers, SwapIn(v)
      PROVE  Lost
  <2>1. /\ ff' = ff /\ tasks' = tasks /\ armed' = armed /\ pc[v] = "taken"
        /\ \A w \in Workers : w # v => pc'[w] = pc[w]
        /\ state' = [state EXCEPT ![ff[v].fiber] = "EXEC"]
    BY <1>7, Moves DEF SwapIn, SetState
  <2>2. ff[v].fiber # f /\ state'[f] = state[f]
    BY <1>1, <2>1 DEF IInv, TypeOK
  <2> QED BY <1>3, <2>1, <2>2, SameList
<1>8. ASSUME NEW v \in Workers, Drop(v)
      PROVE  Lost
  <2>1. /\ tasks' = tasks /\ armed' = armed /\ state' = state /\ state[ff[v].fiber] = "TERM"
        /\ \A w \in Workers : w # v => pc'[w] = pc[w] /\ ff'[w] = ff[w]
    BY <1>8, Moves DEF Drop, IInv, TypeOK
  <2>2. ff[v].fiber # f
    BY <1>1, <2>1
  <2> QED BY <1>3, <2>1, <2>2, SameList
<1>9. ASSUME NEW v \in Workers, Retire(v)
      PROVE  Lost
  <2>1. /\ ff[v] \in Task /\ pc[v] = "ret" /\ pc'[v] = "loop" /\ armed' = armed
        /\ \A w \in Workers : w # v => ff'[w] = ff[w] /\ pc'[w] = pc[w]
        /\ \A g : Queued(g) => Queued(g)'
        /\ f = ff[v].fiber => (Queued(f)' <=> Queued(f) \/ Requeued(ff[v]))
    BY <1>9, RetireQueues
  <2>2. CASE f # ff[v].fiber \/ state[f] = "TERM"
    <3>1. state'[f] = state[f]
      BY <1>9, <2>2, RetireQueues
    <3> QED BY <1>3, <2>1, <3>1
  <2>3. CASE f = ff[v].fiber /\ state[f] # "TERM"
    <3>1. state[f] \in {"EXEC", "READY", "TERM"}
      BY <2>1, <2>3 DEF IInv, HeldState
    <3>2. state[f] # "EXEC"
      <4>1. state[f] = "EXEC" => Outstanding(f)
        BY <2>1, <2>3 DEF AsleepIsWoken
      <4> QED BY <1>1, <2>1, <4>1 DEF Outstanding
    <3>3. ~Requeued(ff[v]) /\ state[f] = "READY"
      BY <1>1, <2>1, <2>3, <3>1, <3>2
    <3>4. ff[v].kind = "cb" /\ ff[v].fiber = f
      BY <2>1, <2>3, <3>3 DEF Requeued, Task
    <3>5. ff[v] = CbTask(f)
      BY <2>1, <3>4 DEF Task, CbTask
    <3> QED BY <2>1, <3>3, <3>5
  <2> QED BY <2>2, <2>3
<1>10. ASSUME NEW v \in Workers, Arm(v)
       PROVE  Lost
  BY <1>3, <1>10, SameList DEF Arm
<1>11. ASSUME NEW v \in Workers, Yield(v) \/ DecActive(v)
       PROVE  Lost
  <2>1. /\ UNCHANGED <<tasks, armed, state, ff>> /\ pc[v] # "taken"
        /\ \A w \in Workers : w # v => pc'[w] = pc[w]
    BY <1>11, Moves DEF Yield, DecActive
  <2> QED BY <1>3, <2>1, SameList
<1>12. ASSUME NEW v \in Workers, YieldReady(v) \/ Finish(v)
       PROVE  Lost
  <2>1. PICK s \in {"READY", "TERM"} :
          /\ tasks' = tasks /\ armed' = armed /\ ff' = ff
          /\ state' = [state EXCEPT ![ff[v].fiber] = s]
          /\ pc[v] = "exec" /\ \A w \in Workers : w # v => pc'[w] = pc[w]
    BY <1>12, Moves DEF YieldReady, Finish, SetState
  <2>2. ff[v].fiber # f /\ state'[f] = state[f]
    BY <1>1, <2>1 DEF IInv, TypeOK
  <2> QED BY <1>3, <2>1, <2>2, SameList
<1>13. ASSUME NEW v \in Workers, TakeNothing(v) \/ IdleStep(v)
       PROVE  Lost
  <2>1. /\ UNCHANGED <<tasks, armed, state, ff>> /\ pc[v] # "taken"
        /\ \E p : Goto(v, p)
    BY <1>13 DEF TakeNothing, IdleStep, Exit, IdleIn, IdleCheck, IdleOut
  <2> QED BY <1>3, <2>1, Moves, SameList
<1>14. CASE Start \/ StopCall
  <2>1. /\ UNCHANGED <<tasks, armed, state, ff>>
        /\ \A w \in Workers : pc[w] = "taken" => pc'[w] = "taken"
    BY <1>14 DEF Start, StopCall, Goto, IInv, TypeOK, OwnerState
  <2> QED BY <1>3, <2>1, SameList
<1>15. CASE StopBegin \/ StopFlag \/ StopNoCall \/ CallReturns \/ Join \/ Terminated \/ UNCHANGED vars
  <2>1. UNCHANGED <<tasks, armed, state, ff, pc>>
    BY <1>15 DEF StopBegin, StopFlag, StopNoCall, CallReturns, Join, Terminated, vars
  <2> QED BY <1>3, <2>1, SameList
<1> QED BY <1>4, <1>5, <1>6, <1>7, <1>8, <1>9, <1>10, <1>11, <1>12, <1>13, <1>14, <1>15
        DEF Next, StopStep, RunStep, FiberStep

\* The only way to lose a fiber is the READY state of a callable's Fiber, which run() overwrites with HOLD.
THEOREM LostOnlyWhenReady == Spec => OnlyReadyCallbackLost
<1>1. IInv /\ AsleepIsWoken /\ [Next]_vars
      => [\A f \in Fibers : Stranded(f)' /\ ~Stranded(f) =>
            \E w \in Workers : pc[w] = "ret" /\ ff[w] = CbTask(f) /\ state[f] = "READY"]_vars
  BY LostStep
<1> QED BY WakeUpsKept, <1>1, PTL DEF Spec, OnlyReadyCallbackLost

------------------------------------------------------------------------------
(* The coroutine pool                                                       *)

\* What the pool sees of one fiber.
PoolState(f) ==
  CASE state[f] = "NONE" -> "none"
    [] state[f] = "TERM" -> "done"
    [] Running(f)        -> "running"
    [] OTHER             -> IF Due(f) THEN "ready" ELSE "waiting"

\* Somebody is in run(), and run() is not over.
Serving == mpc # "stopped" /\ \E w \in Workers : pc[w] # "off"

\* A fiber that executes has a state of its own, and the four cases do not overlap.
LEMMA PoolStateCases ==
  ASSUME IInv, NEW f \in Fibers
  PROVE  /\ state[f] = "NONE" <=> PoolState(f) = "none"
         /\ state[f] = "TERM" <=> PoolState(f) = "done"
         /\ Running(f) <=> PoolState(f) = "running"
         /\ ~Running(f) /\ state[f] \notin {"NONE", "TERM"} /\ Due(f) <=> PoolState(f) = "ready"
         /\ ~Running(f) /\ state[f] \notin {"NONE", "TERM"} /\ ~Due(f) <=> PoolState(f) = "waiting"
<1>1. Running(f) => state[f] = "EXEC"
  BY DEF IInv, HeldState, Running
<1> QED BY <1>1 DEF PoolState

\* The mapped variables of the pool.
LEMMA PoolIs ==
  /\ poolStatus = [f \in Fibers |-> PoolState(f)]
  /\ \A f \in Fibers : f \in poolEarly <=> Running(f) /\ Queued(f)
  /\ poolEarly \subseteq Fibers
  /\ Serving => poolPhase = "serving"
  /\ mpc = "stopped" <=> poolPhase = "closed"
BY DEF poolStatus, PoolState, poolEarly, poolPhase, Serving

\* A pool whose fibers and phase are as they were has stuttered.
LEMMA PoolStutters ==
  ASSUME \A f \in Fibers : PoolState(f)' = PoolState(f) /\ (f \in poolEarly' <=> f \in poolEarly),
         poolPhase' = poolPhase
  PROVE  UNCHANGED Pool!vars
<1>1. poolStatus' = poolStatus
  BY DEF poolStatus, PoolState
<1>2. poolEarly' = poolEarly
  BY DEF poolEarly
<1> QED BY <1>1, <1>2 DEF Pool!vars

\* One fiber of the pool changes.
LEMMA PoolChanges ==
  ASSUME NEW f \in Fibers, NEW s, PoolState(f)' = s,
         \A g \in Fibers : g # f => PoolState(g)' = PoolState(g)
  PROVE  Pool!Become(f, s) /\ poolStatus[f] = PoolState(f)
<1>1. /\ poolStatus = [g \in Fibers |-> PoolState(g)]
      /\ poolStatus' = [g \in Fibers |-> PoolState(g)']
  BY DEF poolStatus, PoolState
<1> HIDE DEF poolStatus
<1>2. poolStatus' = [poolStatus EXCEPT ![f] = s]
  BY <1>1
<1> QED BY <1>1, <1>2 DEF Pool!Become

\* A worker that is at work is in run() and stop() has not returned, before and after its step.
LEMMA AtWork ==
  ASSUME IInv, NEW w \in Workers, pc[w] \notin {"off", "done"}
  PROVE  Serving
BY DEF IInv, OwnerState, Serving

\* The cases after a step.
LEMMA PoolStateAfter ==
  ASSUME IInv', NEW f \in Fibers
  PROVE  /\ state'[f] = "NONE" => PoolState(f)' = "none"
         /\ state'[f] = "TERM" => PoolState(f)' = "done"
         /\ Running(f)' /\ state'[f] \notin {"NONE", "TERM"} => PoolState(f)' = "running"
         /\ ~Running(f)' /\ state'[f] \notin {"NONE", "TERM"} /\ Due(f)' => PoolState(f)' = "ready"
         /\ ~Running(f)' /\ state'[f] \notin {"NONE", "TERM"} /\ ~Due(f)' => PoolState(f)' = "waiting"
         /\ Running(f)' => state'[f] = "EXEC"
<1>1. Running(f)' => state'[f] = "EXEC"
  BY DEF IInv, HeldState, Running
<1> QED BY <1>1 DEF PoolState

\* The step of a worker, or of nobody, that has nothing to do with a fiber.
Involves(w, f) == pc[w] \in {"taken", "exec", "back", "ret"} /\ ff[w].fiber = f
LEMMA OtherFiber ==
  ASSUME NEW g \in Fibers, state'[g] = state[g], Queued(g)' <=> Queued(g),
         \A v \in Workers : \/ pc'[v] = pc[v] /\ ff'[v] = ff[v]
                            \/ ~Involves(v, g) /\ ~Involves(v, g)'
  PROVE  PoolState(g)' = PoolState(g) /\ (g \in poolEarly' <=> g \in poolEarly)
<1>1. FiberTask(g).fiber = g
  BY DEF FiberTask
<1>2. Running(g)' <=> Running(g)
  BY DEF Running, Involves
<1>3. \A v \in Workers : TakenBy(v, g)' <=> TakenBy(v, g)
  BY DEF TakenBy, Involves
<1>4. \A v \in Workers : (pc'[v] \in {"back", "ret"} /\ ff'[v] = FiberTask(g))
                           <=> (pc[v] \in {"back", "ret"} /\ ff[v] = FiberTask(g))
  BY <1>1 DEF Involves
<1>5. Due(g)' <=> Due(g)
  BY <1>3, <1>4 DEF Due
<1> QED BY <1>2, <1>5 DEF PoolState, poolEarly

\* The pool serves before and after the step of a worker.
LEMMA PhaseStays ==
  ASSUME IInv, NEW w \in Workers, pc[w] \notin {"off", "done"}, pc'[w] # "off", mpc' = mpc
  PROVE  poolPhase' = "serving" /\ poolPhase = "serving"
<1>1. mpc # "stopped"
  BY AtWork DEF Serving
<1> QED BY <1>1 DEF poolPhase

------------------------------------------------------------------------------
(* The owner's steps                                                        *)

\* Steps of the owner that move no worker and do not end stop().
LEMMA OwnerStutters ==
  ASSUME IInv, StopBegin \/ StopFlag \/ StopNoCall \/ CallReturns \/ Terminated \/ UNCHANGED vars
  PROVE  UNCHANGED Pool!vars
<1>1. UNCHANGED <<tasks, state, ff, pc>> /\ (mpc' = "stopped" <=> mpc = "stopped")
  BY DEF StopBegin, StopFlag, StopNoCall, CallReturns, Terminated, vars, fiberVars, workVars
<1>2. \A f \in Fibers : PoolState(f)' = PoolState(f) /\ (f \in poolEarly' <=> f \in poolEarly)
  BY <1>1, OtherFiber, SameList
<1>3. poolPhase' = poolPhase
  BY <1>1 DEF poolPhase
<1> QED BY <1>2, <1>3, PoolStutters

\* Workers enter run(): the pool is served now, if it was not before.
LEMMA EnterServes ==
  ASSUME IInv, Start \/ StopCall
  PROVE  Pool!Serve \/ UNCHANGED Pool!vars
<1>1. /\ UNCHANGED <<tasks, state, ff>> /\ mpc # "stopped" /\ mpc' # "stopped"
      /\ \A w \in Workers : pc'[w] = pc[w] \/ (pc[w] = "off" /\ pc'[w] = "loop")
  <2>1. CASE Start
    BY <2>1 DEF Start, fiberVars, IInv, OwnerState, TypeOK
  <2>2. CASE StopCall
    BY <2>2 DEF StopCall, fiberVars, Goto, IInv, OwnerState, TypeOK
  <2> QED BY <2>1, <2>2
<1>2. \A f \in Fibers : PoolState(f)' = PoolState(f) /\ (f \in poolEarly' <=> f \in poolEarly)
  BY <1>1, OtherFiber, SameList DEF Involves
<1>3. CASE \E w \in Workers : pc[w] # "off"
  <2>1. poolPhase' = poolPhase
    BY <1>1, <1>3 DEF poolPhase
  <2> QED BY <1>2, <2>1, PoolStutters
<1>4. CASE \A w \in Workers : pc[w] = "off"
  <2>1. poolStatus' = poolStatus /\ poolEarly' = poolEarly
    BY <1>2 DEF poolStatus, PoolState, poolEarly
  <2>2. poolPhase = "new" /\ poolPhase' \in {"new", "serving"}
    BY <1>1, <1>4 DEF poolPhase
  <2> QED BY <2>1, <2>2 DEF Pool!Serve, Pool!vars
<1> QED BY <1>3, <1>4

\* stop() returns: the pool closes.
LEMMA JoinCloses ==
  ASSUME IInv, Join
  PROVE  Pool!Close
<1>1. UNCHANGED <<tasks, state, ff, pc>> /\ mpc = "join" /\ mpc' = "stopped"
  BY DEF Join, fiberVars, workVars
<1>2. \A w \in Workers : pc[w] \in {"off", "done"}
  BY <1>1 DEF Join, IInv, OwnerState
<1>3. tasks = <<>>
  BY <1>1, <1>2 DEF IInv, WorkHasWorker, Attentive
<1>4. \A f \in Fibers : ~Running(f) /\ ~Due(f)
  BY <1>2, <1>3 DEF Running, Due, Queued, TakenBy
<1>5. \A f \in Fibers : PoolState(f) \notin {"ready", "running"}
  BY <1>4 DEF PoolState
<1>6. \A f \in Fibers : PoolState(f)' = PoolState(f) /\ (f \in poolEarly' <=> f \in poolEarly)
  BY <1>1, OtherFiber, SameList
<1>7. poolStatus' = poolStatus /\ poolEarly' = poolEarly
  BY <1>6 DEF poolStatus, PoolState, poolEarly
<1>8. poolPhase # "closed" /\ poolPhase' = "closed"
  BY <1>1 DEF poolPhase
<1>9. \A f \in Fibers : poolStatus[f] \notin {"ready", "running"}
  BY <1>5, PoolIs
<1> QED BY <1>7, <1>8, <1>9 DEF Pool!Close

------------------------------------------------------------------------------
(* schedule()                                                               *)

\* Something new is handed to the scheduler.
LEMMA SubmitSubmits ==
  ASSUME IInv, IInv', NEW f \in Fibers, Submit(f), UNCHANGED <<pc, ff, mpc>>, mpc # "stopped"
  PROVE  Pool!Submit(f)
<1>1. /\ state[f] = "NONE" /\ state'[f] \in {"FUNC", "INIT"}
      /\ \A g \in Fibers : g # f => state'[g] = state[g]
      /\ \A g : Queued(g)' <=> Queued(g) \/ g = f
  BY SubmitQueues
<1>2. \A g \in Fibers : g # f => PoolState(g)' = PoolState(g) /\ (g \in poolEarly' <=> g \in poolEarly)
  BY <1>1, OtherFiber
<1>3. PoolState(f) = "none"
  BY <1>1, PoolStateCases
<1>4. ~Running(f)' /\ ~Running(f)
  BY <1>1, PoolStateAfter, PoolStateCases
<1>5. PoolState(f)' = "ready"
  BY <1>1, <1>4, PoolStateAfter DEF Due
<1>6. poolEarly' = poolEarly
  BY <1>2, <1>4 DEF poolEarly
<1>7. poolPhase # "closed" /\ poolPhase' = poolPhase
  BY DEF poolPhase
<1> QED BY <1>2, <1>3, <1>5, <1>6, <1>7, PoolChanges DEF Pool!Submit

\* A wake-up is delivered: to a fiber that waits, to one that is about to, or to one that has ended.
LEMMA WakeWakes ==
  ASSUME IInv, IInv', NEW f \in Fibers, Wake(f)
  PROVE  Pool!Wake(f) \/ UNCHANGED Pool!vars
<1>1. /\ f \in armed /\ UNCHANGED <<state, pc, ff, mpc>>
      /\ \A g : Queued(g)' <=> Queued(g) \/ g = f
  BY DeliverQueues DEF Wake, Deliver, workVars
<1>2. \A g \in Fibers : g # f => PoolState(g)' = PoolState(g) /\ (g \in poolEarly' <=> g \in poolEarly)
  BY <1>1, OtherFiber
<1>3. mpc # "stopped"
  BY AtWork DEF Wake, Serving
<1>4. poolPhase # "closed" /\ poolPhase' = poolPhase
  BY <1>1, <1>3 DEF poolPhase
<1>5. /\ ~Queued(f) /\ state[f] \in {"HOLD", "EXEC", "TERM"}
      /\ \A w \in Workers : ~TakenBy(w, f)
      /\ Due(f)'
  BY <1>1 DEF IInv, OneWakeUp, Outstanding, TakenBy, Due
<1>6. Running(f)' <=> Running(f)
  BY <1>1 DEF Running
<1>7. CASE state[f] = "TERM"
  <2>1. ~Running(f) /\ PoolState(f)' = PoolState(f)
    BY <1>1, <1>7, PoolStateCases, PoolStateAfter DEF PoolState
  <2>2. \A g \in Fibers : g \in poolEarly' <=> g \in poolEarly
    BY <1>2, <1>6, <2>1 DEF poolEarly
  <2> QED BY <1>2, <1>4, <2>1, <2>2, PoolStutters
<1>8. CASE state[f] # "TERM" /\ Running(f)
  <2>1. PoolState(f) = "running" /\ PoolState(f)' = "running"
    BY <1>1, <1>5, <1>6, <1>8, PoolStateCases, PoolStateAfter
  <2>2. f \notin poolEarly /\ poolEarly' = poolEarly \cup {f}
    BY <1>1, <1>2, <1>5, <1>6, <1>8 DEF poolEarly
  <2>3. poolStatus' = poolStatus /\ poolStatus[f] = "running"
    BY <1>2, <2>1 DEF poolStatus, PoolState
  <2> QED BY <1>4, <2>2, <2>3 DEF Pool!Wake
<1>9. CASE state[f] # "TERM" /\ ~Running(f)
  <2>1. ~Due(f)
    BY <1>5, <1>9 DEF Due
  <2>2. PoolState(f) = "waiting" /\ PoolState(f)' = "ready"
    BY <1>1, <1>5, <1>6, <1>9, <2>1, PoolStateCases, PoolStateAfter
  <2>3. poolEarly' = poolEarly
    BY <1>2, <1>6, <1>9 DEF poolEarly
  <2> QED BY <1>2, <1>4, <2>2, <2>3, PoolChanges DEF Pool!Wake
<1> QED BY <1>7, <1>8, <1>9

------------------------------------------------------------------------------
(* The steps of run()                                                       *)

\* Taking a task leaves its fiber ready.
LEMMA TakeStutters ==
  ASSUME IInv, IInv', NEW w \in Workers, Take(w)
  PROVE  UNCHANGED Pool!vars
<1> DEFINE f == ff'[w].fiber
<1>1. PICK h \in Fibers : h = f
  BY TakeQueues
<1>2. /\ Queued(h) /\ state[h] # "EXEC" /\ state[h] # "NONE" /\ state' = state
      /\ pc[w] = "loop" /\ pc'[w] = "taken" /\ ff'[w].fiber = h
      /\ \A v \in Workers : v # w => ff'[v] = ff[v] /\ pc'[v] = pc[v]
      /\ \A g : Queued(g)' <=> Queued(g) /\ g # h
  <2>1. Queued(h) /\ state[h] # "EXEC"
    BY <1>1, TakeQueues
  <2>2. state[h] # "NONE"
    BY <2>1 DEF Queued, IInv, QueuedState
  <2> QED BY <1>1, <2>1, <2>2, TakeQueues
<1>3. \A g \in Fibers : g # h => PoolState(g)' = PoolState(g) /\ (g \in poolEarly' <=> g \in poolEarly)
  BY <1>2, OtherFiber DEF Involves
<1>4. ~Running(h) /\ ~Running(h)'
  BY <1>2, PoolStateAfter DEF IInv, HeldState, Running
<1>5. Due(h) /\ Due(h)'
  BY <1>2 DEF Due, TakenBy
<1>6. PoolState(h)' = PoolState(h)
  BY <1>2, <1>4, <1>5 DEF PoolState
<1>7. h \in poolEarly' <=> h \in poolEarly
  BY <1>4 DEF poolEarly
<1>8. poolPhase' = poolPhase
  BY <1>2, PhaseStays DEF Take
<1> QED BY <1>3, <1>6, <1>7, <1>8, PoolStutters

\* The worker swaps the fiber in.
LEMMA SwapInRuns ==
  ASSUME IInv, IInv', NEW w \in Workers, SwapIn(w)
  PROVE  \E f \in Fibers : Pool!Run(f)
<1>1. PICK f \in Fibers : f = ff[w].fiber
  BY HeldFiber DEF SwapIn, Holds
<1>2. /\ ff' = ff /\ pc[w] = "taken" /\ pc'[w] = "exec" /\ tasks' = tasks /\ mpc' = mpc
      /\ \A v \in Workers : v # w => pc'[v] = pc[v]
      /\ \A g \in Fibers : state'[g] = IF g = f THEN "EXEC" ELSE state[g]
      /\ state[f] # "TERM"
  BY <1>1, Moves DEF SwapIn, SetState, IInv, TypeOK
<1>3. state[f] \notin {"NONE", "EXEC"} /\ ~Queued(f)
  BY <1>1, <1>2 DEF IInv, HeldState, OneWakeUp, Outstanding
<1>4. \A g \in Fibers : g # f => PoolState(g)' = PoolState(g) /\ (g \in poolEarly' <=> g \in poolEarly)
  BY <1>1, <1>2, OtherFiber, SameList DEF Involves
<1>5. TakenBy(w, f) /\ Running(f)' /\ ~Running(f) /\ ~Queued(f)'
  BY <1>1, <1>2, <1>3, SameList, PoolStateCases DEF TakenBy, Running, IInv, HeldState
<1>6. PoolState(f) = "ready" /\ PoolState(f)' = "running"
  BY <1>2, <1>3, <1>5, PoolStateCases, PoolStateAfter DEF Due
<1>7. poolEarly' = poolEarly
  BY <1>3, <1>4, <1>5 DEF poolEarly
<1>8. poolPhase' = "serving" /\ poolPhase = "serving"
  BY <1>2, PhaseStays
<1> QED BY <1>4, <1>6, <1>7, <1>8, PoolChanges DEF Pool!Run

\* A fiber that has ended stays so, whatever becomes of its wake-up.
LEMMA DropStutters ==
  ASSUME IInv, IInv', NEW w \in Workers, Drop(w)
  PROVE  UNCHANGED Pool!vars
<1>1. PICK f \in Fibers : f = ff[w].fiber
  BY HeldFiber DEF Drop, Holds
<1>2. /\ pc[w] = "taken" /\ pc'[w] = "loop" /\ tasks' = tasks /\ mpc' = mpc /\ state' = state /\ state[f] = "TERM"
      /\ \A v \in Workers : v # w => pc'[v] = pc[v] /\ ff'[v] = ff[v]
  BY <1>1, Moves DEF Drop, fiberVars, IInv, TypeOK
<1>3. \A g \in Fibers : g # f => PoolState(g)' = PoolState(g) /\ (g \in poolEarly' <=> g \in poolEarly)
  BY <1>1, <1>2, OtherFiber, SameList DEF Involves
<1>4. PoolState(f)' = PoolState(f)
  BY <1>2, PoolStateCases, PoolStateAfter
<1>5. f \in poolEarly' <=> f \in poolEarly
  <2>1. Running(f)' <=> Running(f)
    BY <1>1, <1>2 DEF Running
  <2> QED BY <1>2, <2>1, SameList DEF poolEarly
<1>6. poolPhase' = poolPhase
  BY <1>2, PhaseStays
<1> QED BY <1>3, <1>4, <1>5, <1>6, PoolStutters

\* A worker that looks around, goes to its idle fiber or comes back changes nothing of the pool.
LEMMA IdleStutters ==
  ASSUME IInv, NEW w \in Workers, TakeNothing(w) \/ IdleStep(w) \/ Arm(w) \/ DecActive(w)
  PROVE  UNCHANGED Pool!vars
<1>1. /\ UNCHANGED <<tasks, state, ff, mpc>> /\ pc[w] \notin {"off", "done"} /\ pc'[w] # "off"
      /\ \A v \in Workers : v # w => pc'[v] = pc[v]
      /\ \/ pc[w] \notin {"taken", "exec", "back", "ret"} /\ pc'[w] \notin {"taken", "exec", "back", "ret"}
         \/ pc[w] = "back" /\ pc'[w] = "ret"
         \/ pc'[w] = pc[w]
  <2>1. CASE Arm(w)
    BY <2>1 DEF Arm, workVars
  <2>2. CASE TakeNothing(w) \/ IdleStep(w) \/ DecActive(w)
    <3>1. PICK p : Goto(w, p) /\ UNCHANGED <<tasks, state, ff, mpc>>
                   /\ \/ pc[w] \in {"loop", "none", "idle", "idleret"} /\ p \in {"none", "done", "idle", "idleret", "loop"}
                      \/ pc[w] = "back" /\ p = "ret"
      BY <2>2 DEF TakeNothing, IdleStep, Exit, IdleIn, IdleCheck, IdleOut, DecActive, fiberVars
    <3> QED BY <3>1, Moves
  <2> QED BY <2>1, <2>2
<1>2. ASSUME NEW g \in Fibers
      PROVE  PoolState(g)' = PoolState(g) /\ (g \in poolEarly' <=> g \in poolEarly)
  <2>1. Running(g)' <=> Running(g)
    BY <1>1 DEF Running
  <2>2. \A v \in Workers : TakenBy(v, g)' <=> TakenBy(v, g)
    BY <1>1 DEF TakenBy
  <2>3. \A v \in Workers : pc'[v] \in {"back", "ret"} <=> pc[v] \in {"back", "ret"}
    BY <1>1
  <2>4. Due(g)' <=> Due(g)
    BY <1>1, <2>2, <2>3, SameList DEF Due
  <2> QED BY <1>1, <2>1, <2>4, SameList DEF PoolState, poolEarly
<1>3. poolPhase' = poolPhase
  BY <1>1, PhaseStays
<1> QED BY <1>2, <1>3, PoolStutters

\* run() puts a fiber back or lets it rest, as its own state and wake-up have it.
LEMMA RetireStutters ==
  ASSUME IInv, IInv', NEW w \in Workers, Retire(w)
  PROVE  UNCHANGED Pool!vars
<1>1. PICK f \in Fibers : f = ff[w].fiber
  BY RetireQueues
<1>2. /\ ff[w] \in Task /\ pc[w] = "ret" /\ pc'[w] = "loop" /\ mpc' = mpc
      /\ \A v \in Workers : v # w => ff'[v] = ff[v] /\ pc'[v] = pc[v]
      /\ \A g : Queued(g)' <=> Queued(g) \/ (g = f /\ Requeued(ff[w]))
      /\ \A g \in Fibers : state'[g] = IF g = f /\ ~Requeued(ff[w]) /\ state[g] # "TERM" THEN "HOLD" ELSE state[g]
  BY <1>1, RetireQueues DEF Retire
<1>3. \A g \in Fibers : g # f => PoolState(g)' = PoolState(g) /\ (g \in poolEarly' <=> g \in poolEarly)
  BY <1>1, <1>2, OtherFiber DEF Involves
<1>4. /\ state[f] \in {"EXEC", "READY", "TERM"}
      /\ \A v \in Workers : v # w /\ pc[v] \in {"exec", "back", "ret"} => ff[v].fiber # f
      /\ state[f] = "READY" => ~Queued(f) /\ \A v \in Workers : ~TakenBy(v, f)
  BY <1>1, <1>2 DEF IInv, HeldState, OneInside, Inside, Outstanding
<1>5. ~Running(f) /\ ~Running(f)'
  BY <1>1, <1>2, <1>4 DEF Running
<1>6. f \in poolEarly' <=> f \in poolEarly
  BY <1>5 DEF poolEarly
<1>7. \A v \in Workers : TakenBy(v, f)' <=> TakenBy(v, f)
  BY <1>1, <1>2 DEF TakenBy
<1>8. \A v \in Workers : pc'[v] \in {"back", "ret"} => ff'[v] # FiberTask(f)
  BY <1>1, <1>2, <1>4 DEF FiberTask
<1>9. \A v \in Workers : pc[v] \in {"back", "ret"} /\ ff[v] = FiberTask(f) => v = w
  BY <1>4 DEF FiberTask
<1>10. PoolState(f)' = PoolState(f)
  <2>1. CASE state[f] = "TERM"
    <3>1. state'[f] = "TERM"
      BY <1>2, <2>1
    <3> QED BY <2>1, <3>1, PoolStateCases, PoolStateAfter
  <2>2. CASE Requeued(ff[w])
    <3>1. ff[w] = FiberTask(f) /\ state[f] = "READY"
      BY <1>1, <1>2, <2>2 DEF Requeued, Task, FiberTask
    <3>2. Due(f) /\ Due(f)' /\ state'[f] = "READY"
      BY <1>2, <2>2, <3>1 DEF Due
    <3> QED BY <1>5, <3>1, <3>2, PoolStateCases, PoolStateAfter
  <2>3. CASE state[f] # "TERM" /\ ~Requeued(ff[w])
    <3>1. state'[f] = "HOLD"
      BY <1>2, <2>3
    <3>2. ~(\E v \in Workers : pc[v] \in {"back", "ret"} /\ ff[v] = FiberTask(f) /\ state[f] = "READY")
      BY <1>1, <1>9, <2>3 DEF Requeued, FiberTask
    <3>3. Due(f)' <=> Due(f)
      BY <1>2, <1>7, <1>8, <2>3, <3>2 DEF Due
    <3> QED BY <1>4, <1>5, <2>3, <3>1, <3>3, PoolStateCases, PoolStateAfter
  <2> QED BY <2>1, <2>2, <2>3
<1>11. poolPhase' = poolPhase
  BY <1>2, PhaseStays
<1> QED BY <1>3, <1>6, <1>10, <1>11, PoolStutters

------------------------------------------------------------------------------
(* The steps of the fiber                                                   *)

\* What swapOut() does to the fiber of a worker, and what it leaves alone.
LEMMA SwapOutLeaves ==
  ASSUME IInv, NEW w \in Workers, NEW f \in Fibers, f = ff[w].fiber, pc[w] = "exec", Goto(w, "back"),
         UNCHANGED <<tasks, ff, mpc>>, \A g \in Fibers : g # f => state'[g] = state[g]
  PROVE  /\ \A g \in Fibers : g # f => PoolState(g)' = PoolState(g)
         /\ poolStatus[f] = "running" /\ state[f] = "EXEC"
         /\ ~Running(f)'
         /\ Due(f)' <=> Queued(f) \/ (ff[w] = FiberTask(f) /\ state'[f] = "READY")
         /\ f \in poolEarly <=> Queued(f)
         /\ poolEarly' = poolEarly \ {f}
         /\ poolPhase' = poolPhase
<1>1. /\ pc'[w] = "back" /\ \A v \in Workers : v # w => pc'[v] = pc[v]
      /\ state[f] = "EXEC" /\ Running(f)
  BY Moves DEF IInv, HeldState, Running
<1>2. /\ \A v \in Workers : ~TakenBy(v, f)
      /\ \A v \in Workers : v # w /\ pc[v] \in {"exec", "back", "ret"} => ff[v].fiber # f
  BY <1>1 DEF IInv, HeldState, TakenBy, OneInside, Inside
<1>3. \A g \in Fibers : g # f => PoolState(g)' = PoolState(g) /\ (g \in poolEarly' <=> g \in poolEarly)
  BY <1>1, OtherFiber, SameList DEF Involves
<1>4. PoolState(f) = "running" /\ poolStatus[f] = "running"
  BY <1>1, PoolStateCases, PoolIs
<1>5. ~Running(f)'
  BY <1>1, <1>2 DEF Running
<1>6. Due(f)' <=> Queued(f) \/ (ff[w] = FiberTask(f) /\ state'[f] = "READY")
  <2>1. \A v \in Workers : ~TakenBy(v, f)'
    BY <1>1, <1>2 DEF TakenBy
  <2>2. \A v \in Workers : v # w /\ pc'[v] \in {"back", "ret"} => ff'[v] # FiberTask(f)
    BY <1>1, <1>2 DEF FiberTask
  <2> QED BY <1>1, <2>1, <2>2, SameList DEF Due
<1>7. f \in poolEarly <=> Queued(f)
  BY <1>1 DEF poolEarly
<1>8. poolEarly' = poolEarly \ {f}
  BY <1>3, <1>5 DEF poolEarly
<1>9. poolPhase' = poolPhase
  BY <1>1, PhaseStays
<1> QED BY <1>1, <1>3, <1>4, <1>5, <1>6, <1>7, <1>8, <1>9

\* YieldToHold(): the fiber waits, or is ready again when its wake-up came first.
LEMMA YieldSuspends ==
  ASSUME IInv, IInv', NEW w \in Workers, Yield(w)
  PROVE  \E f \in Fibers : Pool!Suspend(f)
<1>1. PICK f \in Fibers : f = ff[w].fiber
  BY HeldFiber DEF Yield, Holds, Inside
<1>2. pc[w] = "exec" /\ Goto(w, "back") /\ UNCHANGED <<tasks, ff, mpc>> /\ state' = state
  BY DEF Yield, fiberVars
<1>3. state'[f] = "EXEC" /\ ~Running(f)' /\ (Due(f)' <=> Queued(f))
  BY <1>1, <1>2, SwapOutLeaves
<1>4. CASE Queued(f)
  <2>1. PoolState(f)' = "ready"
    BY <1>3, <1>4, PoolStateAfter
  <2> QED BY <1>1, <1>2, <2>1, SwapOutLeaves, PoolChanges DEF Pool!Suspend
<1>5. CASE ~Queued(f)
  <2>1. PoolState(f)' = "waiting"
    BY <1>3, <1>5, PoolStateAfter
  <2> QED BY <1>1, <1>2, <1>5, <2>1, SwapOutLeaves, PoolChanges DEF Pool!Suspend
<1> QED BY <1>4, <1>5

\* setState(READY) and swapOut(): a Fiber that was scheduled is ready, one made for a callable waits.
LEMMA YieldReadySuspends ==
  ASSUME IInv, IInv', NEW w \in Workers, YieldReady(w)
  PROVE  \E f \in Fibers : Pool!Suspend(f)
<1>1. PICK f \in Fibers : f = ff[w].fiber
  BY HeldFiber DEF YieldReady, Holds, Inside
<1>2. /\ pc[w] = "exec" /\ Goto(w, "back") /\ UNCHANGED <<tasks, ff, mpc>>
      /\ \A g \in Fibers : state'[g] = IF g = f THEN "READY" ELSE state[g]
      /\ ~Queued(f)
  BY <1>1 DEF YieldReady, SetState, IInv, TypeOK, Outstanding
<1>3. state'[f] = "READY" /\ ~Running(f)' /\ (Due(f)' <=> ff[w] = FiberTask(f)) /\ f \notin poolEarly
  BY <1>1, <1>2, SwapOutLeaves
<1>4. CASE ff[w] = FiberTask(f)
  <2>1. PoolState(f)' = "ready"
    BY <1>3, <1>4, PoolStateAfter
  <2> QED BY <1>1, <1>2, <2>1, SwapOutLeaves, PoolChanges DEF Pool!Suspend
<1>5. CASE ff[w] # FiberTask(f)
  <2>1. PoolState(f)' = "waiting"
    BY <1>3, <1>5, PoolStateAfter
  <2> QED BY <1>1, <1>2, <1>3, <2>1, SwapOutLeaves, PoolChanges DEF Pool!Suspend
<1> QED BY <1>4, <1>5

\* The callable of a fiber returns.
LEMMA FinishFinishes ==
  ASSUME IInv, IInv', NEW w \in Workers, Finish(w)
  PROVE  \E f \in Fibers : Pool!Finish(f)
<1>1. PICK f \in Fibers : f = ff[w].fiber
  BY HeldFiber DEF Finish, Holds, Inside
<1>2. /\ pc[w] = "exec" /\ Goto(w, "back") /\ UNCHANGED <<tasks, ff, mpc>>
      /\ \A g \in Fibers : state'[g] = IF g = f THEN "TERM" ELSE state[g]
  BY <1>1 DEF Finish, SetState, IInv, TypeOK
<1>3. PoolState(f)' = "done"
  BY <1>2, PoolStateAfter
<1> QED BY <1>1, <1>2, <1>3, SwapOutLeaves, PoolChanges DEF Pool!Finish

------------------------------------------------------------------------------
(* The refinement                                                           *)

\* A scheduler that has not been started is a pool that nobody serves.
LEMMA InitImplements ==
  ASSUME Init
  PROVE  Pool!Init
<1>1. \A f \in Fibers : PoolState(f) = "none"
  BY DEF Init, PoolState, Running
<1>2. poolStatus = [f \in Fibers |-> "none"]
  BY <1>1, PoolIs
<1>3. poolEarly = {} /\ poolPhase = "new"
  BY DEF Init, poolEarly, poolPhase, Running
<1> QED BY <1>2, <1>3 DEF Pool!Init

\* Every step of the scheduler is a step of the pool or none.
LEMMA NextImplements ==
  ASSUME IInv, IInv', [Next]_vars
  PROVE  Pool!Next \/ UNCHANGED Pool!vars
<1>1. CASE StopBegin \/ StopFlag \/ StopNoCall \/ CallReturns \/ Terminated \/ UNCHANGED vars
  BY <1>1, OwnerStutters
<1>2. CASE Start \/ StopCall
  BY <1>2, EnterServes DEF Pool!Next
<1>3. CASE Join
  BY <1>3, JoinCloses DEF Pool!Next
<1>4. ASSUME NEW f \in Fibers, MainSchedule(f) \/ \E w \in Workers : Spawn(w, f)
      PROVE  Pool!Next
  <2>1. mpc # "stopped"
    BY <1>4, AtWork DEF MainSchedule, Spawn, Serving
  <2>2. Submit(f) /\ UNCHANGED <<pc, ff, mpc>>
    BY <1>4 DEF MainSchedule, Spawn, workVars
  <2> QED BY <2>1, <2>2, SubmitSubmits DEF Pool!Next
<1>5. ASSUME NEW f \in Fibers, Wake(f)
      PROVE  Pool!Next \/ UNCHANGED Pool!vars
  BY <1>5, WakeWakes DEF Pool!Next
<1>6. ASSUME NEW w \in Workers, RunStep(w)
      PROVE  Pool!Next \/ UNCHANGED Pool!vars
  BY <1>6, TakeStutters, IdleStutters, SwapInRuns, DropStutters, RetireStutters DEF RunStep, Pool!Next
<1>7. ASSUME NEW w \in Workers, IdleStep(w) \/ Arm(w)
      PROVE  UNCHANGED Pool!vars
  BY <1>7, IdleStutters
<1>8. ASSUME NEW w \in Workers, Yield(w) \/ YieldReady(w) \/ Finish(w)
      PROVE  Pool!Next
  BY <1>8, YieldSuspends, YieldReadySuspends, FinishFinishes DEF Pool!Next
<1> QED BY <1>1, <1>2, <1>3, <1>4, <1>5, <1>6, <1>7, <1>8 DEF Next, StopStep, FiberStep

\* The scheduler implements the coroutine pool: a fiber runs on one worker at a
\* time, once per wake-up and never without one, and never after stop().
THEOREM SchedulerIsPool == Spec => ImplementsPool
<1>1. Init => Pool!Init
  BY InitImplements
<1>2. IInv /\ IInv' /\ [Next]_vars => [Pool!Next]_Pool!vars
  BY NextImplements
<1> QED BY Invariance, <1>1, <1>2, PTL DEF Spec, ImplementsPool, Pool!Safe
==============================================================================
