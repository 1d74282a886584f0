--------------------------- MODULE Scheduler_proofs ---------------------------
(***************************************************************************)
(* Proofs about Scheduler for any number of workers, coroutines and        *)
(* suspension points.                                                      *)
(***************************************************************************)
EXTENDS Scheduler, SequenceTheorems, FiniteSetTheorems, TLAPS

------------------------------------------------------------------------------
(* The task list                                                            *)

\* Taking a task out of the middle keeps the others, in order.
LEMMA RemoveAtProperties ==
  ASSUME NEW S, NEW s \in Seq(S), NEW i \in 1..Len(s)
  PROVE  /\ RemoveAt(s, i) \in Seq(S)
         /\ Len(RemoveAt(s, i)) = Len(s) - 1
         /\ \A j \in 1..(Len(s) - 1) : RemoveAt(s, i)[j] = IF j < i THEN s[j] ELSE s[j + 1]
<1> DEFINE a == SubSeq(s, 1, i - 1)
           b == SubSeq(s, i + 1, Len(s))
<1>1. Len(s) \in Nat /\ i \in Nat
  BY LenProperties
<1>2. \A j \in 1..Len(s) : s[j] \in S
  BY ElementOfSeq
<1>3. a \in Seq(S) /\ Len(a) = i - 1 /\ \A j \in 1..(i - 1) : a[j] = s[j]
  BY <1>1, <1>2, SubSeqProperties
<1>4. b \in Seq(S) /\ Len(b) = Len(s) - i /\ \A j \in 1..(Len(s) - i) : b[j] = s[i + j]
  BY <1>1, <1>2, SubSeqProperties
<1> HIDE DEF a, b
<1>5. RemoveAt(s, i) = a \o b
  BY DEF RemoveAt, a, b
<1>6. /\ a \o b \in Seq(S)
      /\ Len(a \o b) = Len(a) + Len(b)
      /\ \A j \in 1..(Len(a) + Len(b)) : (a \o b)[j] = IF j <= Len(a) THEN a[j] ELSE b[j - Len(a)]
  BY <1>3, <1>4, ConcatProperties
<1>7. \A j \in 1..(Len(s) - 1) : (a \o b)[j] = IF j < i THEN s[j] ELSE s[j + 1]
  <2> TAKE j \in 1..(Len(s) - 1)
  <2>1. CASE j < i
    BY <2>1, <1>1, <1>3, <1>4, <1>6
  <2>2. CASE ~(j < i)
    <3>1. (a \o b)[j] = b[j - (i - 1)]
      BY <2>2, <1>1, <1>3, <1>4, <1>6
    <3>2. j - (i - 1) \in 1..(Len(s) - i) /\ i + (j - (i - 1)) = j + 1
      BY <2>2, <1>1
    <3> QED BY <3>1, <3>2, <2>2, <1>4
  <2> QED BY <2>1, <2>2
<1> QED BY <1>1, <1>3, <1>4, <1>5, <1>6, <1>7

\* The list holds tasks of the application's fibers.
LEMMA ListTyped ==
  ASSUME tasks \in Seq(Task)
  PROVE  \A i \in DOMAIN tasks : tasks[i] \in Task /\ tasks[i].fiber \in Fibers
<1>1. \A i \in DOMAIN tasks : tasks[i] \in Task
  BY ElementOfSeq, LenProperties
<1> QED BY <1>1 DEF Task

\* The same for a state of Scheduler.
LEMMA TasksTyped ==
  ASSUME TypeOK
  PROVE  \A i \in DOMAIN tasks : tasks[i] \in Task /\ tasks[i].fiber \in Fibers
BY ListTyped DEF TypeOK

\* What schedule() does to the list, for any invariant about its elements.
LEMMA AppendToList ==
  ASSUME tasks \in Seq(Task), NEW t \in Task, Schedule(t)
  PROVE  /\ tasks' \in Seq(Task)
         /\ tasks' # <<>>
         /\ Len(tasks) \in Nat
         /\ DOMAIN tasks = 1..Len(tasks)
         /\ DOMAIN tasks' = 1..(Len(tasks) + 1)
         /\ \A i \in DOMAIN tasks : tasks'[i] = tasks[i]
         /\ tasks'[Len(tasks) + 1] = t
         /\ \A f : Queued(f)' <=> Queued(f) \/ f = t.fiber
<1>1. /\ tasks' \in Seq(Task)
      /\ tasks' # <<>>
      /\ Len(tasks') = Len(tasks) + 1
      /\ \A i \in 1..Len(tasks) : tasks'[i] = tasks[i]
      /\ tasks'[Len(tasks) + 1] = t
  BY AppendProperties DEF Schedule
<1>2. /\ Len(tasks) \in Nat
      /\ DOMAIN tasks = 1..Len(tasks)
      /\ DOMAIN tasks' = 1..(Len(tasks) + 1)
  BY <1>1, LenProperties
<1>3. \A f : Queued(f)' <=> Queued(f) \/ f = t.fiber
  BY <1>1, <1>2 DEF Queued
<1> QED BY <1>1, <1>2, <1>3

\* The same for a state of Scheduler.
LEMMA AppendTask ==
  ASSUME TypeOK, NEW t \in Task, Schedule(t)
  PROVE  /\ tasks' \in Seq(Task)
         /\ tasks' # <<>>
         /\ Len(tasks) \in Nat
         /\ DOMAIN tasks = 1..Len(tasks)
         /\ DOMAIN tasks' = 1..(Len(tasks) + 1)
         /\ \A i \in DOMAIN tasks : tasks'[i] = tasks[i]
         /\ tasks'[Len(tasks) + 1] = t
         /\ \A f : Queued(f)' <=> Queued(f) \/ f = t.fiber
BY AppendToList DEF TypeOK

\* Appending a task for a fiber that was not in the list keeps one entry each.
LEMMA AppendToListUnique ==
  ASSUME tasks \in Seq(Task), OneWakeUp, NEW t \in Task, Schedule(t), ~Queued(t.fiber)
  PROVE  \A i, j \in DOMAIN tasks' : tasks'[i].fiber = tasks'[j].fiber => i = j
<1> TAKE i, j \in DOMAIN tasks'
<1>1. CASE i \in DOMAIN tasks /\ j \in DOMAIN tasks
  BY <1>1, AppendToList DEF OneWakeUp
<1>2. CASE i \in DOMAIN tasks /\ j = Len(tasks) + 1
  BY <1>2, AppendToList DEF Queued
<1>3. CASE i = Len(tasks) + 1 /\ j \in DOMAIN tasks
  BY <1>3, AppendToList DEF Queued
<1>4. CASE i = Len(tasks) + 1 /\ j = Len(tasks) + 1
  BY <1>4
<1> QED BY <1>1, <1>2, <1>3, <1>4, AppendToList

\* The same for a state of Scheduler.
LEMMA AppendUnique ==
  ASSUME TypeOK, OneWakeUp, NEW t \in Task, Schedule(t), ~Queued(t.fiber)
  PROVE  \A i, j \in DOMAIN tasks' : tasks'[i].fiber = tasks'[j].fiber => i = j
BY AppendToListUnique DEF TypeOK

\* What a worker that takes task i does to the list.
LEMMA RemoveFromList ==
  ASSUME tasks \in Seq(Task), OneWakeUp, NEW i \in DOMAIN tasks, tasks' = RemoveAt(tasks, i)
  PROVE  /\ tasks' \in Seq(Task)
         /\ \A j \in DOMAIN tasks' : \E k \in DOMAIN tasks : k # i /\ tasks'[j] = tasks[k]
         /\ \A j, k \in DOMAIN tasks' : tasks'[j].fiber = tasks'[k].fiber => j = k
         /\ \A f : Queued(f)' <=> Queued(f) /\ f # tasks[i].fiber
<1> DEFINE old(j) == IF j < i THEN j ELSE j + 1
<1>1. Len(tasks) \in Nat /\ DOMAIN tasks = 1..Len(tasks) /\ i \in 1..Len(tasks) /\ tasks \in Seq(Task)
  BY LenProperties
<1>2. /\ tasks' \in Seq(Task)
      /\ Len(tasks') = Len(tasks) - 1
      /\ \A j \in 1..(Len(tasks) - 1) : tasks'[j] = tasks[old(j)]
  BY <1>1, RemoveAtProperties
<1>3. DOMAIN tasks' = 1..(Len(tasks) - 1)
  BY <1>2, LenProperties
<1>4. \A j \in DOMAIN tasks' : old(j) \in DOMAIN tasks /\ old(j) # i
  BY <1>1, <1>3
<1>5. \A j, k \in DOMAIN tasks' : old(j) = old(k) => j = k
  BY <1>1, <1>3
<1>6. \A k \in DOMAIN tasks : k # i => \E j \in DOMAIN tasks' : old(j) = k
  <2> SUFFICES ASSUME NEW k \in DOMAIN tasks, k # i PROVE \E j \in DOMAIN tasks' : old(j) = k
    OBVIOUS
  <2>1. CASE k < i
    <3>1. k \in DOMAIN tasks' /\ old(k) = k
      BY <2>1, <1>1, <1>3
    <3> QED BY <3>1
  <2>2. CASE k > i
    <3>1. k - 1 \in DOMAIN tasks' /\ old(k - 1) = k
      BY <2>2, <1>1, <1>3
    <3> QED BY <3>1
  <2> QED BY <2>1, <2>2, <1>1
<1> HIDE DEF old
<1>7. \A j, k \in DOMAIN tasks' : tasks'[j].fiber = tasks'[k].fiber => j = k
  <2>1. \A j \in DOMAIN tasks' : tasks'[j] = tasks[old(j)]
    BY <1>2, <1>3
  <2>2. \A j, k \in DOMAIN tasks : tasks[j].fiber = tasks[k].fiber => j = k
    BY DEF OneWakeUp
  <2> QED BY <2>1, <2>2, <1>4, <1>5
<1>8. \A f : Queued(f)' <=> Queued(f) /\ f # tasks[i].fiber
  <2> TAKE f
  <2>1. Queued(f)' => Queued(f) /\ f # tasks[i].fiber
    BY <1>2, <1>3, <1>4 DEF Queued, OneWakeUp
  <2>2. Queued(f) /\ f # tasks[i].fiber => Queued(f)'
    BY <1>2, <1>3, <1>6 DEF Queued
  <2> QED BY <2>1, <2>2
<1> QED BY <1>2, <1>3, <1>4, <1>7, <1>8

\* The same for a state of Scheduler.
LEMMA RemoveTask ==
  ASSUME TypeOK, OneWakeUp, NEW i \in DOMAIN tasks, tasks' = RemoveAt(tasks, i)
  PROVE  /\ tasks' \in Seq(Task)
         /\ \A j \in DOMAIN tasks' : \E k \in DOMAIN tasks : k # i /\ tasks'[j] = tasks[k]
         /\ \A j, k \in DOMAIN tasks' : tasks'[j].fiber = tasks'[k].fiber => j = k
         /\ \A f : Queued(f)' <=> Queued(f) /\ f # tasks[i].fiber
BY RemoveFromList DEF TypeOK

------------------------------------------------------------------------------
(* Every action keeps the invariant                                         *)

\* schedule() of something new keeps the invariant, whoever calls it.
LEMMA SubmitKeeps ==
  ASSUME IInv, NEW f \in Fibers, Submit(f),
         UNCHANGED <<countVars, flagVars, workVars, mpc>>,
         mpc \in {"ctor", "open"} \/ \E w \in Workers : pc[w] = "exec"
  PROVE  IInv'
<1> USE DEF IInv, SetState, fiberVars, countVars, flagVars, workVars
<1>1. PICK t \in Task : /\ Schedule(t)
                        /\ t.fiber = f
                        /\ state' = [state EXCEPT ![f] = IF t.kind = "cb" THEN "FUNC" ELSE "INIT"]
  BY DEF Submit, CbTask, FiberTask, Task
<1>2. state[f] = "NONE" /\ UNCHANGED <<armed, fuel>>
  BY DEF Submit
<1>3. /\ ~Queued(f)
      /\ f \notin armed
      /\ \A w \in Workers : Holds(w) => ff[w].fiber # f
  BY <1>2 DEF Queued, QueuedState, OneWakeUp, HeldState, Holds, Inside
<1>4. /\ state' \in [Fibers -> FiberState]
      /\ \A g \in Fibers : g # f => state'[g] = state[g]
      /\ state'[f] = IF t.kind = "cb" THEN "FUNC" ELSE "INIT"
  BY <1>1 DEF TypeOK, FiberState
<1>5. \A g : Queued(g)' <=> Queued(g) \/ g = f
  BY <1>1, AppendTask
<1>6. \A g \in Fibers : g # f => (Outstanding(g)' <=> Outstanding(g))
  BY <1>2, <1>5 DEF Outstanding
<1>7. \A w \in Workers : Holds(w) => ff[w].fiber \in Fibers /\ state'[ff[w].fiber] = state[ff[w].fiber]
  BY <1>3, <1>4 DEF HeldState, Task
<1>11. TypeOK'
  BY <1>1, <1>2, <1>4, AppendTask DEF TypeOK
<1>12. HeldState'
  BY <1>7 DEF HeldState, Holds, Inside
<1>13. QueuedState'
  <2> SUFFICES ASSUME NEW i \in DOMAIN tasks'
      PROVE state'[tasks'[i].fiber] \in IF tasks'[i].kind = "cb" THEN {"FUNC"}
                                        ELSE {"INIT", "HOLD", "EXEC", "READY", "TERM"}
    BY DEF QueuedState
  <2>1. CASE i \in DOMAIN tasks
    <3>1. tasks'[i] = tasks[i] /\ tasks[i] \in Task /\ tasks[i].fiber # f
      BY <2>1, <1>1, <1>3, AppendTask DEF TypeOK, Queued
    <3> QED BY <2>1, <3>1, <1>4 DEF QueuedState, Task
  <2>2. CASE i = Len(tasks) + 1
    BY <2>2, <1>1, <1>4, AppendTask
  <2> QED BY <2>1, <2>2, <1>1, AppendTask
<1>14. OneWakeUp'
  <2>1. \A i, j \in DOMAIN tasks' : tasks'[i].fiber = tasks'[j].fiber => i = j
    BY <1>1, <1>3, AppendUnique
  <2>2. \A w \in Workers : pc[w] = "taken" => ~Outstanding(ff[w].fiber)'
    BY <1>3, <1>6, <1>7 DEF OneWakeUp, Holds
  <2>3. \A g \in armed : ~Queued(g)' /\ state'[g] \in {"HOLD", "EXEC", "TERM"}
    BY <1>3, <1>4, <1>5 DEF TypeOK, OneWakeUp
  <2> QED BY <2>1, <2>2, <2>3, <1>2 DEF OneWakeUp
<1>15. OneInside'
  BY <1>3, <1>6, <1>7 DEF OneInside, Inside, Holds, TakenBy
<1>16. Accounted'
  BY <1>4, <1>5 DEF Accounted, Inside, Holds
<1>17. OwnerState'
  BY DEF OwnerState
<1>18. WorkHasWorker'
  BY DEF WorkHasWorker, OwnerState, Attentive
<1> QED BY <1>11, <1>12, <1>13, <1>14, <1>15, <1>16, <1>17, <1>18

\* schedule() by the owner before stop().
LEMMA MainScheduleKeeps ==
  ASSUME IInv, NEW f \in Fibers, MainSchedule(f)
  PROVE  IInv'
BY SubmitKeeps DEF MainSchedule

\* schedule() by a running fiber.
LEMMA SpawnKeeps ==
  ASSUME IInv, NEW w \in Workers, NEW f \in Fibers, Spawn(w, f)
  PROVE  IInv'
BY SubmitKeeps DEF Spawn

\* An outside party hands in the one wake-up it holds.
LEMMA DeliverKeeps ==
  ASSUME IInv, NEW f \in Fibers, Deliver(f),
         UNCHANGED <<countVars, flagVars, workVars, mpc>>,
         mpc \in {"ctor", "open"} \/ \E w \in Workers : Attentive(w)
  PROVE  IInv'
<1> USE DEF IInv, fiberVars, countVars, flagVars, workVars
<1> DEFINE t == FiberTask(f)
<1>1. t \in Task /\ t.fiber = f /\ t.kind = "fiber" /\ Schedule(t)
  BY DEF FiberTask, Task, Deliver
<1>2. /\ f \in armed
      /\ armed' = armed \ {f}
      /\ UNCHANGED <<state, fuel>>
      /\ ~Queued(f)
      /\ state[f] \in {"HOLD", "EXEC", "TERM"}
  BY DEF Deliver, OneWakeUp
<1> HIDE DEF t
<1>3. \A w \in Workers : pc[w] = "taken" => ff[w].fiber # f
  BY <1>2 DEF OneWakeUp, Outstanding
<1>4. \A g : Queued(g)' <=> Queued(g) \/ g = f
  BY <1>1, AppendTask
<1>5. \A g : Outstanding(g)' <=> Outstanding(g)
  BY <1>2, <1>4 DEF Outstanding
<1>11. TypeOK'
  BY <1>1, <1>2, AppendTask DEF TypeOK
<1>12. HeldState'
  BY <1>2 DEF HeldState, Holds, Inside
<1>13. QueuedState'
  <2> SUFFICES ASSUME NEW i \in DOMAIN tasks'
      PROVE state[tasks'[i].fiber] \in IF tasks'[i].kind = "cb" THEN {"FUNC"}
                                       ELSE {"INIT", "HOLD", "EXEC", "READY", "TERM"}
    BY <1>2 DEF QueuedState
  <2>1. CASE i \in DOMAIN tasks
    BY <2>1, <1>1, AppendTask DEF QueuedState
  <2>2. CASE i = Len(tasks) + 1
    BY <2>2, <1>1, <1>2, AppendTask
  <2> QED BY <2>1, <2>2, <1>1, AppendTask
<1>14. OneWakeUp'
  <2>1. \A i, j \in DOMAIN tasks' : tasks'[i].fiber = tasks'[j].fiber => i = j
    BY <1>1, <1>2, AppendUnique
  <2>2. \A g \in armed' : ~Queued(g)' /\ state'[g] \in {"HOLD", "EXEC", "TERM"}
    BY <1>2, <1>4 DEF OneWakeUp
  <2> QED BY <2>1, <2>2, <1>5 DEF OneWakeUp
<1>15. OneInside'
  BY <1>2, <1>5 DEF OneInside, Inside, TakenBy
<1>16. Accounted'
  BY <1>2, <1>4 DEF Accounted, Inside, Holds
<1>17. OwnerState'
  BY DEF OwnerState
<1>18. WorkHasWorker'
  BY DEF WorkHasWorker, OwnerState, Attentive
<1> QED BY <1>11, <1>12, <1>13, <1>14, <1>15, <1>16, <1>17, <1>18

\* schedule() of a suspended fiber by the holder of its wake-up.
LEMMA WakeKeeps ==
  ASSUME IInv, NEW f \in Fibers, Wake(f)
  PROVE  IInv'
BY DeliverKeeps DEF Wake, Attentive

\* The first takable task moves from the list to a worker, with its wake-up.
LEMMA TakeKeeps ==
  ASSUME IInv, NEW w \in Workers, Take(w)
  PROVE  IInv'
<1> USE DEF IInv, Goto, fiberVars, countVars, flagVars, workVars
<1>1. PICK i \in DOMAIN tasks : /\ Takable(tasks[i])
                                /\ ff' = [ff EXCEPT ![w] = tasks[i]]
                                /\ tasks' = RemoveAt(tasks, i)
  BY DEF Take
<1>t. PICK t \in Task : t = tasks[i]
  BY TasksTyped
<1>2. /\ pc[w] = "loop"
      /\ pc' = [pc EXCEPT ![w] = "taken"]
      /\ active' = active + 1
      /\ UNCHANGED <<state, armed, fuel, idle, autostop, stopping, quit, mpc>>
  BY DEF Take
<1>3. /\ tasks' \in Seq(Task)
      /\ \A g : Queued(g)' <=> Queued(g) /\ g # t.fiber
  BY <1>1, <1>t, RemoveTask
<1>4. Queued(t.fiber) /\ t.fiber \notin armed /\ ~Outstanding(t.fiber)'
  BY <1>2, <1>3, <1>t DEF Queued, Outstanding, OneWakeUp
<1>5. \A g : Outstanding(g)' => Outstanding(g)
  BY <1>2, <1>3 DEF Outstanding
<1>6. state[t.fiber] \in IF t.kind = "cb" THEN {"FUNC"} ELSE {"INIT", "HOLD", "READY", "TERM"}
  BY <1>1, <1>t DEF QueuedState, Takable, Task
<1>7. /\ ff'[w] = t /\ pc'[w] = "taken"
      /\ \A v \in Workers : v # w => ff'[v] = ff[v] /\ pc'[v] = pc[v]
  BY <1>1, <1>2, <1>t DEF TypeOK
<1>11. TypeOK'
  BY <1>1, <1>2, <1>3, <1>t DEF TypeOK, Point
<1>12. HeldState'
  BY <1>2, <1>6, <1>7 DEF HeldState, Holds, Inside
<1>13. QueuedState'
  BY <1>1, <1>2, RemoveTask DEF QueuedState
<1>14. OneWakeUp'
  <2>1. \A j, k \in DOMAIN tasks' : tasks'[j].fiber = tasks'[k].fiber => j = k
    BY <1>1, RemoveTask
  <2>2. \A u, v \in Workers : u # v /\ pc'[u] = "taken" /\ pc'[v] = "taken" => ff'[u].fiber # ff'[v].fiber
    BY <1>4, <1>7 DEF OneWakeUp, Outstanding
  <2>3. \A v \in Workers : \A g : pc'[v] = "taken" /\ ff'[v].fiber = g => ~Outstanding(g)'
    BY <1>4, <1>5, <1>7 DEF OneWakeUp
  <2>4. \A g \in armed : ~Queued(g)'
    BY <1>3 DEF OneWakeUp
  <2>5. UNCHANGED <<armed, state>>
    BY <1>2
  <2> QED BY <2>1, <2>2, <2>3, <2>4, <2>5 DEF OneWakeUp
<1>15. OneInside'
  BY <1>2, <1>4, <1>5, <1>7 DEF OneInside, Inside, TakenBy, Outstanding
<1>16. Accounted'
  BY <1>2, <1>3, <1>7 DEF Accounted, Inside, Holds
<1>17. OwnerState'
  BY <1>2, <1>7 DEF OwnerState
<1>18. WorkHasWorker'
  BY <1>7 DEF WorkHasWorker, Attentive
<1> QED BY <1>11, <1>12, <1>13, <1>14, <1>15, <1>16, <1>17, <1>18

\* The worker lets go of the fiber: back into the list, ended, or suspended.
LEMMA RetireKeeps ==
  ASSUME IInv, NEW w \in Workers, Retire(w)
  PROVE  IInv'
<1> USE DEF IInv, Goto, SetState, fiberVars, countVars, flagVars, workVars
<1> DEFINE t == ff[w]
<1>1. /\ pc[w] = "ret"
      /\ pc' = [pc EXCEPT ![w] = "loop"]
      /\ ff' = [ff EXCEPT ![w] = NoTask]
      /\ UNCHANGED <<armed, fuel, active, idle, autostop, stopping, quit, mpc>>
  BY DEF Retire
<1>2. t \in Task /\ t.fiber \in Fibers /\ state[t.fiber] \in {"EXEC", "READY", "TERM"}
  BY <1>1 DEF HeldState, Holds, Inside, Task
<1>3. /\ pc'[w] = "loop"
      /\ \A v \in Workers : v # w => ff'[v] = ff[v] /\ pc'[v] = pc[v]
      /\ \A v \in Workers : Holds(v)' <=> Holds(v) /\ v # w
      /\ \A v \in Workers : Inside(v)' <=> Inside(v) /\ v # w
      /\ \A v \in Workers : Inside(v) /\ v # w => ff[v].fiber # t.fiber
  BY <1>1 DEF TypeOK, Holds, Inside, OneInside
<1>4. OwnerState'
  BY <1>1, <1>3 DEF OwnerState
<1>5. WorkHasWorker'
  BY <1>1, <1>3 DEF WorkHasWorker, OwnerState, Attentive
<1>6. CASE Requeued(t)
  <2>1. /\ t.kind = "fiber" /\ state[t.fiber] = "READY"
        /\ Schedule(t) /\ UNCHANGED state
    BY <1>6 DEF Retire, Requeued
  <2>2. ~Outstanding(t.fiber) /\ \A v \in Workers : ~TakenBy(v, t.fiber)
    BY <1>1, <2>1 DEF OneInside, Inside
  <2>3. \A g : Queued(g)' <=> Queued(g) \/ g = t.fiber
    BY <1>2, <2>1, AppendTask
  <2>4. \A g : Outstanding(g)' <=> Outstanding(g) \/ g = t.fiber
    BY <1>1, <2>3 DEF Outstanding
  <2> HIDE DEF t
  <2>11. TypeOK'
    BY <1>1, <1>2, <2>1, AppendTask DEF TypeOK, Point
  <2>12. HeldState'
    BY <1>3, <2>1 DEF HeldState, Holds, Inside
  <2>13. QueuedState'
    BY <1>2, <2>1, AppendTask DEF QueuedState
  <2>14. OneWakeUp'
    <3>1. \A i, j \in DOMAIN tasks' : tasks'[i].fiber = tasks'[j].fiber => i = j
      BY <1>2, <2>1, <2>2, AppendUnique DEF Outstanding
    <3>2. \A v \in Workers : pc'[v] = "taken" => pc[v] = "taken" /\ v # w /\ ff'[v] = ff[v] /\ ff[v].fiber # t.fiber
      BY <1>3, <2>2 DEF TakenBy
    <3>3. \A g \in armed' : ~Queued(g)' /\ state'[g] \in {"HOLD", "EXEC", "TERM"}
      BY <1>1, <2>1, <2>2, <2>3 DEF OneWakeUp, Outstanding
    <3> QED BY <3>1, <3>2, <3>3, <2>4 DEF OneWakeUp
  <2>15. OneInside'
    BY <1>3, <2>1, <2>4 DEF OneInside, Inside, TakenBy
  <2>16. Accounted'
    <3> SUFFICES ASSUME NEW g \in Fibers
        PROVE /\ state'[g] = "EXEC" => \E v \in Workers : Inside(v)' /\ ff'[v].fiber = g
              /\ state'[g] \in {"FUNC", "INIT", "READY"} =>
                   Queued(g)' \/ \E v \in Workers : Holds(v)' /\ ff'[v].fiber = g
      BY DEF Accounted
    <3>1. CASE g = t.fiber
      BY <3>1, <2>1, <2>3
    <3>2. CASE g # t.fiber
      BY <3>2, <1>3, <2>1, <2>3 DEF Accounted, t
    <3> QED BY <3>1, <3>2
  <2> QED BY <1>4, <1>5, <2>11, <2>12, <2>13, <2>14, <2>15, <2>16
<1>7. CASE ~Requeued(t)
  <2>1. /\ UNCHANGED tasks
        /\ state' = IF state[t.fiber] = "TERM" THEN state ELSE [state EXCEPT ![t.fiber] = "HOLD"]
    BY <1>7 DEF Retire
  <2>2. /\ state' \in [Fibers -> FiberState]
        /\ state'[t.fiber] \in {"HOLD", "TERM"}
        /\ \A g \in Fibers : g # t.fiber => state'[g] = state[g]
    BY <1>2, <2>1 DEF TypeOK, FiberState
  <2>3. state[t.fiber] # "TERM" => /\ state[t.fiber] \in {"EXEC", "READY"}
                                   /\ state'[t.fiber] = "HOLD"
    BY <1>2, <2>1 DEF TypeOK
  <2>4. state[t.fiber] = "TERM" => UNCHANGED state
    BY <2>1
  <2>5. \A g : (Queued(g)' <=> Queued(g)) /\ (Outstanding(g)' <=> Outstanding(g))
    BY <1>1, <2>1 DEF Queued, Outstanding
  <2>6. \A v \in Workers : pc[v] = "taken" /\ ff[v].fiber = t.fiber => state[t.fiber] = "TERM"
    BY <1>1, <1>2 DEF HeldState, OneInside, Inside, TakenBy
  <2> HIDE DEF t
  <2>11. TypeOK'
    BY <1>1, <2>1, <2>2 DEF TypeOK, Point
  <2>12. HeldState'
    <3> SUFFICES ASSUME NEW v \in Workers, Holds(v), v # w
        PROVE /\ ff[v] \in Task
              /\ pc[v] = "taken" =>
                   state'[ff[v].fiber] \in IF ff[v].kind = "cb" THEN {"FUNC"}
                                           ELSE {"INIT", "HOLD", "READY", "TERM"}
              /\ pc[v] = "exec" => state'[ff[v].fiber] = "EXEC"
              /\ pc[v] \in {"back", "ret"} => state'[ff[v].fiber] \in {"EXEC", "READY", "TERM"}
      BY <1>3 DEF HeldState, Holds, Inside
    <3>1. ff[v] \in Task /\ ff[v].fiber \in Fibers
      BY DEF HeldState, Task
    <3>2. CASE ff[v].fiber # t.fiber
      BY <3>1, <3>2, <2>2 DEF HeldState
    <3>3. CASE ff[v].fiber = t.fiber
      BY <3>1, <3>3, <1>3, <2>4, <2>6 DEF HeldState, Holds, Inside
    <3> QED BY <3>2, <3>3
  <2>13. QueuedState'
    <3>1. \A i \in DOMAIN tasks : tasks[i] \in Task /\ tasks[i].fiber \in Fibers
      BY TasksTyped
    <3>2. \A i \in DOMAIN tasks : tasks[i].fiber = t.fiber => tasks[i].kind = "fiber"
      BY <1>2, <3>1 DEF QueuedState, Task
    <3> QED BY <2>1, <2>2, <3>1, <3>2 DEF QueuedState
  <2>14. OneWakeUp'
    <3>1. \A g \in armed : state'[g] \in {"HOLD", "EXEC", "TERM"}
      BY <2>2 DEF OneWakeUp, TypeOK
    <3>2. \A v \in Workers : pc'[v] = "taken" => pc[v] = "taken" /\ v # w /\ ff'[v] = ff[v]
      BY <1>3
    <3> QED BY <3>1, <3>2, <1>1, <2>1, <2>5 DEF OneWakeUp
  <2>15. OneInside'
    <3>1. \A v \in Workers : Inside(v)' => /\ Inside(v) /\ v # w /\ ff'[v] = ff[v]
                                          /\ ff[v].fiber # t.fiber /\ ff[v].fiber \in Fibers
      BY <1>3 DEF HeldState, Holds, Task
    <3>2. \A v \in Workers : \A g : TakenBy(v, g)' => TakenBy(v, g)
      BY <1>3 DEF TakenBy
    <3> QED BY <3>1, <3>2, <2>2, <2>5 DEF OneInside
  <2>16. Accounted'
    <3> SUFFICES ASSUME NEW g \in Fibers
        PROVE /\ state'[g] = "EXEC" => \E v \in Workers : Inside(v)' /\ ff'[v].fiber = g
              /\ state'[g] \in {"FUNC", "INIT", "READY"} =>
                   Queued(g)' \/ \E v \in Workers : Holds(v)' /\ ff'[v].fiber = g
      BY DEF Accounted
    <3>1. CASE g = t.fiber
      BY <3>1, <2>2
    <3>2. CASE g # t.fiber
      BY <3>2, <1>3, <2>2, <2>5 DEF Accounted, t
    <3> QED BY <3>1, <3>2
  <2> QED BY <1>4, <1>5, <2>11, <2>12, <2>13, <2>14, <2>15, <2>16
<1> QED BY <1>6, <1>7

\* The pool threads enter run() with nothing in their hands.
LEMMA StartKeeps ==
  ASSUME IInv, Start
  PROVE  IInv'
<1> USE DEF IInv, Start, fiberVars, countVars, flagVars, workVars
<1>1. TypeOK'
  BY DEF TypeOK, Point, Phase
<1>2. HeldState'
  BY DEF TypeOK, HeldState, Holds, Inside, OwnerState
<1>3. QueuedState'
  BY DEF QueuedState
<1>4. OneWakeUp'
  BY DEF TypeOK, OneWakeUp, Outstanding, Queued, OwnerState
<1>5. OneInside'
  BY DEF TypeOK, HeldState, OneInside, Inside, Outstanding, Queued, TakenBy, OwnerState
<1>6. Accounted'
  BY DEF TypeOK, Accounted, Holds, Inside, Queued, OwnerState
<1>7. OwnerState'
  BY DEF TypeOK, OwnerState
<1>8. WorkHasWorker'
  BY DEF TypeOK, OwnerState, WorkHasWorker, Attentive
<1> QED BY <1>1, <1>2, <1>3, <1>4, <1>5, <1>6, <1>7, <1>8

\* stop() raises m_autostop; no worker can give up before m_stopping.
LEMMA StopBeginKeeps ==
  ASSUME IInv, StopBegin
  PROVE  IInv'
<1> USE DEF IInv, StopBegin, fiberVars, countVars, flagVars, workVars
<1>1. TypeOK'
  BY DEF TypeOK, Phase
<1>2. HeldState'
  BY DEF TypeOK, HeldState, Holds, Inside
<1>3. QueuedState'
  BY DEF QueuedState
<1>4. OneWakeUp'
  BY DEF TypeOK, OneWakeUp, Outstanding, Queued
<1>5. OneInside'
  BY DEF TypeOK, HeldState, OneInside, Inside, Outstanding, Queued, TakenBy
<1>6. Accounted'
  BY DEF TypeOK, Accounted, Holds, Inside, Queued
<1>7. OwnerState'
  BY DEF TypeOK, OwnerState
<1>8. WorkHasWorker'
  BY DEF TypeOK, OwnerState, WorkHasWorker, Attentive
<1> QED BY <1>1, <1>2, <1>3, <1>4, <1>5, <1>6, <1>7, <1>8

\* stop() raises m_stopping; from here workers may give up.
LEMMA StopFlagKeeps ==
  ASSUME IInv, StopFlag
  PROVE  IInv'
<1> USE DEF IInv, StopFlag, fiberVars, countVars, flagVars, workVars
<1>1. TypeOK'
  BY DEF TypeOK, Phase
<1>2. HeldState'
  BY DEF TypeOK, HeldState, Holds, Inside
<1>3. QueuedState'
  BY DEF QueuedState
<1>4. OneWakeUp'
  BY DEF TypeOK, OneWakeUp, Outstanding, Queued
<1>5. OneInside'
  BY DEF TypeOK, HeldState, OneInside, Inside, Outstanding, Queued, TakenBy
<1>6. Accounted'
  BY DEF TypeOK, Accounted, Holds, Inside, Queued
<1>7. OwnerState'
  BY DEF TypeOK, OwnerState
<1>8. WorkHasWorker'
  BY DEF TypeOK, OwnerState, WorkHasWorker, Attentive
<1> QED BY <1>1, <1>2, <1>3, <1>4, <1>5, <1>6, <1>7, <1>8

\* The owner enters run() because work or a busy worker is left.
LEMMA StopCallKeeps ==
  ASSUME IInv, StopCall
  PROVE  IInv'
<1> USE DEF IInv, StopCall, Goto, fiberVars, countVars, flagVars, workVars
<1>1. TypeOK'
  BY DEF TypeOK, Phase, Point
<1>2. HeldState'
  BY DEF TypeOK, HeldState, Holds, Inside
<1>3. QueuedState'
  BY DEF QueuedState
<1>4. OneWakeUp'
  BY DEF TypeOK, OneWakeUp, Outstanding, Queued
<1>5. OneInside'
  BY DEF TypeOK, HeldState, OneInside, Inside, Outstanding, Queued, TakenBy
<1>6. Accounted'
  BY DEF TypeOK, Accounted, Holds, Inside, Queued, OwnerState
<1>7. OwnerState'
  BY DEF TypeOK, OwnerState
<1>8. WorkHasWorker'
  BY DEF TypeOK, OwnerState, WorkHasWorker, Attentive
<1> QED BY <1>1, <1>2, <1>3, <1>4, <1>5, <1>6, <1>7, <1>8

\* The owner goes straight to the join, which leaves no task behind.
LEMMA StopNoCallKeeps ==
  ASSUME IInv, StopNoCall
  PROVE  IInv'
<1> USE DEF IInv, StopNoCall, fiberVars, countVars, flagVars, workVars
<1>1. TypeOK'
  BY DEF TypeOK, Phase
<1>2. HeldState'
  BY DEF TypeOK, HeldState, Holds, Inside
<1>3. QueuedState'
  BY DEF QueuedState
<1>4. OneWakeUp'
  BY DEF TypeOK, OneWakeUp, Outstanding, Queued
<1>5. OneInside'
  BY DEF TypeOK, HeldState, OneInside, Inside, Outstanding, Queued, TakenBy
<1>6. Accounted'
  BY DEF TypeOK, Accounted, Holds, Inside, Queued
<1>7. OwnerState'
  BY DEF TypeOK, OwnerState, Stopping
<1>8. WorkHasWorker'
  <2>1. CASE quit = {} /\ Caller \notin Workers
    <3> PICK w \in Workers : TRUE
      BY WorkersAssumption
    <3> Attentive(w)'
      BY <2>1 DEF OwnerState, Attentive
    <3> QED BY DEF WorkHasWorker
  <2>2. CASE quit # {}
    BY <2>2 DEF WorkHasWorker, Attentive
  <2>3. CASE Stopping
    BY <2>3 DEF Stopping, WorkHasWorker
  <2> QED BY <2>1, <2>2, <2>3
<1> QED BY <1>1, <1>2, <1>3, <1>4, <1>5, <1>6, <1>7, <1>8

\* The owner has left run(), and so had given up.
LEMMA CallReturnsKeeps ==
  ASSUME IInv, CallReturns
  PROVE  IInv'
<1> USE DEF IInv, CallReturns, fiberVars, countVars, flagVars, workVars
<1>1. TypeOK'
  BY DEF TypeOK, Phase
<1>2. HeldState'
  BY DEF TypeOK, HeldState, Holds, Inside
<1>3. QueuedState'
  BY DEF QueuedState
<1>4. OneWakeUp'
  BY DEF TypeOK, OneWakeUp, Outstanding, Queued
<1>5. OneInside'
  BY DEF TypeOK, HeldState, OneInside, Inside, Outstanding, Queued, TakenBy
<1>6. Accounted'
  BY DEF TypeOK, Accounted, Holds, Inside, Queued
<1>7. OwnerState'
  BY DEF TypeOK, OwnerState
<1>8. WorkHasWorker'
  BY DEF TypeOK, OwnerState, WorkHasWorker, Attentive
<1> QED BY <1>1, <1>2, <1>3, <1>4, <1>5, <1>6, <1>7, <1>8

\* Every pool thread has ended.
LEMMA JoinKeeps ==
  ASSUME IInv, Join
  PROVE  IInv'
<1> USE DEF IInv, Join, fiberVars, countVars, flagVars, workVars
<1>1. TypeOK'
  BY DEF TypeOK, Phase
<1>2. HeldState'
  BY DEF TypeOK, HeldState, Holds, Inside
<1>3. QueuedState'
  BY DEF QueuedState
<1>4. OneWakeUp'
  BY DEF TypeOK, OneWakeUp, Outstanding, Queued
<1>5. OneInside'
  BY DEF TypeOK, HeldState, OneInside, Inside, Outstanding, Queued, TakenBy
<1>6. Accounted'
  BY DEF TypeOK, Accounted, Holds, Inside, Queued
<1>7. OwnerState'
  BY DEF TypeOK, OwnerState
<1>8. WorkHasWorker'
  BY DEF TypeOK, OwnerState, WorkHasWorker, Attentive
<1> QED BY <1>1, <1>2, <1>3, <1>4, <1>5, <1>6, <1>7, <1>8

\* A worker that finds nothing to take leaves only tasks of fibers that are
\* still inside another worker, which will look at the list again.
LEMMA TakeNothingKeeps ==
  ASSUME IInv, NEW w \in Workers, TakeNothing(w)
  PROVE  IInv'
<1> USE DEF IInv, TakeNothing, Goto, fiberVars, countVars, flagVars, workVars
<1>1. TypeOK'
  BY DEF TypeOK, Point
<1>2. HeldState'
  BY DEF TypeOK, HeldState, Holds, Inside
<1>3. QueuedState'
  BY DEF QueuedState
<1>4. OneWakeUp'
  BY DEF TypeOK, OneWakeUp, Outstanding, Queued
<1>5. OneInside'
  BY DEF TypeOK, HeldState, OneInside, Inside, Outstanding, Queued, TakenBy
<1>6. Accounted'
  BY DEF TypeOK, Accounted, Holds, Inside, Queued
<1>7. OwnerState'
  BY DEF TypeOK, OwnerState
<1>8. WorkHasWorker'
  <2> SUFFICES ASSUME tasks # <<>>, w \in quit PROVE \E v \in Workers : Attentive(v)'
    BY DEF TypeOK, WorkHasWorker, Attentive
  <2>1. 1 \in DOMAIN tasks /\ tasks[1].fiber \in Fibers
    BY TasksTyped DEF TypeOK
  <2>2. state[tasks[1].fiber] = "EXEC"
    BY <2>1 DEF Takable
  <2>3. PICK v \in Workers : Inside(v) /\ ff[v].fiber = tasks[1].fiber
    BY <2>1, <2>2 DEF Accounted
  <2>4. Attentive(v)'
    BY <2>3 DEF TypeOK, Inside, Attentive
  <2> QED BY <2>4
<1> QED BY <1>1, <1>2, <1>3, <1>4, <1>5, <1>6, <1>7, <1>8

\* swapIn(): the wake-up is consumed and nobody else is inside the fiber.
LEMMA SwapInKeeps ==
  ASSUME IInv, NEW w \in Workers, SwapIn(w)
  PROVE  IInv'
<1> USE DEF IInv, SwapIn, Goto, SetState, fiberVars, countVars, flagVars, workVars
<1>1. TypeOK'
  BY DEF TypeOK, Point, FiberState
<1>2. HeldState'
  BY DEF TypeOK, HeldState, Holds, Inside, Task, OneWakeUp, OneInside, TakenBy
<1>3. QueuedState'
  BY DEF QueuedState, TypeOK, HeldState, Holds, OneWakeUp, Outstanding, Queued
<1>4. OneWakeUp'
  BY DEF TypeOK, OneWakeUp, Outstanding, Queued, HeldState, Holds
<1>5. OneInside'
  BY DEF TypeOK, HeldState, OneInside, Inside, Outstanding, Queued, TakenBy, OneWakeUp
<1>6. Accounted'
  BY DEF TypeOK, Accounted, Holds, Inside, Queued, HeldState
<1>7. OwnerState'
  BY DEF TypeOK, OwnerState
<1>8. WorkHasWorker'
  BY DEF TypeOK, OwnerState, WorkHasWorker, Attentive
<1> QED BY <1>1, <1>2, <1>3, <1>4, <1>5, <1>6, <1>7, <1>8

\* The task of an ended fiber is thrown away.
LEMMA DropKeeps ==
  ASSUME IInv, NEW w \in Workers, Drop(w)
  PROVE  IInv'
<1> USE DEF IInv, Drop, Goto, fiberVars, countVars, flagVars, workVars
<1>1. TypeOK'
  BY DEF TypeOK, Point
<1>2. HeldState'
  BY DEF TypeOK, HeldState, Holds, Inside
<1>3. QueuedState'
  BY DEF QueuedState
<1>4. OneWakeUp'
  BY DEF TypeOK, OneWakeUp, Outstanding, Queued
<1>5. OneInside'
  BY DEF TypeOK, HeldState, OneInside, Inside, Outstanding, Queued, TakenBy
<1>6. Accounted'
  BY DEF TypeOK, Accounted, Holds, Inside, Queued, HeldState
<1>7. OwnerState'
  BY DEF TypeOK, OwnerState
<1>8. WorkHasWorker'
  BY DEF TypeOK, OwnerState, WorkHasWorker, Attentive
<1> QED BY <1>1, <1>2, <1>3, <1>4, <1>5, <1>6, <1>7, <1>8

\* The counter alone changes on the way back into run().
LEMMA DecActiveKeeps ==
  ASSUME IInv, NEW w \in Workers, DecActive(w)
  PROVE  IInv'
<1> USE DEF IInv, DecActive, Goto, fiberVars, countVars, flagVars, workVars
<1>1. TypeOK'
  BY DEF TypeOK, Point
<1>2. HeldState'
  BY DEF TypeOK, HeldState, Holds, Inside
<1>3. QueuedState'
  BY DEF QueuedState
<1>4. OneWakeUp'
  BY DEF TypeOK, OneWakeUp, Outstanding, Queued
<1>5. OneInside'
  BY DEF TypeOK, HeldState, OneInside, Inside, Outstanding, Queued, TakenBy
<1>6. Accounted'
  BY DEF TypeOK, Accounted, Holds, Inside, Queued
<1>7. OwnerState'
  BY DEF TypeOK, OwnerState
<1>8. WorkHasWorker'
  BY DEF TypeOK, OwnerState, WorkHasWorker, Attentive
<1> QED BY <1>1, <1>2, <1>3, <1>4, <1>5, <1>6, <1>7, <1>8

\* A worker that leaves run() was not the one the tasks relied on.
LEMMA ExitKeeps ==
  ASSUME IInv, NEW w \in Workers, Exit(w)
  PROVE  IInv'
<1> USE DEF IInv, Exit, Goto, fiberVars, countVars, flagVars, workVars
<1>1. TypeOK'
  BY DEF TypeOK, Point
<1>2. HeldState'
  BY DEF TypeOK, HeldState, Holds, Inside
<1>3. QueuedState'
  BY DEF QueuedState
<1>4. OneWakeUp'
  BY DEF TypeOK, OneWakeUp, Outstanding, Queued
<1>5. OneInside'
  BY DEF TypeOK, HeldState, OneInside, Inside, Outstanding, Queued, TakenBy
<1>6. Accounted'
  BY DEF TypeOK, Accounted, Holds, Inside, Queued
<1>7. OwnerState'
  BY DEF TypeOK, OwnerState
<1>8. WorkHasWorker'
  BY DEF TypeOK, OwnerState, WorkHasWorker, Attentive
<1> QED BY <1>1, <1>2, <1>3, <1>4, <1>5, <1>6, <1>7, <1>8

\* The worker resumes its idle fiber.
LEMMA IdleInKeeps ==
  ASSUME IInv, NEW w \in Workers, IdleIn(w)
  PROVE  IInv'
<1> USE DEF IInv, IdleIn, Goto, fiberVars, countVars, flagVars, workVars
<1>1. TypeOK'
  BY DEF TypeOK, Point
<1>2. HeldState'
  BY DEF TypeOK, HeldState, Holds, Inside
<1>3. QueuedState'
  BY DEF QueuedState
<1>4. OneWakeUp'
  BY DEF TypeOK, OneWakeUp, Outstanding, Queued
<1>5. OneInside'
  BY DEF TypeOK, HeldState, OneInside, Inside, Outstanding, Queued, TakenBy
<1>6. Accounted'
  BY DEF TypeOK, Accounted, Holds, Inside, Queued
<1>7. OwnerState'
  BY DEF TypeOK, OwnerState
<1>8. WorkHasWorker'
  BY DEF TypeOK, OwnerState, WorkHasWorker, Attentive
<1> QED BY <1>1, <1>2, <1>3, <1>4, <1>5, <1>6, <1>7, <1>8

\* A worker gives up only on an empty list.
LEMMA IdleCheckKeeps ==
  ASSUME IInv, NEW w \in Workers, IdleCheck(w)
  PROVE  IInv'
<1> USE DEF IInv, IdleCheck, Goto, fiberVars, countVars, flagVars, workVars
<1>1. TypeOK'
  BY DEF TypeOK, Point
<1>2. HeldState'
  BY DEF TypeOK, HeldState, Holds, Inside
<1>3. QueuedState'
  BY DEF QueuedState
<1>4. OneWakeUp'
  BY DEF TypeOK, OneWakeUp, Outstanding, Queued
<1>5. OneInside'
  BY DEF TypeOK, HeldState, OneInside, Inside, Outstanding, Queued, TakenBy
<1>6. Accounted'
  BY DEF TypeOK, Accounted, Holds, Inside, Queued
<1>7. OwnerState'
  BY DEF TypeOK, OwnerState, Stopping
<1>8. WorkHasWorker'
  BY DEF TypeOK, OwnerState, WorkHasWorker, Attentive, Stopping
<1> QED BY <1>1, <1>2, <1>3, <1>4, <1>5, <1>6, <1>7, <1>8

\* The worker is back from its idle fiber and looks at the list.
LEMMA IdleOutKeeps ==
  ASSUME IInv, NEW w \in Workers, IdleOut(w)
  PROVE  IInv'
<1> USE DEF IInv, IdleOut, Goto, fiberVars, countVars, flagVars, workVars
<1>1. TypeOK'
  BY DEF TypeOK, Point
<1>2. HeldState'
  BY DEF TypeOK, HeldState, Holds, Inside
<1>3. QueuedState'
  BY DEF QueuedState
<1>4. OneWakeUp'
  BY DEF TypeOK, OneWakeUp, Outstanding, Queued
<1>5. OneInside'
  BY DEF TypeOK, HeldState, OneInside, Inside, Outstanding, Queued, TakenBy
<1>6. Accounted'
  BY DEF TypeOK, Accounted, Holds, Inside, Queued
<1>7. OwnerState'
  BY DEF TypeOK, OwnerState
<1>8. WorkHasWorker'
  BY DEF TypeOK, OwnerState, WorkHasWorker, Attentive
<1> QED BY <1>1, <1>2, <1>3, <1>4, <1>5, <1>6, <1>7, <1>8

\* The running fiber hands out the one wake-up it may have.
LEMMA ArmKeeps ==
  ASSUME IInv, NEW w \in Workers, Arm(w)
  PROVE  IInv'
<1> USE DEF IInv, Arm, Goto, fiberVars, countVars, flagVars, workVars
<1>0. ff[w].fiber \in Fibers /\ state[ff[w].fiber] = "EXEC" /\ ~Outstanding(ff[w].fiber)
  BY DEF HeldState, Holds, Inside, Task
<1>1. TypeOK'
  BY <1>0, MaxYieldsAssumption DEF TypeOK
<1>2. HeldState'
  BY DEF TypeOK, HeldState, Holds, Inside
<1>3. QueuedState'
  BY DEF QueuedState
<1>4. OneWakeUp'
  BY <1>0 DEF OneWakeUp, Outstanding, Queued, HeldState
<1>5. OneInside'
  BY DEF TypeOK, HeldState, OneInside, Inside, Outstanding, Queued, TakenBy
<1>6. Accounted'
  BY DEF TypeOK, Accounted, Holds, Inside, Queued
<1>7. OwnerState'
  BY DEF TypeOK, OwnerState
<1>8. WorkHasWorker'
  BY DEF TypeOK, OwnerState, WorkHasWorker, Attentive
<1> QED BY <1>1, <1>2, <1>3, <1>4, <1>5, <1>6, <1>7, <1>8

\* The fiber is switched out; its state stays EXEC.
LEMMA YieldKeeps ==
  ASSUME IInv, NEW w \in Workers, Yield(w)
  PROVE  IInv'
<1> USE DEF IInv, Yield, Goto, fiberVars, countVars, flagVars, workVars
<1>1. TypeOK'
  BY DEF TypeOK, Point
<1>2. HeldState'
  BY DEF TypeOK, HeldState, Holds, Inside
<1>3. QueuedState'
  BY DEF QueuedState
<1>4. OneWakeUp'
  BY DEF TypeOK, OneWakeUp, Outstanding, Queued
<1>5. OneInside'
  BY DEF TypeOK, HeldState, OneInside, Inside, Outstanding, Queued, TakenBy
<1>6. Accounted'
  BY DEF TypeOK, Accounted, Holds, Inside, Queued
<1>7. OwnerState'
  BY DEF TypeOK, OwnerState
<1>8. WorkHasWorker'
  BY DEF TypeOK, OwnerState, WorkHasWorker, Attentive
<1> QED BY <1>1, <1>2, <1>3, <1>4, <1>5, <1>6, <1>7, <1>8

\* The fiber asks for another turn; nobody else may resume it meanwhile.
LEMMA YieldReadyKeeps ==
  ASSUME IInv, NEW w \in Workers, YieldReady(w)
  PROVE  IInv'
<1> USE DEF IInv, YieldReady, Goto, SetState, fiberVars, countVars, flagVars, workVars
<1>0. ff[w].fiber \in Fibers /\ state[ff[w].fiber] = "EXEC" /\ ~Outstanding(ff[w].fiber)
  BY DEF HeldState, Holds, Inside, Task
<1>1. TypeOK'
  BY <1>0, MaxYieldsAssumption DEF TypeOK, Point, FiberState
<1>2. HeldState'
  BY DEF TypeOK, HeldState, Holds, Inside, OneInside
<1>3. QueuedState'
  BY DEF QueuedState, TypeOK, HeldState, Holds, Inside, Outstanding, Queued
<1>4. OneWakeUp'
  BY DEF TypeOK, OneWakeUp, Outstanding, Queued, HeldState, Holds, Inside
<1>5. OneInside'
  <2>1. \A v \in Workers : Inside(v)' => Inside(v)
    BY DEF TypeOK, Inside
  <2>2. \A v \in Workers : \A g : TakenBy(v, g)' => TakenBy(v, g) /\ g # ff[w].fiber
    BY <1>0 DEF TypeOK, TakenBy, HeldState
  <2>3. \A g : Outstanding(g)' <=> Outstanding(g)
    BY DEF Outstanding, Queued
  <2> QED BY <1>0, <2>1, <2>2, <2>3 DEF TypeOK, OneInside, HeldState, Holds, Task
<1>6. Accounted'
  BY DEF TypeOK, Accounted, Holds, Inside, Queued
<1>7. OwnerState'
  BY DEF TypeOK, OwnerState
<1>8. WorkHasWorker'
  BY DEF TypeOK, OwnerState, WorkHasWorker, Attentive
<1> QED BY <1>1, <1>2, <1>3, <1>4, <1>5, <1>6, <1>7, <1>8

\* The callable returned; a wake-up may still be under way.
LEMMA FinishKeeps ==
  ASSUME IInv, NEW w \in Workers, Finish(w)
  PROVE  IInv'
<1> USE DEF IInv, Finish, Goto, SetState, fiberVars, countVars, flagVars, workVars
<1>1. TypeOK'
  BY DEF TypeOK, Point, FiberState
<1>2. HeldState'
  BY DEF TypeOK, HeldState, Holds, Inside, OneInside
<1>3. QueuedState'
  BY DEF QueuedState, TypeOK, HeldState, Holds, Inside
<1>4. OneWakeUp'
  BY DEF TypeOK, OneWakeUp, Outstanding, Queued, HeldState, Holds, Inside
<1>5. OneInside'
  BY DEF TypeOK, HeldState, OneInside, Inside, Outstanding, Queued, TakenBy
<1>6. Accounted'
  BY DEF TypeOK, Accounted, Holds, Inside, Queued, HeldState
<1>7. OwnerState'
  BY DEF TypeOK, OwnerState
<1>8. WorkHasWorker'
  BY DEF TypeOK, OwnerState, WorkHasWorker, Attentive
<1> QED BY <1>1, <1>2, <1>3, <1>4, <1>5, <1>6, <1>7, <1>8

------------------------------------------------------------------------------
(* The invariant holds, and what follows from it                            *)

\* A scheduler that has just been constructed.
LEMMA InitKeeps == Init => IInv
<1> SUFFICES ASSUME Init PROVE IInv
  OBVIOUS
<1> USE DEF Init
<1>1. TypeOK
  <2>1. tasks \in Seq(Task)
    BY EmptySeq
  <2>2. fuel \in [Fibers -> 0..MaxYields]
    BY MaxYieldsAssumption
  <2>3. state \in [Fibers -> FiberState] /\ armed \subseteq Fibers /\ quit \subseteq Workers
    BY DEF FiberState
  <2>4. pc \in [Workers -> Point] /\ ff \in [Workers -> Task \cup {NoTask}] /\ mpc \in Phase
    BY DEF Point, Phase
  <2>5. active \in Int /\ idle \in Int
    OBVIOUS
  <2>6. autostop \in BOOLEAN /\ stopping \in BOOLEAN
    BY Zenon
  <2> QED BY <2>1, <2>2, <2>3, <2>4, <2>5, <2>6, Zenon DEF TypeOK
<1>2. HeldState /\ QueuedState /\ OneInside /\ Accounted
  BY DEF HeldState, Holds, Inside, QueuedState, OneInside, Accounted
<1>3. OneWakeUp
  BY DEF OneWakeUp
<1>4. OwnerState /\ WorkHasWorker
  BY DEF OwnerState, WorkHasWorker
<1> QED BY <1>1, <1>2, <1>3, <1>4 DEF IInv

\* Every step of every thread keeps the invariant.
LEMMA NextKeeps == IInv /\ [Next]_vars => IInv'
<1> SUFFICES ASSUME IInv, [Next]_vars PROVE IInv'
  OBVIOUS
<1>1. CASE Start \/ StopBegin \/ StopStep
  BY <1>1, StartKeeps, StopBeginKeeps, StopFlagKeeps, StopCallKeeps, StopNoCallKeeps,
     CallReturnsKeeps, JoinKeeps DEF StopStep
<1>2. CASE \E f \in Fibers : MainSchedule(f) \/ Wake(f)
  BY <1>2, MainScheduleKeeps, WakeKeeps
<1>3. CASE \E w \in Workers : RunStep(w)
  BY <1>3, TakeKeeps, TakeNothingKeeps, SwapInKeeps, DropKeeps, DecActiveKeeps, RetireKeeps
     DEF RunStep
<1>4. CASE \E w \in Workers : IdleStep(w)
  BY <1>4, ExitKeeps, IdleInKeeps, IdleCheckKeeps, IdleOutKeeps DEF IdleStep
<1>5. CASE \E w \in Workers : FiberStep(w)
  BY <1>5, ArmKeeps, YieldKeeps, YieldReadyKeeps, FinishKeeps, SpawnKeeps DEF FiberStep
<1>6. CASE UNCHANGED vars
  BY <1>6 DEF vars, IInv, TypeOK, HeldState, Holds, Inside, QueuedState, OneWakeUp, OneInside,
     Outstanding, Queued, TakenBy, Accounted, OwnerState, WorkHasWorker, Attentive
<1> QED BY <1>1, <1>2, <1>3, <1>4, <1>5, <1>6 DEF Next, Terminated

\* The inductive invariant of the scheduler.
THEOREM Invariance == Spec => []IInv
BY InitKeeps, NextKeeps, PTL DEF Spec

\* Every variable keeps to its type: run(), schedule() and stop() produce no
\* other state of a fiber, a worker or the owner.
THEOREM TypeCorrect == Spec => []TypeOK
BY Invariance, PTL DEF IInv

\* run() never switches into a fiber another worker is executing, although
\* m_state is checked and set in different places.
THEOREM NeverRunTwice == Spec => []NoDoubleRun
<1>1. IInv => NoDoubleRun
  BY DEF IInv, OneInside, Inside, NoDoubleRun
<1> QED BY <1>1, Invariance, PTL

\* When stop() has returned, the list is empty and no fiber is fresh, ready
\* or being executed, for any number of threads and with or without a caller.
THEOREM StopDrains == Spec => []Drained
<1>1. IInv => Drained
  <2> SUFFICES ASSUME IInv, mpc = "stopped"
      PROVE  /\ tasks = <<>>
             /\ \A f \in Fibers : state[f] \in {"NONE", "HOLD", "TERM"}
             /\ \A w \in Workers : pc[w] \in {"off", "done"}
    BY DEF Drained
  <2>1. \A w \in Workers : pc[w] \in {"off", "done"}
    BY DEF IInv, OwnerState
  <2>2. tasks = <<>>
    BY <2>1 DEF IInv, WorkHasWorker, Attentive
  <2>3. \A f \in Fibers : ~Queued(f)
    BY <2>2 DEF Queued
  <2>4. \A w \in Workers : ~Holds(w) /\ ~Inside(w)
    BY <2>1 DEF Holds, Inside
  <2>5. \A f \in Fibers : state[f] \in {"NONE", "HOLD", "TERM"}
    BY <2>3, <2>4 DEF IInv, TypeOK, FiberState, Accounted
  <2> QED BY <2>1, <2>2, <2>5
<1> QED BY <1>1, Invariance, PTL

------------------------------------------------------------------------------
(* The counters                                                             *)

One(b) == IF b THEN 1 ELSE 0

Counted(p) == p \in {"taken", "exec", "back"}
Resting(p) == p \in {"idle", "idleret"}

\* Moving one worker changes the number of workers at any set of points by
\* at most one.
LEMMA PointCounts ==
  ASSUME NEW Q, pc \in [Workers -> Q], NEW w \in Workers, NEW p \in Q, NEW P, Goto(w, p)
  PROVE  /\ Cardinality({v \in Workers : pc'[v] \in P})
              = Cardinality({v \in Workers : pc[v] \in P}) + One(p \in P) - One(pc[w] \in P)
         /\ Cardinality({v \in Workers : pc[v] \in P}) \in Nat
<1> DEFINE S == {v \in Workers : pc[v] \in P}
           T == {v \in Workers : pc'[v] \in P}
<1>1. \A v \in Workers : pc'[v] = IF v = w THEN p ELSE pc[v]
  BY DEF Goto
<1>2. IsFiniteSet(S) /\ Cardinality(S) \in Nat
  BY WorkersAssumption, FS_Subset, FS_CardinalityType
<1>3. CASE p \in P /\ pc[w] \notin P
  <2>1. T = S \cup {w} /\ w \notin S
    BY <1>1, <1>3
  <2> HIDE DEF S, T
  <2>2. Cardinality(T) = Cardinality(S) + 1
    BY <1>2, <2>1, FS_AddElement
  <2> QED BY <1>2, <1>3, <2>2 DEF One, S, T
<1>4. CASE p \notin P /\ pc[w] \in P
  <2>1. T = S \ {w} /\ w \in S
    BY <1>1, <1>4
  <2> HIDE DEF S, T
  <2>2. Cardinality(T) = Cardinality(S) - 1
    BY <1>2, <2>1, FS_RemoveElement
  <2> QED BY <1>2, <1>4, <2>2 DEF One, S, T
<1>5. CASE p \in P <=> pc[w] \in P
  <2>1. T = S
    BY <1>1, <1>5
  <2> HIDE DEF S, T
  <2>2. Cardinality(T) = Cardinality(S)
    BY <2>1
  <2> QED BY <1>2, <1>5, <2>2 DEF One, S, T
<1> QED BY <1>3, <1>4, <1>5

\* The same for a state of Scheduler.
LEMMA MoveCounts ==
  ASSUME TypeOK, NEW w \in Workers, NEW p \in Point, NEW P \in SUBSET Point, Goto(w, p)
  PROVE  Cardinality({v \in Workers : pc'[v] \in P})
           = Cardinality({v \in Workers : pc[v] \in P}) + One(p \in P) - One(pc[w] \in P)
BY PointCounts DEF TypeOK

\* A worker that adjusts the counters as it moves keeps them exact.
LEMMA MoveKeepsCounters ==
  ASSUME TypeOK, CountersExact, NEW w \in Workers, NEW p \in Point, Goto(w, p),
         active' = active + One(Counted(p)) - One(Counted(pc[w])),
         idle' = idle + One(Resting(p)) - One(Resting(pc[w]))
  PROVE  CountersExact'
<1> DEFINE A == {"taken", "exec", "back"}
           R == {"idle", "idleret"}
<1>1. A \in SUBSET Point /\ R \in SUBSET Point
  BY DEF Point
<1>2. Cardinality({v \in Workers : pc'[v] \in A})
        = Cardinality({v \in Workers : pc[v] \in A}) + One(p \in A) - One(pc[w] \in A)
  BY <1>1, MoveCounts
<1>3. Cardinality({v \in Workers : pc'[v] \in R})
        = Cardinality({v \in Workers : pc[v] \in R}) + One(p \in R) - One(pc[w] \in R)
  BY <1>1, MoveCounts
<1> QED BY <1>2, <1>3 DEF CountersExact, ActiveWorkers, IdleWorkers, Counted, Resting

\* Every step keeps both counters exact.
LEMMA CountersKeeps == IInv /\ CountersExact /\ [Next]_vars => CountersExact'
<1> SUFFICES ASSUME IInv, CountersExact, [Next]_vars PROVE CountersExact'
  OBVIOUS
<1> USE DEF IInv
<1>0. active \in Int /\ idle \in Int
  BY DEF TypeOK
<1> USE <1>0 DEF One, Counted, Resting, Point, countVars
<1>1. CASE Start
  <2>1. \A w \in Workers : pc[w] = "off" /\ pc'[w] \in {"off", "loop"}
    BY <1>1 DEF Start, OwnerState
  <2>2. ActiveWorkers' = ActiveWorkers /\ IdleWorkers' = IdleWorkers
    BY <2>1 DEF ActiveWorkers, IdleWorkers
  <2> QED BY <1>1, <2>2 DEF Start, CountersExact
<1>2. CASE StopCall
  <2>1. Caller \in Workers /\ pc[Caller] = "off"
    BY <1>2 DEF StopCall, OwnerState
  <2> QED BY <1>2, <2>1, MoveKeepsCounters DEF StopCall
<1>3. CASE \E w \in Workers : RunStep(w)
  <2> PICK w \in Workers : RunStep(w)
    BY <1>3
  <2>1. CASE Take(w)
    BY <2>1, MoveKeepsCounters DEF Take
  <2>2. CASE TakeNothing(w)
    BY <2>2, MoveKeepsCounters DEF TakeNothing
  <2>3. CASE SwapIn(w)
    BY <2>3, MoveKeepsCounters DEF SwapIn
  <2>4. CASE Drop(w)
    BY <2>4, MoveKeepsCounters DEF Drop
  <2>5. CASE DecActive(w)
    BY <2>5, MoveKeepsCounters DEF DecActive
  <2>6. CASE Retire(w)
    BY <2>6, MoveKeepsCounters DEF Retire
  <2> QED BY <2>1, <2>2, <2>3, <2>4, <2>5, <2>6 DEF RunStep
<1>4. CASE \E w \in Workers : IdleStep(w)
  <2> PICK w \in Workers : IdleStep(w)
    BY <1>4
  <2>1. CASE Exit(w)
    BY <2>1, MoveKeepsCounters DEF Exit
  <2>2. CASE IdleIn(w)
    BY <2>2, MoveKeepsCounters DEF IdleIn
  <2>3. CASE IdleCheck(w)
    BY <2>3, MoveKeepsCounters DEF IdleCheck
  <2>4. CASE IdleOut(w)
    BY <2>4, MoveKeepsCounters DEF IdleOut
  <2> QED BY <2>1, <2>2, <2>3, <2>4 DEF IdleStep
<1>5. CASE \E w \in Workers : Yield(w) \/ YieldReady(w) \/ Finish(w)
  <2> PICK w \in Workers : Yield(w) \/ YieldReady(w) \/ Finish(w)
    BY <1>5
  <2> QED BY MoveKeepsCounters DEF Yield, YieldReady, Finish
<1>6. CASE UNCHANGED <<pc, active, idle>>
  BY <1>6 DEF CountersExact, ActiveWorkers, IdleWorkers
<1>7. CASE \/ StopBegin \/ StopFlag \/ StopNoCall \/ CallReturns \/ Join \/ UNCHANGED vars
           \/ \E f \in Fibers : MainSchedule(f) \/ Wake(f)
           \/ \E w \in Workers : Arm(w) \/ \E f \in Fibers : Spawn(w, f)
  BY <1>6, <1>7 DEF StopBegin, StopFlag, StopNoCall, CallReturns, Join, vars, MainSchedule, Wake,
     Arm, Spawn, workVars
<1> QED BY <1>1, <1>2, <1>3, <1>4, <1>5, <1>7 DEF Next, StopStep, FiberStep, Terminated

\* a_activeThreadCount and a_idleThreadCount count the workers between their
\* increments and decrements at every moment, on every path through run().
THEOREM CountersAreExact == Spec => []CountersExact
<1>1. Init => CountersExact
  <2> SUFFICES ASSUME Init PROVE CountersExact
    OBVIOUS
  <2>1. ActiveWorkers = {} /\ IdleWorkers = {}
    BY DEF Init, ActiveWorkers, IdleWorkers
  <2> QED BY <2>1, FS_EmptySet DEF Init, CountersExact
<1> QED BY <1>1, CountersKeeps, Invariance, PTL DEF Spec
==============================================================================
