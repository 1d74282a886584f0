-------------------------- MODULE TimerManager_proofs --------------------------
(***************************************************************************)
(* Proofs about TimerManager for any set of timers, lengths, MAX_TIMEOUT   *)
(* and width of an int.                                                    *)
(***************************************************************************)
EXTENDS TimerManager, WellFoundedInduction, TLAPS

\* When t is due: at m_next, or at once if it was set to a moment of the past.
Due(t) == IF next[t] > since[t] THEN next[t] ELSE since[t]

\* Callbacks wait to be run only while the worker is outside its idle fiber.
BatchWhileRunning == batch # {} => phase = "run"

\* A sleeping worker wakes within MAX_TIMEOUT of now and of every deadline.
SleepBounded ==
  phase = "sleep" =>
    /\ wake \in now..(now + MaxTimeout)
    /\ \A t \in timers : wake <= Due(t) + MaxTimeout

\* The inductive invariant.
IInv ==
  /\ TypeOK
  /\ CallbackIsQueued
  /\ OneShotOnce
  /\ StartIsPast
  /\ BatchWhileRunning
  /\ SleepBounded
  /\ ServedInTime

------------------------------------------------------------------------------
(* Lemmas about the operators                                               *)

\* The clock, the deadlines and the lengths are numbers, and a length fits an int.
LEMMA Numbers ==
  ASSUME TypeOK
  PROVE  /\ now \in 0..MaxNow /\ now \in Nat /\ MaxNow \in Nat /\ IntHalf \in Nat
         /\ \A t \in Timers : /\ next[t] \in Nat /\ since[t] \in Nat
                              /\ ms[t] \in 0..(IntHalf - 1) /\ ms[t] \in Nat
                              /\ now + ms[t] \in Times
<1>1. /\ now \in 0..MaxNow /\ now \in Nat /\ MaxNow \in Nat /\ IntHalf \in Nat \ {0}
      /\ Lengths \cup {0} \subseteq 0..(IntHalf - 1)
  BY IntHalfAssumption, MaxNowAssumption DEF TypeOK
<1>2. ASSUME NEW t \in Timers
      PROVE  next[t] \in Nat /\ since[t] \in Nat /\ ms[t] \in 0..(IntHalf - 1)
  <2>1. next[t] \in Times /\ since[t] \in Times /\ ms[t] \in Lengths \cup {0}
    BY DEF TypeOK
  <2> QED BY <1>1, <2>1 DEF Times
<1> QED BY <1>1, <1>2 DEF Times

\* A set of numbers that is not empty has a smallest member.
LEMMA SmallestNat ==
  ASSUME NEW S \in SUBSET Nat, S # {}
  PROVE  \E n \in S : \A m \in S : n <= m
<1>1. PICK n \in S : \A m \in S : ~(<<m, n>> \in OpToRel(<, Nat))
  BY NatLessThanWellFounded, WFMin
<1>2. \A m \in S : ~(m < n)
  BY <1>1 DEF OpToRel
<1> QED BY <1>2

\* m_timers has a front: the comparator orders timers totally.
LEMMA FrontExists ==
  ASSUME TypeOK, timers # {}
  PROVE  \E t \in timers : \A s \in timers \ {t} : Before(t, s)
<1>1. /\ \A t \in timers : next[t] \in Nat /\ t \in Nat
      /\ {next[t] : t \in timers} \subseteq Nat
  BY TimersAssumption, IntHalfAssumption, MaxNowAssumption DEF TypeOK, Times
<1>2. PICK n \in {next[t] : t \in timers} : \A m \in {next[t] : t \in timers} : n <= m
  BY <1>1, SmallestNat
<1>3. /\ {t \in timers : next[t] = n} \subseteq Nat
      /\ {t \in timers : next[t] = n} # {}
  BY <1>1, <1>2
<1>4. PICK f \in {t \in timers : next[t] = n} : \A s \in {t \in timers : next[t] = n} : f <= s
  BY <1>3, SmallestNat
<1>5. \A s \in timers \ {f} : Before(f, s)
  BY <1>1, <1>2, <1>4 DEF Before
<1> QED BY <1>4, <1>5

\* The conversion to int changes no number that fits.
LEMMA ToIntFits ==
  ASSUME NEW n \in 0..(IntHalf - 1)
  PROVE  ToInt(n) = n
<1>1. IntHalf \in Nat \ {0}
  BY IntHalfAssumption
<1>2. n % (2 * IntHalf) = n
  BY <1>1, SMTT(30)
<1> QED BY <1>1, <1>2 DEF ToInt

\* A timer due within the range of an int gives a timeout up to MAX_TIMEOUT
\* that does not pass it.
LEMMA EpollTimeoutBounds ==
  ASSUME NEW left \in 0..(IntHalf - 1)
  PROVE  EpollTimeout(left) = IF left > MaxTimeout THEN MaxTimeout ELSE left
<1>1. MaxTimeout \in 0..(IntHalf - 1) /\ IntHalf \in Nat
  BY MaxTimeoutAssumption, IntHalfAssumption
<1>2. ToInt(left) = left /\ ToInt(MaxTimeout) = MaxTimeout
  BY <1>1, ToIntFits
<1> QED BY <1>1, <1>2 DEF EpollTimeout

\* Wherever the address of the probe falls, the range holds the timers due.
LEMMA ExpiredIsDue ==
  ASSUME TypeOK, NEW probe \in Timers \cup {0}
  PROVE  Expired(probe) = {t \in timers : next[t] <= now}
<1> DEFINE lower == {t \in timers : next[t] < now \/ (next[t] = now /\ t <= probe)}
<1>1. now \in Int /\ \A t \in timers : t \in Int /\ next[t] \in Int
  BY TimersAssumption, IntHalfAssumption, MaxNowAssumption DEF TypeOK, Times
<1>2. \A t \in timers \ lower : next[t] >= now
  BY <1>1
<1>3. \A t \in timers \ lower :
        (\A s \in timers \ lower : ~Before(t, s) => next[s] = now) <=> next[t] = now
  <2> TAKE t \in timers \ lower
  <2>1. ~Before(t, t)
    BY <1>1 DEF Before
  <2>2. ASSUME next[t] = now, NEW s \in timers \ lower, ~Before(t, s) PROVE next[s] = now
    BY <1>1, <1>2, <2>2 DEF Before
  <2> QED BY <2>1, <2>2
<1>4. Expired(probe) = lower \cup {t \in timers \ lower : next[t] = now}
  BY <1>3 DEF Expired
<1> QED BY <1>1, <1>4

------------------------------------------------------------------------------
(* Every action keeps the invariant                                         *)

\* addTimer(): a new timer is in no batch, and its deadline is not past.
LEMMA AddTimerKeeps ==
  ASSUME IInv, NEW t \in Timers, NEW len \in Lengths, AddTimer(t, len)
  PROVE  IInv'
<1> USE IntHalfAssumption, MaxNowAssumption, MaxTimeoutAssumption DEF IInv, AddTimer, Insert, workerVars
<1>1. /\ len \in 0..(IntHalf - 1) /\ now \in 0..MaxNow
      /\ now + len \in Times /\ now \in Times
  BY DEF TypeOK, Times
<1>2. /\ next' = [next EXCEPT ![t] = now + len] /\ next \in [Timers -> Times]
      /\ place' = [place EXCEPT ![t] = now + len] /\ place \in [Timers -> Times]
      /\ since' = [since EXCEPT ![t] = now] /\ since \in [Timers -> Times]
      /\ ms' = [ms EXCEPT ![t] = len] /\ ms \in [Timers -> Lengths \cup {0}]
      /\ timers' = timers \cup {t} /\ timers \subseteq Timers
  BY DEF TypeOK
<1>3. flag' \in BOOLEAN /\ tickled' \in BOOLEAN
  BY DEF TypeOK, Tickle
<1>4. TypeOK'
  BY <1>1, <1>2, <1>3 DEF TypeOK
<1>5. CallbackIsQueued'
  BY <1>2 DEF CallbackIsQueued, Found, TypeOK
<1>6. OneShotOnce'
  BY DEF OneShotOnce, TypeOK
<1>7. StartIsPast'
  BY <1>1, <1>2 DEF StartIsPast
<1>8. BatchWhileRunning'
  BY DEF BatchWhileRunning
<1>9. SleepBounded'
  BY <1>1, <1>2 DEF SleepBounded, Due, Times
<1>10. ServedInTime'
  BY <1>1, <1>2 DEF ServedInTime, Times
<1> QED BY <1>4, <1>5, <1>6, <1>7, <1>8, <1>9, <1>10

\* cancel(): the timer leaves m_timers together with its callback, and it was
\* in m_timers, so not in a batch unless it recurs.
LEMMA CancelKeeps ==
  ASSUME IInv, NEW t \in Timers, Cancel(t)
  PROVE  IInv'
<1> USE DEF IInv, Cancel, workerVars
<1>1. TypeOK'
  BY DEF TypeOK
<1>2. CallbackIsQueued'
  BY DEF CallbackIsQueued, Found
<1>3. OneShotOnce'
  BY DEF OneShotOnce, CallbackIsQueued, Found
<1>4. StartIsPast' /\ BatchWhileRunning' /\ SleepBounded' /\ ServedInTime'
  BY DEF StartIsPast, BatchWhileRunning, SleepBounded, ServedInTime, Due
<1> QED BY <1>1, <1>2, <1>3, <1>4

\* refresh() and reset() of a timer in m_timers: it stays there, with a new
\* deadline at most its new length away.
LEMMA RescheduleKeeps ==
  ASSUME IInv, NEW t \in timers, NEW len \in Lengths \cup {0}, NEW at \in len..(now + len),
         timers' = timers,
         next' = [next EXCEPT ![t] = at],
         place' = [place EXCEPT ![t] = at],
         since' = [since EXCEPT ![t] = now],
         ms' = [ms EXCEPT ![t] = len],
         flag' \in BOOLEAN, tickled' \in BOOLEAN,
         UNCHANGED <<now, made, recurring, hasCb, cancelled, workerVars>>
  PROVE  IInv'
<1> USE IntHalfAssumption, MaxNowAssumption, MaxTimeoutAssumption DEF IInv, workerVars
<1>1. /\ len \in 0..(IntHalf - 1) /\ now \in 0..MaxNow
      /\ at \in Times /\ now \in Times /\ t \in Timers
  BY DEF TypeOK, Times
<1>2. /\ next \in [Timers -> Times] /\ place \in [Timers -> Times] /\ since \in [Timers -> Times]
      /\ ms \in [Timers -> Lengths \cup {0}] /\ timers \subseteq Timers
  BY DEF TypeOK
<1>3. TypeOK'
  BY <1>1, <1>2 DEF TypeOK
<1>4. CallbackIsQueued' /\ OneShotOnce' /\ BatchWhileRunning'
  BY <1>2 DEF CallbackIsQueued, Found, OneShotOnce, BatchWhileRunning, TypeOK
<1>5. StartIsPast'
  BY <1>1, <1>2 DEF StartIsPast
<1>6. SleepBounded'
  BY <1>1, <1>2 DEF SleepBounded, Due, Times
<1>7. ServedInTime'
  BY <1>1, <1>2 DEF ServedInTime, Times
<1> QED BY <1>3, <1>4, <1>5, <1>6, <1>7

\* refresh(): the length stays what it was.
LEMMA RefreshKeeps ==
  ASSUME IInv, NEW t \in Timers, Refresh(t)
  PROVE  IInv'
<1>1. ms[t] \in Lengths \cup {0} /\ ms[t] \in Nat /\ now \in Nat
  BY Numbers DEF IInv, TypeOK
<1>2. now + ms[t] \in ms[t]..(now + ms[t])
  BY <1>1
<1>3. ms' = [ms EXCEPT ![t] = ms[t]]
  BY DEF IInv, TypeOK, Refresh
<1>4. flag' \in BOOLEAN /\ tickled' \in BOOLEAN
  BY DEF IInv, TypeOK, Refresh
<1> QED BY <1>1, <1>2, <1>3, <1>4, RescheduleKeeps DEF Refresh, Found

\* reset(): counted from now or from the old start, which lies in the past.
LEMMA ResetKeeps ==
  ASSUME IInv, NEW t \in Timers, NEW len \in Lengths, NEW fromNow \in BOOLEAN,
         Reset(t, len, fromNow)
  PROVE  IInv'
<1> DEFINE at == IF fromNow THEN now + len ELSE next[t] - ms[t] + len
<1>1. len \in Nat /\ now \in Nat /\ t \in timers /\ next[t] - ms[t] \in 0..now
  BY IntHalfAssumption, MaxNowAssumption DEF IInv, TypeOK, StartIsPast, Reset, Found
<1>2. /\ next[t] \in Int /\ ms[t] \in Int
  BY Numbers DEF IInv
<1>4. at \in len..(now + len)
  BY <1>1, <1>2
<1>5. flag' \in BOOLEAN /\ tickled' \in BOOLEAN
  BY DEF IInv, TypeOK, Reset, Insert, Tickle
<1>3. /\ timers' = timers
      /\ next' = [next EXCEPT ![t] = at]
      /\ place' = [place EXCEPT ![t] = at]
      /\ since' = [since EXCEPT ![t] = now]
      /\ ms' = [ms EXCEPT ![t] = len]
      /\ UNCHANGED <<now, made, recurring, hasCb, cancelled, workerVars>>
  BY <1>1 DEF Reset, Insert
<1> HIDE DEF at
<1> QED BY <1>1, <1>3, <1>4, <1>5, RescheduleKeeps

\* getNextTime(): the timeout is MAX_TIMEOUT at most, and the front is the
\* timer that is due first.
LEMMA CheckNextKeeps ==
  ASSUME IInv, CheckNext
  PROVE  IInv'
<1> DEFINE front == CHOOSE t \in timers : \A s \in timers \ {t} : Before(t, s)
           left == IF now >= next[front] THEN 0 ELSE next[front] - now
           timeout == IF timers = {} THEN MaxTimeout ELSE EpollTimeout(left)
<1> USE IntHalfAssumption, MaxNowAssumption, MaxTimeoutAssumption DEF IInv, timerVars
<1>1. /\ now \in Nat /\ now \in 0..MaxNow /\ phase' = "sleep" /\ batch = {}
      /\ flag' = FALSE
      /\ UNCHANGED <<now, timerVars, batch, tickled>>
  BY DEF CheckNext, TypeOK, BatchWhileRunning
<1>2. wake' = IF timeout < 0 THEN -1 ELSE now + timeout
  BY DEF CheckNext
<1>3. /\ timeout \in 0..MaxTimeout
      /\ \A t \in timers : now + timeout <= Due(t) + MaxTimeout
  <2>1. CASE timers = {}
    BY <2>1
  <2>2. CASE timers # {}
    <3>1. front \in timers /\ \A s \in timers \ {front} : Before(front, s)
      BY <2>2, FrontExists
    <3> HIDE DEF front
    <3>2. /\ \A t \in timers : next[t] \in Nat /\ since[t] \in Nat /\ next[front] <= next[t]
          /\ next[front] - ms[front] \in 0..now
          /\ ms[front] \in 0..(IntHalf - 1) /\ next[front] \in Nat
      BY <3>1, Numbers DEF TypeOK, Before, StartIsPast
    <3>3. left \in 0..(IntHalf - 1)
      BY <1>1, <3>2
    <3>4. timeout = IF left > MaxTimeout THEN MaxTimeout ELSE left
      BY <2>2, <3>3, EpollTimeoutBounds
    <3>5. timeout \in 0..MaxTimeout
      BY <3>3, <3>4
    <3>6. ASSUME NEW t \in timers PROVE now + timeout <= Due(t) + MaxTimeout
      <4>1. CASE now >= next[front]
        BY <4>1, <1>1, <3>2, <3>4 DEF ServedInTime, Due
      <4>2. CASE ~(now >= next[front])
        BY <4>2, <1>1, <3>2, <3>4 DEF Due
      <4> QED BY <4>1, <4>2
    <3> QED BY <3>5, <3>6
  <2> QED BY <2>1, <2>2
<1> HIDE DEF timeout
<1>4. wake' = now + timeout
  BY <1>2, <1>3
<1>5. wake' \in Times
  BY <1>1, <1>3, <1>4 DEF Times
<1>6. TypeOK'
  BY <1>1, <1>5 DEF TypeOK
<1>7. CallbackIsQueued' /\ OneShotOnce' /\ StartIsPast' /\ BatchWhileRunning' /\ ServedInTime'
  BY <1>1 DEF CallbackIsQueued, Found, OneShotOnce, StartIsPast, BatchWhileRunning, ServedInTime
<1>8. SleepBounded'
  BY <1>1, <1>3, <1>4 DEF SleepBounded, Due
<1> QED BY <1>6, <1>7, <1>8

\* epoll_wait returns.
LEMMA WakeKeeps ==
  ASSUME IInv, Wake
  PROVE  IInv'
<1> USE DEF IInv, Wake, timerVars
<1>1. TypeOK'
  BY DEF TypeOK
<1>2. CallbackIsQueued' /\ OneShotOnce' /\ StartIsPast' /\ ServedInTime'
  BY DEF CallbackIsQueued, Found, OneShotOnce, StartIsPast, ServedInTime
<1>3. BatchWhileRunning' /\ SleepBounded'
  BY DEF BatchWhileRunning, SleepBounded
<1> QED BY <1>1, <1>2, <1>3

\* listExpiredCb(): a one-shot timer goes from m_timers to the batch, and a
\* recurring one starts again now.
LEMMA CollectKeepsIInv ==
  ASSUME IInv, Collect
  PROVE  IInv'
<1> USE IntHalfAssumption, MaxNowAssumption DEF IInv
<1>1. PICK probe \in Timers \cup {0} :
        LET expired == Expired(probe)
            again == expired \cap recurring
        IN /\ batch' = batch \cup expired
           /\ timers' = timers \ (expired \ again)
           /\ next' = [t \in Timers |-> IF t \in again THEN now + ms[t] ELSE next[t]]
           /\ place' = [t \in Timers |-> IF t \in again THEN now + ms[t] ELSE place[t]]
           /\ since' = [t \in Timers |-> IF t \in again THEN now ELSE since[t]]
           /\ hasCb' = hasCb \ (expired \ again)
  BY DEF Collect
<1> DEFINE expired == Expired(probe)
           again == expired \cap recurring
<1>2. /\ batch' = batch \cup expired
      /\ timers' = timers \ (expired \ again)
      /\ next' = [t \in Timers |-> IF t \in again THEN now + ms[t] ELSE next[t]]
      /\ place' = [t \in Timers |-> IF t \in again THEN now + ms[t] ELSE place[t]]
      /\ since' = [t \in Timers |-> IF t \in again THEN now ELSE since[t]]
      /\ hasCb' = hasCb \ (expired \ again)
  BY <1>1
<1>3. expired \subseteq timers
  BY ExpiredIsDue
<1> HIDE DEF expired
<1>4. /\ phase' = "run"
      /\ UNCHANGED <<now, made, ms, recurring, flag, wake, tickled, cancelled>>
  BY DEF Collect
<1>5. now \in Times /\ now \in Nat /\ \A t \in Timers : ms[t] \in Nat /\ now + ms[t] \in Times
  BY Numbers DEF Times
<1>6. TypeOK'
  <2>1. next' \in [Timers -> Times] /\ place' \in [Timers -> Times] /\ since' \in [Timers -> Times]
    BY <1>2, <1>5 DEF TypeOK
  <2> QED BY <1>2, <1>3, <1>4, <2>1 DEF TypeOK
<1>7. CallbackIsQueued'
  BY <1>2, <1>3 DEF CallbackIsQueued, Found, TypeOK
<1>8. OneShotOnce'
  BY <1>2, <1>3, <1>4 DEF OneShotOnce
<1>9. StartIsPast'
  BY <1>2, <1>4, <1>5 DEF StartIsPast, TypeOK
<1>10. BatchWhileRunning' /\ SleepBounded'
  BY <1>4 DEF BatchWhileRunning, SleepBounded
<1>11. ServedInTime'
  BY <1>2, <1>4, <1>5, MaxTimeoutAssumption DEF ServedInTime, TypeOK
<1> QED BY <1>6, <1>7, <1>8, <1>9, <1>10, <1>11

\* A callback is taken out of the batch, or the batch is done.
LEMMA RunKeeps ==
  ASSUME IInv, BackToIdle \/ \E t \in Timers : RunCallback(t)
  PROVE  IInv'
<1> USE DEF IInv, BackToIdle, RunCallback, timerVars
<1>1. TypeOK'
  BY DEF TypeOK
<1>2. CallbackIsQueued' /\ StartIsPast' /\ ServedInTime'
  BY DEF CallbackIsQueued, Found, StartIsPast, ServedInTime
<1>3. OneShotOnce'
  BY DEF OneShotOnce
<1>4. BatchWhileRunning' /\ SleepBounded'
  BY DEF BatchWhileRunning, SleepBounded
<1> QED BY <1>1, <1>2, <1>3, <1>4

\* The clock moves up to the moment epoll_wait times out.
LEMMA TickKeeps ==
  ASSUME IInv, Tick
  PROVE  IInv'
<1> USE IntHalfAssumption, MaxNowAssumption, MaxTimeoutAssumption DEF IInv, Tick, timerVars, workerVars
<1>1. now \in 0..MaxNow /\ now' = now + 1 /\ wake \in Int /\ now + 1 <= wake /\ wake <= now + MaxTimeout
  BY DEF TypeOK, SleepBounded, Times
<1>2. TypeOK'
  BY DEF TypeOK
<1>3. CallbackIsQueued' /\ OneShotOnce' /\ BatchWhileRunning'
  BY <1>2 DEF CallbackIsQueued, Found, OneShotOnce, BatchWhileRunning, TypeOK
<1>4. \A t \in timers : next[t] \in Int /\ since[t] \in Int /\ ms[t] \in Int
  BY Numbers DEF TypeOK
<1>5. StartIsPast'
  BY <1>1, <1>4 DEF StartIsPast
<1>6. SleepBounded' /\ ServedInTime'
  BY <1>1, <1>4 DEF SleepBounded, ServedInTime, Due
<1> QED BY <1>2, <1>3, <1>5, <1>6

\* Every step keeps the invariant.
LEMMA StepKeeps ==
  ASSUME IInv, [Next]_vars
  PROVE  IInv'
<1>1. CASE Work
  BY <1>1, CheckNextKeeps, WakeKeeps, CollectKeepsIInv, RunKeeps DEF Work
<1>2. CASE \E t \in Timers : Call(t)
  BY <1>2, AddTimerKeeps, CancelKeeps, RefreshKeeps, ResetKeeps DEF Call
<1>3. CASE UNCHANGED vars
  BY <1>3 DEF IInv, vars, TypeOK, CallbackIsQueued, Found, OneShotOnce, StartIsPast, BatchWhileRunning,
     SleepBounded, ServedInTime, Due
<1> QED BY <1>1, <1>2, <1>3, TickKeeps DEF Next

\* No timer exists at first.
LEMMA InitHolds ==
  ASSUME Init
  PROVE  IInv
<1>1. 0 \in Times /\ 0 \in 0..MaxNow
  BY IntHalfAssumption, MaxNowAssumption DEF Times
<1>2. TypeOK
  BY <1>1 DEF Init, TypeOK
<1> QED BY <1>2 DEF Init, IInv, CallbackIsQueued, Found, OneShotOnce, StartIsPast, BatchWhileRunning,
                    SleepBounded, ServedInTime

------------------------------------------------------------------------------
(* Theorems                                                                 *)

\* The invariant holds whatever calls interleave with the worker's loop.
THEOREM Invariance == Spec => []IInv
<1>1. Init => IInv
  BY InitHolds
<1>2. IInv /\ [Next]_vars => IInv'
  BY StepKeeps
<1> QED BY <1>1, <1>2, PTL DEF Spec

\* The timers' state is well-typed: no m_next leaves the range of the clock
\* plus one length, so the arithmetic of addTimer() and reset() is exact.
THEOREM TypeCorrect == Spec => []TypeOK
<1>1. IInv => TypeOK
  BY DEF IInv
<1> QED BY <1>1, Invariance, PTL

\* cancel() finds what it erases: a timer with a callback is in m_timers, and
\* m_timers is in the order of m_next.
THEOREM CancelFindsTimer == Spec => []CallbackIsQueued
<1>1. IInv => CallbackIsQueued
  BY DEF IInv
<1> QED BY <1>1, Invariance, PTL

\* A one-shot callback runs once, and never after a cancel() that succeeded.
THEOREM OneShotRunsOnce == Spec => []OneShotOnce
<1>1. IInv => OneShotOnce
  BY DEF IInv
<1> QED BY <1>1, Invariance, PTL

\* The start reset() works out from m_next and m_ms is never after now nor
\* before the clock's zero.
THEOREM StartNeverWraps == Spec => []StartIsPast
<1>1. IInv => StartIsPast
  BY DEF IInv
<1> QED BY <1>1, Invariance, PTL

\* No timer that is due waits longer than MAX_TIMEOUT for idle() to see it,
\* even one that tickle() did not announce.
THEOREM TimersServedInTime == Spec => []ServedInTime
<1>1. IInv => ServedInTime
  BY DEF IInv
<1> QED BY <1>1, Invariance, PTL

\* listExpiredCb() collects exactly the timers that are due.
THEOREM CollectIsExact == Spec => CollectsDue
<1>1. IInv /\ [Next]_vars => [phase = "collect" /\ phase' = "run" =>
                               batch' \ batch = {t \in timers : next[t] <= now}]_vars
  <2> SUFFICES ASSUME IInv, [Next]_vars, phase = "collect", phase' = "run"
               PROVE  batch' \ batch = {t \in timers : next[t] <= now}
    OBVIOUS
  <2>1. batch = {}
    BY DEF IInv, BatchWhileRunning
  <2>2. Collect
    BY DEF Next, Work, CheckNext, Wake, BackToIdle, RunCallback, Tick, Call, AddTimer, Cancel, Refresh,
       Reset, workerVars, vars
  <2>3. PICK probe \in Timers \cup {0} : batch' = batch \cup Expired(probe)
    BY <2>2 DEF Collect
  <2> QED BY <2>1, <2>3, ExpiredIsDue DEF IInv
<1> QED BY <1>1, Invariance, PTL DEF Spec, CollectsDue

\* Only reset() to another length brings a deadline forward: refresh() and a
\* recurring timer's next round never do.
THEOREM RefreshOnlyPostpones == Spec => RefreshPostpones
<1>1. IInv /\ [Next]_vars =>
        [\A t \in timers : (t \in timers' /\ ms'[t] = ms[t] /\ since'[t] = now) => next'[t] >= next[t]]_vars
  <2> SUFFICES ASSUME IInv, [Next]_vars, NEW t \in timers, t \in timers', ms'[t] = ms[t]
               PROVE  next'[t] >= next[t]
    OBVIOUS
  <2> USE IntHalfAssumption, MaxNowAssumption
  <2>1. /\ next[t] \in Int /\ ms[t] \in Int /\ now \in Int /\ next[t] <= now + ms[t]
        /\ t \in Timers /\ t \in made
        /\ next \in [Timers -> Times] /\ ms \in [Timers -> Lengths \cup {0}]
    BY Numbers DEF IInv, TypeOK, StartIsPast
  <2>2. ASSUME NEW s \in Timers, Call(s) PROVE next'[t] >= next[t]
    <3>1. CASE \E len \in Lengths : AddTimer(s, len)
      BY <3>1, <2>1 DEF AddTimer, Insert
    <3>2. CASE Cancel(s)
      BY <3>2, <2>1 DEF Cancel
    <3>3. CASE Refresh(s)
      BY <3>3, <2>1 DEF Refresh
    <3>4. ASSUME NEW len \in Lengths, NEW fromNow \in BOOLEAN, Reset(s, len, fromNow)
          PROVE  next'[t] >= next[t]
      <4>1. CASE s = t
        <5>1. len = ms[t]
          BY <4>1, <3>4, <2>1 DEF Reset
        <5> QED BY <5>1, <4>1, <3>4, <2>1 DEF Reset, Insert
      <4>2. CASE s # t
        BY <4>2, <3>4, <2>1 DEF Reset, Insert
      <4> QED BY <4>1, <4>2
    <3> QED BY <2>2, <3>1, <3>2, <3>3, <3>4 DEF Call
  <2>3. CASE Collect
    BY <2>3, <2>1 DEF Collect
  <2>4. CASE UNCHANGED next
    BY <2>4, <2>1
  <2>5. CASE CheckNext \/ Wake \/ BackToIdle \/ (\E s \in Timers : RunCallback(s)) \/ Tick \/ UNCHANGED vars
    BY <2>4, <2>5 DEF CheckNext, Wake, BackToIdle, RunCallback, Tick, vars, timerVars
  <2> QED BY <2>2, <2>3, <2>5 DEF Next, Work
<1> QED BY <1>1, Invariance, PTL DEF Spec, RefreshPostpones
==============================================================================
