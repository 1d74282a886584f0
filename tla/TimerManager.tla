---------------------------- MODULE TimerManager ----------------------------
(***************************************************************************)
(* The timers of src/tw/timer.{h,cc} with time, and the one thread that    *)
(* serves them: the loop of IOManager::idle() as far as timers concern it. *)
(*                                                                         *)
(* Each call holds the write lock of m_mutex throughout, so it is one      *)
(* action.  Callbacks and calls take no time: the clock moves only while   *)
(* the worker sleeps in epoll_wait.  A timer is named by its address,      *)
(* which m_timers uses to order timers of equal m_next.  Time is in        *)
(* milliseconds scaled down; an int holds -IntHalf..IntHalf-1.             *)
(***************************************************************************)
EXTENDS Integers, FiniteSets

CONSTANTS Timers,       \* the Timer objects, as addresses
          Lengths,      \* values of m_ms
          MaxTimeout,   \* MAX_TIMEOUT of IOManager::idle()
          IntHalf,      \* 2^31
          MaxNow        \* bound: the clock stops here

ASSUME TimersAssumption == Timers \subseteq Nat \ {0} /\ IsFiniteSet(Timers)
ASSUME MaxTimeoutAssumption == MaxTimeout \in Nat \ {0} /\ MaxTimeout < IntHalf
ASSUME IntHalfAssumption == IntHalf \in Nat \ {0} /\ Lengths \subseteq 0..(IntHalf - 1)
ASSUME MaxNowAssumption == MaxNow \in Nat

VARIABLES now,        \* GetCurrentMS()
          timers,     \* m_timers
          made,       \* Timer objects that exist
          next,       \* m_next of each timer
          place,      \* the m_next each timer had when it was put into m_timers
          ms,         \* m_ms
          recurring,  \* timers with m_recurring
          hasCb,      \* timers whose m_cb is not null
          flag,       \* m_flag
          batch,      \* callbacks collected by listExpiredCb() and not run yet
          phase,      \* where the worker is in idle() and run()
          wake,       \* when its epoll_wait times out
          tickled,    \* the tickle pipe holds a byte
          since,      \* when each timer last went into m_timers
          cancelled   \* timers whose cancel() has returned true

timerVars  == <<timers, made, next, place, ms, recurring, hasCb, since, cancelled>>
workerVars == <<batch, phase, wake>>
vars == <<now, timers, made, next, place, ms, recurring, hasCb, flag, batch, phase, wake, tickled, since, cancelled>>

Times == 0..(MaxNow + IntHalf)

TypeOK ==
  /\ now \in 0..MaxNow
  /\ timers \subseteq made /\ made \subseteq Timers
  /\ next \in [Timers -> Times] /\ place \in [Timers -> Times] /\ ms \in [Timers -> Lengths \cup {0}]
  /\ recurring \subseteq made /\ hasCb \subseteq made /\ cancelled \subseteq made
  /\ flag \in BOOLEAN /\ tickled \in BOOLEAN
  /\ batch \subseteq made
  /\ phase \in {"check", "sleep", "collect", "run"}
  /\ wake \in Times \cup {-1}
  /\ since \in [Timers -> Times]

Init ==
  /\ now = 0
  /\ timers = {} /\ made = {} /\ recurring = {} /\ hasCb = {} /\ cancelled = {}
  /\ next = [t \in Timers |-> 0] /\ place = [t \in Timers |-> 0]
  /\ ms = [t \in Timers |-> 0] /\ since = [t \in Timers |-> 0]
  /\ flag = FALSE /\ tickled = FALSE
  /\ batch = {} /\ phase = "check" /\ wake = 0

------------------------------------------------------------------------------
(* Timer and TimerManager calls, from any thread                            *)

\* Timer::Comparator
Before(s, t) == next[s] < next[t] \/ (next[s] = next[t] /\ s < t)

\* m_timers.find(): it goes by m_next, so it can rely on finding a timer only
\* if no timer's m_next has been changed in its place.
Found(t) == t \in timers /\ \A s \in timers : place[s] = next[s]

\* tickle() writes only while the worker is outside its idle fiber.
Tickle == tickled' = (tickled \/ phase = "run")

\* addTimer(timer, lock): insert, and announce a new front once.
Insert(t, at) ==
  /\ timers' = timers \cup {t}
  /\ next' = [next EXCEPT ![t] = at]
  /\ place' = [place EXCEPT ![t] = at]
  /\ since' = [since EXCEPT ![t] = now]
  /\ LET front == \A s \in timers \ {t} : at < next[s] \/ (at = next[s] /\ t < s)
     IN IF front /\ ~flag
        THEN flag' = TRUE /\ Tickle
        ELSE UNCHANGED <<flag, tickled>>

AddTimer(t, len) ==
  /\ t \notin made
  /\ made' = made \cup {t}
  /\ hasCb' = hasCb \cup {t}
  /\ recurring' \in {recurring, recurring \cup {t}}
  /\ ms' = [ms EXCEPT ![t] = len]
  /\ Insert(t, now + len)
  /\ UNCHANGED <<now, cancelled, workerVars>>

\* Mutant of Cancel: m_cb is left alone.
CancelKeepsCb(t) ==
  /\ t \in hasCb
  /\ timers' = timers \ {t}
  /\ cancelled' = cancelled \cup {t}
  /\ UNCHANGED <<now, made, next, place, ms, recurring, hasCb, flag, tickled, since, workerVars>>

\* A call on a timer without callback changes nothing.
Cancel(t) ==
  /\ t \in hasCb
  /\ hasCb' = hasCb \ {t}
  /\ timers' = timers \ {t}
  /\ cancelled' = cancelled \cup {t}
  /\ UNCHANGED <<now, made, next, place, ms, recurring, flag, tickled, since, workerVars>>

\* Mutant of Refresh: m_ms is not added.
RefreshNow(t) ==
  /\ t \in hasCb /\ Found(t)
  /\ next' = [next EXCEPT ![t] = now]
  /\ place' = [place EXCEPT ![t] = now]
  /\ since' = [since EXCEPT ![t] = now]
  /\ UNCHANGED <<now, timers, made, ms, recurring, hasCb, flag, tickled, cancelled, workerVars>>

\* Mutant of Refresh: m_next is changed without erase() and insert().
RefreshInPlace(t) ==
  /\ t \in hasCb /\ Found(t)
  /\ next' = [next EXCEPT ![t] = now + ms[t]]
  /\ since' = [since EXCEPT ![t] = now]
  /\ UNCHANGED <<now, timers, made, place, ms, recurring, hasCb, flag, tickled, cancelled, workerVars>>

\* refresh(): erase, a new m_next, insert.
Refresh(t) ==
  /\ t \in hasCb /\ Found(t)
  /\ next' = [next EXCEPT ![t] = now + ms[t]]
  /\ place' = [place EXCEPT ![t] = now + ms[t]]
  /\ since' = [since EXCEPT ![t] = now]
  /\ UNCHANGED <<now, timers, made, ms, recurring, hasCb, flag, tickled, cancelled, workerVars>>

\* Mutant of Reset: the old start is not worked out.
ResetFromEnd(t, len, fromNow) ==
  /\ t \in hasCb /\ Found(t)
  /\ ms' = [ms EXCEPT ![t] = len]
  /\ Insert(t, IF fromNow THEN now + len ELSE next[t] + len)
  /\ UNCHANGED <<now, made, recurring, hasCb, cancelled, workerVars>>

Reset(t, len, fromNow) ==
  /\ t \in hasCb /\ Found(t)
  /\ ms' = [ms EXCEPT ![t] = len]
  /\ Insert(t, IF fromNow THEN now + len ELSE next[t] - ms[t] + len)
  /\ UNCHANGED <<now, made, recurring, hasCb, cancelled, workerVars>>

------------------------------------------------------------------------------
(* The worker                                                               *)

\* The value of an int that n is converted to.
ToInt(n) == LET m == n % (2 * IntHalf) IN IF m < IntHalf THEN m ELSE m - 2 * IntHalf

\* Mutant of EpollTimeout: the timeout is not cut to MAX_TIMEOUT.
EpollTimeoutUncut(left) == ToInt(left)

\* The timeout idle() gives to epoll_wait for a timer due in left ms.
EpollTimeout(left) == ToInt(IF ToInt(left) > MaxTimeout THEN MaxTimeout ELSE left)

\* getNextTime() and the timeout made of it; a negative one means for ever.
CheckNext ==
  /\ phase = "check"
  /\ phase' = "sleep"
  /\ flag' = FALSE
  /\ LET front == CHOOSE t \in timers : \A s \in timers \ {t} : Before(t, s)
         left == IF now >= next[front] THEN 0 ELSE next[front] - now
         timeout == IF timers = {} THEN MaxTimeout ELSE EpollTimeout(left)
     IN wake' = IF timeout < 0 THEN -1 ELSE now + timeout
  /\ UNCHANGED <<now, timerVars, batch, tickled>>

\* epoll_wait returns: timed out, tickled, or for some fd.
Wake ==
  /\ phase = "sleep"
  /\ phase' = "collect"
  /\ tickled' = FALSE
  /\ UNCHANGED <<now, timerVars, flag, batch, wake>>

\* Mutant of Expired: the timers equal to now_ms are not looked at.
ExpiredEarlier(probe) == {t \in timers : next[t] < now \/ (next[t] = now /\ t <= probe)}

\* The range listExpiredCb() takes from the front of m_timers: up to the
\* lower bound of a Timer made for now_ms, whose address is anywhere among
\* the others, and from there as long as m_next equals now_ms.
Expired(probe) ==
  LET lower == {t \in timers : next[t] < now \/ (next[t] = now /\ t <= probe)}
  IN lower \cup {t \in timers \ lower :
                   \A s \in timers \ lower : ~Before(t, s) => next[s] = now}

\* Mutant of Collect: a one-shot timer keeps its place in m_timers.
CollectKeeps ==
  /\ phase = "collect"
  /\ phase' = "run"
  /\ \E probe \in Timers \cup {0} : batch' = batch \cup Expired(probe)
  /\ UNCHANGED <<now, timerVars, flag, wake, tickled>>

\* listExpiredCb(): a recurring timer is set again, any other loses its
\* callback to the batch.
Collect ==
  /\ phase = "collect"
  /\ phase' = "run"
  /\ \E probe \in Timers \cup {0} :
       LET expired == Expired(probe)
           again == expired \cap recurring
       IN /\ batch' = batch \cup expired
          /\ timers' = timers \ (expired \ again)
          /\ next' = [t \in Timers |-> IF t \in again THEN now + ms[t] ELSE next[t]]
          /\ place' = [t \in Timers |-> IF t \in again THEN now + ms[t] ELSE place[t]]
          /\ since' = [t \in Timers |-> IF t \in again THEN now ELSE since[t]]
          /\ hasCb' = hasCb \ (expired \ again)
  /\ UNCHANGED <<now, made, ms, recurring, flag, wake, tickled, cancelled>>

\* run() executes the callbacks and comes back to the idle fiber.
RunCallback(t) ==
  /\ phase = "run"
  /\ t \in batch
  /\ batch' = batch \ {t}
  /\ UNCHANGED <<now, timerVars, flag, phase, wake, tickled>>

BackToIdle ==
  /\ phase = "run"
  /\ batch = {}
  /\ phase' = "check"
  /\ UNCHANGED <<now, timerVars, flag, batch, wake, tickled>>

\* The clock moves while the worker sleeps; it wakes in time or on a tickle.
Tick ==
  /\ phase = "sleep"
  /\ ~tickled
  /\ now # wake
  /\ now < MaxNow
  /\ now' = now + 1
  /\ UNCHANGED <<timerVars, flag, workerVars, tickled>>

Call(t) ==
  \/ \E len \in Lengths : AddTimer(t, len)
  \/ Cancel(t)
  \/ Refresh(t)
  \/ \E len \in Lengths, fromNow \in BOOLEAN : Reset(t, len, fromNow)

Work == CheckNext \/ Wake \/ Collect \/ BackToIdle \/ \E t \in Timers : RunCallback(t)

Next == Work \/ Tick \/ \E t \in Timers : Call(t)

Spec == Init /\ [][Next]_vars

------------------------------------------------------------------------------
(* Properties                                                               *)

\* Where a timer can be called off, m_timers has it at the place its m_next
\* names: cancel() erases what find() returns without looking (timer.cc:40-41).
\* And none is in m_timers without a callback, which listExpiredCb() would hand on.
CallbackIsQueued == timers \subseteq hasCb /\ \A t \in hasCb : Found(t)

\* A one-shot timer whose cancel() returned true never runs, and one that is
\* in a batch can no longer be cancelled: its callback runs at most once.
OneShotOnce ==
  \A t \in made \ recurring :
    /\ t \in batch => t \notin timers
    /\ t \in cancelled => t \notin timers \cup batch

\* m_next - m_ms is a moment of the past, so neither the unsigned difference
\* in reset() nor the clock arithmetic elsewhere wraps around.
StartIsPast == \A t \in timers : next[t] - ms[t] \in 0..now

\* A collected batch holds every timer that is due and no other, whatever
\* the addresses of timers that are due at the same millisecond.
CollectsDue ==
  [][phase = "collect" /\ phase' = "run" =>
       batch' \ batch = {t \in timers : next[t] <= now}]_vars

\* A timer is served at the latest MAX_TIMEOUT after it was due, which is how
\* long a sleeping worker may overlook a timer that tickle() does not
\* announce to it.
ServedInTime ==
  \A t \in timers :
    LET due == IF next[t] > since[t] THEN next[t] ELSE since[t]
    IN now <= due + MaxTimeout

\* refresh() only postpones: that is why it need not announce a new front.
RefreshPostpones ==
  [][\A t \in timers : (t \in timers' /\ ms'[t] = ms[t] /\ since'[t] = now) => next'[t] >= next[t]]_vars
==============================================================================
