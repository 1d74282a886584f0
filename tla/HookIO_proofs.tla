---------------------------- MODULE HookIO_proofs ----------------------------
(***************************************************************************)
(* Proofs about HookIO for any set of calls, any of them with timeouts or  *)
(* connecting, any number of workers and of files behind the fd number.    *)
(***************************************************************************)
EXTENDS HookIO, TLAPS

\* The waiter of an event is a call for that event.
WaiterFits == \A e \in Events : Waiting(e) => EventOf(waiter[e]) = e

\* The timer of a call is armed by that call, after its first attempt.
HasTimer(c) == c \in timerSet \/ timerLate[c] > 0 \/ c \in cancelled

TimersOfCalls ==
  \A c \in Calls : HasTimer(c) =>
    /\ c \in Timed
    /\ pc[c] # "out"
    /\ c \in Connectors => pc[c] \notin {"try", "timer"} /\ (file = 1 => result[c] # "error")

ResultAtEnd == \A c \in Calls : pc[c] # "done" => result[c] = "none"

\* Only a connection has anything to report, and only a file is connected.
UpWhenReady ==
  /\ ready # {} => link = "up"
  /\ file = 0 => link = "none"

\* The first file is connected when epoll has reported it and when a call
\* other than connect() is on it.
UpWhenUsed ==
  file = 1 =>
    /\ report # "no" => link = "up"
    /\ \A c \in Calls \ Connectors : pc[c] # "out" => link = "up"

\* A connect() that found the file unconnected.
Asked(c) == c \in Connectors /\ pc[c] \notin {"out", "try"} /\ result[c] # "error"

\* Only one connect() gets to ask for the connection of the first file.
OneAsks ==
  file = 1 =>
    /\ \A c, d \in Calls : Asked(c) /\ Asked(d) => c = d
    /\ link = "none" => \A c \in Calls : ~Asked(c)

\* A connect() that was woken before the connection is there was woken by its
\* own timer, and then does not ask for SO_ERROR; or somebody is in close().
WokenKnowsWhy ==
  file = 1 /\ closer = "no" /\ link # "up" =>
    \A c \in Connectors :
      /\ pc[c] # "error"
      /\ c \in scheduled \/ pc[c] \in {"woken", "check"} => c \in cancelled

\* The inductive invariant.
IInv ==
  /\ TypeOK
  /\ WaiterFits
  /\ WaitsOnce
  /\ WatchedByEpoll
  /\ TimersOfCalls
  /\ ResultAtEnd
  /\ UpWhenReady
  /\ UpWhenUsed
  /\ OneAsks
  /\ WokenKnowsWhy
  /\ ConnectTells

------------------------------------------------------------------------------
(* Steps that several actions take                                          *)

USE DEF callVars, epollVars, timeVars, fileVars

\* triggerEvent() hands a waiter over to the task list, or nothing happens;
\* the kernel stops watching exactly what nobody waits for any more.
LEMMA CancelEventKeeps ==
  ASSUME IInv, NEW e \in Events, CancelEvent(e), UNCHANGED <<callVars, file>>
  PROVE  /\ waiter' \in [Events -> Calls \cup {NoCall}]
         /\ mask' \subseteq Events
         /\ scheduled \subseteq scheduled' /\ scheduled' \subseteq Calls
         /\ \A c \in scheduled' \ scheduled : EventOf(c) = e /\ waiter[e] = c
         /\ WaiterFits' /\ WaitsOnce' /\ WatchedByEpoll'
<1> USE DEF IInv, CancelEvent, Waiting
<1>1. waiter \in [Events -> Calls \cup {NoCall}] /\ mask \subseteq Events /\ scheduled \subseteq Calls
  BY DEF TypeOK
<1>2. CASE Waiting(e) /\ mask # {}
  <2>1. /\ mask' = mask \ {e}
        /\ waiter' = [waiter EXCEPT ![e] = NoCall]
        /\ scheduled' = scheduled \cup {waiter[e]}
        /\ waiter[e] \in Calls /\ waiter[e] # NoCall /\ EventOf(waiter[e]) = e
    BY <1>1, <1>2 DEF WaiterFits
  <2>2. waiter' \in [Events -> Calls \cup {NoCall}] /\ mask' \subseteq Events /\ scheduled' \subseteq Calls
    BY <1>1, <2>1
  <2>3. WaiterFits'
    BY <1>1, <2>1 DEF WaiterFits
  <2>4. WaitsOnce'
    <3>1. \A c \in Calls : EventOf(c) \in Events
      BY DEF EventOf, Events
    <3>2. \A c \in Calls : waiter'[EventOf(c)] = IF EventOf(c) = e THEN NoCall ELSE waiter[EventOf(c)]
      BY <1>1, <2>1, <3>1
    <3>3. \A c \in Calls : c # NoCall
      BY CallsAssumption
    <3> QED BY <2>1, <3>2, <3>3 DEF WaitsOnce
  <2>5. WatchedByEpoll'
    BY <1>1, <2>1 DEF WatchedByEpoll
  <2> QED BY <2>1, <2>2, <2>3, <2>4, <2>5
<1>3. CASE ~(Waiting(e) /\ mask # {})
  BY <1>1, <1>3 DEF WaiterFits, WaitsOnce, WatchedByEpoll
<1> QED BY <1>2, <1>3

\* A call moves on inside do_io() without touching what others see.
LEMMA MoveKeeps ==
  ASSUME IInv, NEW c \in Calls, NEW p, NEW q \in CallPoint, At(c, p, q),
         p \notin {"yield", "held"} \/ q \in {"yield", "held"},
         q \in {"yield", "held"} => p \in {"yield", "held"},
         p # "done", q \notin {"out", "done"},
         p = "out" => q = "try" /\ IF c \in Connectors THEN link = "none" ELSE link = "up",
         c \in Connectors => q # "timer" /\ (q = "try" => p = "out"),
         p = "try" => c \notin Connectors,
         c \in Connectors /\ q \in {"woken", "check", "error"} /\ file = 1 /\ closer = "no" /\ link # "up" =>
           q # "error" /\ c \in cancelled,
         timerSet' \subseteq timerSet \cup ({c} \cap Timed),
         p = "out" => timerSet' = timerSet,
         users' \in {users, users \cup {c}},
         UNCHANGED <<result, epollVars, timerLate, firing, cancelled, file, files, ctx, ready, link, peer, closer,
                     report, aborted>>
  PROVE  IInv'
<1> USE DEF IInv
<1>1. /\ pc \in [Calls -> CallPoint] /\ pc[c] = p /\ pc' = [pc EXCEPT ![c] = q]
  BY DEF At, TypeOK
<1>2. TypeOK'
  BY <1>1 DEF TypeOK
<1>3. WaiterFits' /\ WatchedByEpoll' /\ UpWhenReady' /\ ConnectTells'
  BY DEF WaiterFits, WatchedByEpoll, UpWhenReady, ConnectTells, Waiting
<1>4. WaitsOnce'
  BY <1>1 DEF WaitsOnce
<1>5. TimersOfCalls'
  BY <1>1 DEF TimersOfCalls, HasTimer, ResultAtEnd
<1>6. ResultAtEnd'
  BY <1>1 DEF ResultAtEnd
<1>7. UpWhenUsed'
  BY <1>1 DEF UpWhenUsed
<1>8. OneAsks'
  BY <1>1 DEF OneAsks, Asked
<1>9. WokenKnowsWhy'
  BY <1>1 DEF WokenKnowsWhy
<1> QED BY <1>2, <1>3, <1>4, <1>5, <1>6, <1>7, <1>8, <1>9

\* A call is over: it waits for nothing any more.
LEMMA ReturnKeeps ==
  ASSUME IInv, NEW c \in Calls, NEW p \in CallPoint \ {"out", "yield", "held", "done"},
         NEW r \in {"ok", "early", "error", "timeout"}, Returns(c, p, r),
         ready' \subseteq ready,
         timerSet' \subseteq timerSet,
         \/ link' = link
         \/ link = "none" /\ link' = "up" /\ c \in Connectors /\ r = "ok" /\ file # 0,
         c \in Connectors /\ p = "try" /\ r # "error" => link = "none" /\ link' = "up",
         c \in Connectors /\ r = "error" => p = "try" \/ file # 1,
         c \in Connectors /\ r = "early" => closer # "no" \/ file # 1,
         UNCHANGED <<epollVars, timerLate, firing, cancelled, file, files, users, ctx, peer, closer, report, aborted>>
  PROVE  IInv'
<1> USE DEF IInv
<1>1. /\ pc \in [Calls -> CallPoint] /\ pc[c] = p /\ pc' = [pc EXCEPT ![c] = "done"]
      /\ result \in [Calls -> {"none", "ok", "early", "error", "timeout"}]
      /\ result' = [result EXCEPT ![c] = r]
  BY DEF Returns, At, TypeOK
<1>2. TypeOK'
  BY <1>1 DEF TypeOK, CallPoint
<1>3. WaiterFits' /\ WatchedByEpoll' /\ UpWhenReady'
  BY DEF WaiterFits, WatchedByEpoll, UpWhenReady, Waiting
<1>4. WaitsOnce'
  BY <1>1 DEF WaitsOnce
<1>5. TimersOfCalls'
  BY <1>1 DEF TimersOfCalls, HasTimer
<1>6. ResultAtEnd'
  BY <1>1 DEF ResultAtEnd
<1>7. UpWhenUsed'
  BY <1>1 DEF UpWhenUsed
<1>8. OneAsks'
  BY <1>1 DEF OneAsks, Asked, ResultAtEnd
<1>9. WokenKnowsWhy'
  BY <1>1 DEF WokenKnowsWhy
<1>10. ConnectTells'
  BY <1>1 DEF ConnectTells
<1> QED BY <1>2, <1>3, <1>4, <1>5, <1>6, <1>7, <1>8, <1>9, <1>10

------------------------------------------------------------------------------
(* Every action keeps the invariant                                         *)

\* A call enters do_io() on a connected socket, connect() on an unconnected.
LEMMA EnterKeeps ==
  ASSUME IInv, NEW c \in Calls, Enter(c)
  PROVE  IInv'
<1>1. "try" \in CallPoint
  BY DEF CallPoint
<1> QED BY <1>1, MoveKeeps DEF Enter

\* The system call ends the call, or says EAGAIN.
LEMMA TryKeeps ==
  ASSUME IInv, NEW c \in Calls, Try(c)
  PROVE  IInv'
<1>1. "timer" \in CallPoint /\ "try" \in CallPoint \ {"out", "yield", "held", "done"}
  BY DEF CallPoint
<1>2. CASE At(c, "try", "timer") /\ UNCHANGED <<result, ready>>
  BY <1>1, <1>2, MoveKeeps DEF Try
<1>3. CASE Returns(c, "try", "error") /\ UNCHANGED ready
  BY <1>1, <1>3, ReturnKeeps DEF Try
<1>4. CASE Returns(c, "try", "ok") /\ ready' \in {ready, ready \ {EventOf(c)}}
  BY <1>1, <1>4, ReturnKeeps DEF Try
<1> QED BY <1>2, <1>3, <1>4 DEF Try

\* connect() finds the connection it can ask for, or fails.
LEMMA ConnectKeeps ==
  ASSUME IInv, NEW c \in Calls, Connect(c)
  PROVE  IInv'
<1>1. "timer" \in CallPoint /\ "try" \in CallPoint \ {"out", "yield", "held", "done"}
  BY DEF CallPoint
<1>2. CASE file # 0 /\ link = "none" /\ link' = "up" /\ Returns(c, "try", "ok")
  BY <1>1, <1>2, ReturnKeeps DEF Connect
<1>3. CASE UNCHANGED link /\ Returns(c, "try", "error")
  BY <1>1, <1>3, ReturnKeeps DEF Connect
<1>4. CASE file # 0 /\ link = "none" /\ link' = "pending" /\ At(c, "try", "timer") /\ UNCHANGED result
  <2> USE DEF IInv
  <2>1. /\ pc \in [Calls -> CallPoint] /\ pc[c] = "try" /\ pc' = [pc EXCEPT ![c] = "timer"]
        /\ c \in Connectors /\ ready = {} /\ link = "none" /\ link' = "pending" /\ file # 0
        /\ UNCHANGED <<result, epollVars, timeVars, file, files, users, ctx, ready, peer, closer, report, aborted>>
    BY <1>4 DEF At, TypeOK, Connect, UpWhenReady
  <2>2. TypeOK'
    BY <1>1, <2>1 DEF TypeOK
  <2>3. WaiterFits' /\ WatchedByEpoll' /\ UpWhenReady' /\ ConnectTells'
    BY <2>1 DEF WaiterFits, WatchedByEpoll, UpWhenReady, ConnectTells, Waiting
  <2>4. WaitsOnce'
    BY <2>1 DEF WaitsOnce
  <2>5. TimersOfCalls' /\ ResultAtEnd'
    BY <2>1 DEF TimersOfCalls, HasTimer, ResultAtEnd
  <2>6. UpWhenUsed'
    BY <2>1 DEF UpWhenUsed
  <2>7. OneAsks'
    BY <2>1 DEF OneAsks, Asked
  <2>8. WokenKnowsWhy'
    BY <2>1 DEF WokenKnowsWhy
  <2> QED BY <2>2, <2>3, <2>4, <2>5, <2>6, <2>7, <2>8
<1> QED BY <1>2, <1>3, <1>4 DEF Connect

\* addTimer() before addEvent().
LEMMA SetTimerKeeps ==
  ASSUME IInv, NEW c \in Calls, SetTimer(c)
  PROVE  IInv'
<1>1. "add" \in CallPoint
  BY DEF CallPoint
<1> QED BY <1>1, MoveKeeps DEF SetTimer

\* addEvent(): a waiter is registered with epoll, or the call gives up.  On
\* the first file it gives up only once the file is closed.
LEMMA AddEventKeeps ==
  ASSUME IInv, NEW c \in Calls, AddEvent(c)
  PROVE  IInv'
<1> DEFINE e == EventOf(c)
           known == \E d \in Events : Waiting(d)
           fails == IF known THEN mask = {} ELSE file = 0
<1>1. /\ "error" \in CallPoint /\ "yield" \in CallPoint
      /\ "add" \in CallPoint \ {"out", "yield", "held", "done"}
  BY DEF CallPoint
<1>2. e \in Events /\ c # NoCall
  BY CallsAssumption DEF EventOf, Events
<1>3. fails => file # 1
  <2>1. WatchedByEpoll
    BY DEF IInv
  <2> QED BY <2>1 DEF WatchedByEpoll
<1>4. CASE aborted' = TRUE /\ UNCHANGED <<callVars, epollVars, timeVars, fileVars, closer, report>>
  BY <1>4 DEF IInv, TypeOK, WaiterFits, WaitsOnce, WatchedByEpoll, TimersOfCalls, HasTimer, ResultAtEnd,
     UpWhenReady, UpWhenUsed, OneAsks, Asked, WokenKnowsWhy, ConnectTells, Waiting
<1>5. CASE /\ ~Waiting(e) /\ ~fails
           /\ At(c, "add", "yield")
           /\ waiter' = [waiter EXCEPT ![e] = c]
           /\ mask' = {d \in Events : Waiting(d)} \cup {e}
           /\ UNCHANGED <<result, timerSet>>
           /\ UNCHANGED <<scheduled, timerLate, firing, cancelled, fileVars, closer, report, aborted>>
  <2> USE DEF IInv
  <2> HIDE DEF e, fails
  <2>1. /\ pc \in [Calls -> CallPoint] /\ pc[c] = "add" /\ pc' = [pc EXCEPT ![c] = "yield"]
        /\ waiter \in [Events -> Calls \cup {NoCall}]
        /\ ~Waiting(e)
    BY <1>5 DEF At, TypeOK
  <2>2. TypeOK'
    BY <1>1, <1>2, <1>5, <2>1 DEF TypeOK
  <2>3. WaiterFits'
    BY <1>2, <1>5, <2>1 DEF WaiterFits, Waiting, e
  <2>4. WatchedByEpoll'
    BY <1>2, <1>5, <2>1 DEF WatchedByEpoll, Waiting
  <2>5. WaitsOnce'
    <3>1. \A d \in Calls : waiter'[EventOf(d)] = IF EventOf(d) = e THEN c ELSE waiter[EventOf(d)]
      BY <1>5, <2>1 DEF EventOf, Events
    <3>2. \A d \in Calls : EventOf(d) = e => waiter[EventOf(d)] # d
      BY <2>1, CallsAssumption DEF Waiting
    <3> QED BY <1>2, <1>5, <2>1, <3>1, <3>2 DEF WaitsOnce, e
  <2>6. TimersOfCalls' /\ ResultAtEnd'
    BY <1>5, <2>1 DEF TimersOfCalls, HasTimer, ResultAtEnd
  <2>7. UpWhenReady' /\ UpWhenUsed' /\ ConnectTells'
    BY <1>5, <2>1 DEF UpWhenReady, UpWhenUsed, ConnectTells
  <2>8. OneAsks'
    BY <1>5, <2>1 DEF OneAsks, Asked
  <2>9. WokenKnowsWhy'
    BY <1>5, <2>1 DEF WokenKnowsWhy
  <2> QED BY <2>2, <2>3, <2>4, <2>5, <2>6, <2>7, <2>8, <2>9
<1>6. CASE /\ fails
           /\ IF c \in Connectors THEN At(c, "add", "error") /\ UNCHANGED result ELSE Returns(c, "add", "error")
           /\ timerSet' = timerSet \ {c}
           /\ UNCHANGED <<waiter, mask>>
           /\ UNCHANGED <<scheduled, timerLate, firing, cancelled, fileVars, closer, report, aborted>>
  <2>1. file # 1
    BY <1>3, <1>6
  <2> HIDE DEF fails
  <2>2. CASE c \in Connectors
    BY <1>1, <1>6, <2>1, <2>2, MoveKeeps
  <2>3. CASE c \notin Connectors
    BY <1>1, <1>6, <2>3, ReturnKeeps
  <2> QED BY <2>2, <2>3
<1>7. \/ aborted' = TRUE /\ UNCHANGED <<callVars, epollVars, timeVars, fileVars, closer, report>>
      \/ /\ ~Waiting(e) /\ ~fails
         /\ At(c, "add", "yield")
         /\ waiter' = [waiter EXCEPT ![e] = c]
         /\ mask' = {d \in Events : Waiting(d)} \cup {e}
         /\ UNCHANGED <<result, timerSet>>
         /\ UNCHANGED <<scheduled, timerLate, firing, cancelled, fileVars, closer, report, aborted>>
      \/ /\ fails
         /\ IF c \in Connectors THEN At(c, "add", "error") /\ UNCHANGED result ELSE Returns(c, "add", "error")
         /\ timerSet' = timerSet \ {c}
         /\ UNCHANGED <<waiter, mask>>
         /\ UNCHANGED <<scheduled, timerLate, firing, cancelled, fileVars, closer, report, aborted>>
  BY DEF AddEvent
<1> QED BY <1>4, <1>5, <1>6, <1>7

\* The call suspends.
LEMMA YieldKeeps ==
  ASSUME IInv, NEW c \in Calls, YieldToHold(c)
  PROVE  IInv'
<1>1. "held" \in CallPoint
  BY DEF CallPoint
<1> QED BY <1>1, MoveKeeps DEF YieldToHold

\* The fiber leaves the task list as it runs on.
LEMMA ResumeKeeps ==
  ASSUME IInv, NEW c \in Calls, Resume(c)
  PROVE  IInv'
<1> USE DEF IInv, Resume
<1>1. /\ pc \in [Calls -> CallPoint] /\ pc[c] = "held" /\ pc' = [pc EXCEPT ![c] = "woken"]
      /\ "woken" \in CallPoint
  BY DEF At, TypeOK, CallPoint
<1>2. TypeOK'
  BY <1>1 DEF TypeOK
<1>3. WaiterFits' /\ WatchedByEpoll' /\ UpWhenReady' /\ ConnectTells'
  BY DEF WaiterFits, WatchedByEpoll, UpWhenReady, ConnectTells, Waiting
<1>4. WaitsOnce'
  BY <1>1 DEF WaitsOnce
<1>5. TimersOfCalls' /\ ResultAtEnd'
  BY <1>1 DEF TimersOfCalls, HasTimer, ResultAtEnd
<1>6. UpWhenUsed' /\ OneAsks'
  BY <1>1 DEF UpWhenUsed, OneAsks, Asked
<1>7. WokenKnowsWhy'
  BY <1>1 DEF WokenKnowsWhy
<1> QED BY <1>2, <1>3, <1>4, <1>5, <1>6, <1>7

\* A woken call cancels its timer.
LEMMA CancelTimerKeeps ==
  ASSUME IInv, NEW c \in Calls, CancelTimer(c)
  PROVE  IInv'
<1>1. "check" \in CallPoint
  BY DEF CallPoint
<1>2. pc[c] = "woken"
  BY DEF CancelTimer, At
<1> QED BY <1>1, <1>2, MoveKeeps DEF CancelTimer, IInv, WokenKnowsWhy

\* A woken call looks at tinfo->cancelled before anything else.
LEMMA CheckKeeps ==
  ASSUME IInv, NEW c \in Calls, Check(c)
  PROVE  IInv'
<1>1. /\ "check" \in CallPoint \ {"out", "yield", "held", "done"}
      /\ "error" \in CallPoint /\ "try" \in CallPoint
  BY DEF CallPoint
<1>2. CASE Returns(c, "check", "timeout")
  BY <1>1, <1>2, ReturnKeeps DEF Check
<1>3. CASE c \notin cancelled /\ At(c, "check", IF c \in Connectors THEN "error" ELSE "try") /\ UNCHANGED result
  <2>1. CASE c \in Connectors
    <3>1. ~(file = 1 /\ closer = "no" /\ link # "up")
      BY <1>3, <2>1 DEF IInv, WokenKnowsWhy, At
    <3> QED BY <1>1, <1>3, <2>1, <3>1, MoveKeeps DEF Check
  <2>2. CASE c \notin Connectors
    BY <1>1, <1>3, <2>2, MoveKeeps DEF Check
  <2> QED BY <2>1, <2>2
<1> QED BY <1>2, <1>3 DEF Check

\* connect() asks for SO_ERROR when the connection is there, or the socket
\* is being closed.
LEMMA GetErrorKeeps ==
  ASSUME IInv, NEW c \in Calls, GetError(c)
  PROVE  IInv'
<1>1. "error" \in CallPoint \ {"out", "yield", "held", "done"}
  BY DEF CallPoint
<1>2. c \in Connectors /\ link # "up" => closer # "no" \/ file # 1
  BY DEF IInv, WokenKnowsWhy, GetError, Returns, At
<1>3. CASE file = 0
  BY <1>1, <1>3, ReturnKeeps DEF GetError
<1>4. CASE file # 0 /\ link = "up"
  BY <1>1, <1>4, ReturnKeeps DEF GetError
<1>5. CASE file # 0 /\ link # "up"
  BY <1>1, <1>2, <1>5, ReturnKeeps DEF GetError
<1> QED BY <1>3, <1>4, <1>5

\* What the timers do leaves calls and epoll alone until a callback cancels.
LEMMA TimerKeeps ==
  ASSUME IInv, NEW c \in Calls, TimerExpires(c) \/ TimerRuns(c)
  PROVE  IInv'
<1> USE DEF IInv, TimerExpires, TimerRuns
<1>1. /\ timerLate \in [Calls -> Nat] /\ timerLate' \in [Calls -> Nat]
      /\ \A d \in Calls : HasTimer(d)' => HasTimer(d)
      /\ timerSet' \subseteq timerSet /\ cancelled \subseteq cancelled' /\ firing' \subseteq cancelled'
      /\ UNCHANGED <<callVars, epollVars, fileVars, closer, report, aborted>>
  BY DEF TypeOK, HasTimer
<1>2. TimersOfCalls'
  BY <1>1 DEF TimersOfCalls
<1>3. TypeOK'
  BY <1>1, <1>2 DEF TypeOK, TimersOfCalls, HasTimer
<1>4. WaiterFits' /\ WaitsOnce' /\ WatchedByEpoll' /\ UpWhenReady' /\ ConnectTells' /\ ResultAtEnd'
  BY <1>1 DEF WaiterFits, WaitsOnce, WatchedByEpoll, UpWhenReady, ConnectTells, ResultAtEnd, Waiting
<1>5. UpWhenUsed' /\ OneAsks'
  BY <1>1 DEF UpWhenUsed, OneAsks, Asked
<1>6. WokenKnowsWhy'
  BY <1>1 DEF WokenKnowsWhy
<1> QED BY <1>2, <1>3, <1>4, <1>5, <1>6

\* The callback wakes the call it belongs to, or whoever waits for the same
\* event of the fd number by then.
LEMMA TimerCancelsKeeps ==
  ASSUME IInv, NEW c \in Calls, TimerCancels(c)
  PROVE  IInv'
<1> USE DEF IInv, TimerCancels
<1>1. /\ EventOf(c) \in Events /\ UNCHANGED <<callVars, file>>
      /\ CancelEvent(EventOf(c))
  BY DEF EventOf, Events
<1>2. /\ waiter' \in [Events -> Calls \cup {NoCall}]
      /\ mask' \subseteq Events
      /\ scheduled \subseteq scheduled' /\ scheduled' \subseteq Calls
      /\ \A d \in scheduled' \ scheduled : EventOf(d) = EventOf(c) /\ waiter[EventOf(c)] = d
      /\ WaiterFits' /\ WaitsOnce' /\ WatchedByEpoll'
  BY <1>1, CancelEventKeeps
<1>3. TypeOK'
  BY <1>2 DEF TypeOK
<1>4. TimersOfCalls' /\ ResultAtEnd' /\ UpWhenReady' /\ UpWhenUsed' /\ OneAsks' /\ ConnectTells'
  BY DEF TimersOfCalls, HasTimer, ResultAtEnd, UpWhenReady, UpWhenUsed, OneAsks, Asked, ConnectTells
<1>5. WokenKnowsWhy'
  <2> SUFFICES ASSUME file = 1, closer = "no", link # "up", NEW d \in Connectors, d \in scheduled' \ scheduled
               PROVE  d \in cancelled
    BY DEF WokenKnowsWhy
  <2>1. d \in Calls /\ waiter[EventOf(c)] = d /\ EventOf(d) = EventOf(c) /\ d # NoCall
    BY <1>2, CallsAssumption DEF Calls
  <2>2. pc[d] \in {"yield", "held"} /\ result[d] = "none"
    BY <2>1 DEF WaitsOnce, ResultAtEnd
  <2>3. c \in cancelled /\ pc[c] # "out"
    BY DEF TypeOK, TimersOfCalls, HasTimer
  <2>4. c \in Connectors
    BY <2>3 DEF UpWhenUsed
  <2>5. result[c] # "error"
    BY <2>3, <2>4 DEF TimersOfCalls, HasTimer
  <2>6. c = d
    <3>1. Asked(c) /\ Asked(d)
      BY <2>2, <2>3, <2>4, <2>5 DEF Asked, TimersOfCalls, HasTimer
    <3> QED BY <2>1, <3>1 DEF OneAsks
  <2> QED BY <2>3, <2>6
<1> QED BY <1>2, <1>3, <1>4, <1>5

\* The peer sends or reads, or a connection comes about.
LEMMA PeerKeeps ==
  ASSUME IInv, PeerConnects \/ \E e \in Events : PeerReady(e)
  PROVE  IInv'
<1> USE DEF IInv, PeerConnects, PeerReady
<1>1. /\ UNCHANGED <<callVars, epollVars, timeVars, file, files, users, ctx, closer, report, aborted>>
      /\ link' = "up" /\ ready' \subseteq Events /\ peer' \in 0..MaxPeer
      /\ link # "none" /\ file' # 0
  <2>1. peer \in 0..MaxPeer /\ ready \subseteq Events /\ MaxPeer \in Nat
    BY BoundsAssumption DEF TypeOK
  <2>2. CASE PeerConnects
    BY <2>1, <2>2 DEF Events, UpWhenReady
  <2>3. CASE \E e \in Events : PeerReady(e)
    BY <2>1, <2>3
  <2> QED BY <2>2, <2>3
<1>2. TypeOK'
  BY <1>1 DEF TypeOK
<1>3. WaiterFits' /\ WaitsOnce' /\ WatchedByEpoll' /\ TimersOfCalls' /\ ResultAtEnd' /\ ConnectTells'
  BY <1>1 DEF WaiterFits, WaitsOnce, WatchedByEpoll, TimersOfCalls, HasTimer, ResultAtEnd, ConnectTells, Waiting
<1>4. UpWhenReady' /\ UpWhenUsed' /\ OneAsks' /\ WokenKnowsWhy'
  BY <1>1 DEF UpWhenReady, UpWhenUsed, OneAsks, Asked, WokenKnowsWhy
<1> QED BY <1>2, <1>3, <1>4

\* idle() wakes reader and writer for what epoll has reported; only a file
\* that is connected is reported.
LEMMA ReportedKeeps ==
  ASSUME IInv, Reported
  PROVE  IInv'
<1> USE DEF IInv, Reported
<1>1. CASE /\ report = "no" /\ mask \cap ready # {} /\ report' = "read"
           /\ UNCHANGED epollVars
  <2>1. TypeOK'
    BY <1>1 DEF TypeOK
  <2>2. WaiterFits' /\ WaitsOnce' /\ WatchedByEpoll' /\ TimersOfCalls' /\ ResultAtEnd' /\ ConnectTells'
    BY <1>1 DEF WaiterFits, WaitsOnce, WatchedByEpoll, TimersOfCalls, HasTimer, ResultAtEnd, ConnectTells, Waiting
  <2>3. UpWhenReady' /\ UpWhenUsed' /\ OneAsks' /\ WokenKnowsWhy'
    BY <1>1 DEF UpWhenReady, UpWhenUsed, OneAsks, Asked, WokenKnowsWhy
  <2> QED BY <2>1, <2>2, <2>3
<1>2. ASSUME NEW e \in Events, CancelEvent(e), report # "no", report' \in {"no", "write"}
      PROVE  IInv'
  <2>1. UNCHANGED <<callVars, timeVars, fileVars, closer, aborted>>
    OBVIOUS
  <2>2. /\ waiter' \in [Events -> Calls \cup {NoCall}]
        /\ mask' \subseteq Events
        /\ scheduled' \subseteq Calls
        /\ WaiterFits' /\ WaitsOnce' /\ WatchedByEpoll'
    BY <1>2, <2>1, CancelEventKeeps
  <2>3. TypeOK'
    BY <1>2, <2>1, <2>2 DEF TypeOK
  <2>4. TimersOfCalls' /\ ResultAtEnd' /\ UpWhenReady' /\ OneAsks' /\ ConnectTells'
    BY <2>1 DEF TimersOfCalls, HasTimer, ResultAtEnd, UpWhenReady, OneAsks, Asked, ConnectTells
  <2>5. UpWhenUsed' /\ WokenKnowsWhy'
    BY <1>2, <2>1 DEF UpWhenUsed, WokenKnowsWhy
  <2> QED BY <2>2, <2>3, <2>4, <2>5
<1>3. "READ" \in Events /\ "WRITE" \in Events
  BY DEF Events
<1> QED BY <1>1, <1>2, <1>3

\* close(): from its first step to its last a woken connect() has an excuse,
\* and after the last the file is gone.
LEMMA CloseKeeps ==
  ASSUME IInv, Close
  PROVE  IInv'
<1> USE DEF IInv, Close
<1>1. "READ" \in Events /\ "WRITE" \in Events
  BY DEF Events
<1>2. UNCHANGED <<callVars, timeVars, files, users, peer, report, aborted>>
  OBVIOUS
<1>3. ASSUME NEW e \in Events, CancelEvent(e), closer' \in {"write", "del"}, UNCHANGED <<ctx, file, ready, link>>
      PROVE  IInv'
  <2>2. /\ waiter' \in [Events -> Calls \cup {NoCall}]
        /\ mask' \subseteq Events
        /\ scheduled' \subseteq Calls
        /\ WaiterFits' /\ WaitsOnce' /\ WatchedByEpoll'
    BY <1>2, <1>3, CancelEventKeeps
  <2>3. TypeOK'
    BY <1>2, <1>3, <2>2 DEF TypeOK
  <2>4. TimersOfCalls' /\ ResultAtEnd' /\ UpWhenReady' /\ UpWhenUsed' /\ OneAsks'
    BY <1>2, <1>3 DEF TimersOfCalls, HasTimer, ResultAtEnd, UpWhenReady, UpWhenUsed, OneAsks, Asked
  <2>5. WokenKnowsWhy' /\ ConnectTells'
    BY <1>2, <1>3 DEF WokenKnowsWhy, ConnectTells
  <2> QED BY <2>2, <2>3, <2>4, <2>5
<1>4. CASE closer' \in {"read", "del", "close"} /\ ctx' \in BOOLEAN /\ UNCHANGED <<epollVars, file, ready, link>>
  <2>1. TypeOK'
    BY <1>2, <1>4 DEF TypeOK
  <2>2. WaiterFits' /\ WaitsOnce' /\ WatchedByEpoll' /\ TimersOfCalls' /\ ResultAtEnd'
    BY <1>2, <1>4 DEF WaiterFits, WaitsOnce, WatchedByEpoll, TimersOfCalls, HasTimer, ResultAtEnd, Waiting
  <2>3. UpWhenReady' /\ UpWhenUsed' /\ OneAsks' /\ WokenKnowsWhy' /\ ConnectTells'
    BY <1>2, <1>4 DEF UpWhenReady, UpWhenUsed, OneAsks, Asked, WokenKnowsWhy, ConnectTells
  <2> QED BY <2>1, <2>2, <2>3
<1>5. CASE /\ closer' = "no" /\ file' = 0 /\ mask' = {} /\ ready' = {} /\ link' = "none"
           /\ UNCHANGED <<waiter, scheduled, ctx>>
  <2>1. TypeOK'
    BY <1>2, <1>5, BoundsAssumption DEF TypeOK
  <2>2. WaiterFits' /\ WaitsOnce' /\ TimersOfCalls' /\ ResultAtEnd'
    BY <1>2, <1>5 DEF WaiterFits, WaitsOnce, TimersOfCalls, HasTimer, ResultAtEnd, Waiting
  <2>3. WatchedByEpoll' /\ UpWhenReady' /\ UpWhenUsed' /\ OneAsks' /\ WokenKnowsWhy' /\ ConnectTells'
    BY <1>5 DEF WatchedByEpoll, UpWhenReady, UpWhenUsed, OneAsks, WokenKnowsWhy, ConnectTells
  <2> QED BY <2>1, <2>2, <2>3
<1>6. ctx \in BOOLEAN
  BY DEF TypeOK
<1> QED BY <1>1, <1>3, <1>4, <1>5, <1>6

\* The fd number's next file is not its first.
LEMMA ReopenKeeps ==
  ASSUME IInv, Reopen
  PROVE  IInv'
<1> USE DEF IInv, Reopen
<1>1. file' \in 0..MaxFiles /\ files' \in 1..MaxFiles /\ file' # 1 /\ file' # 0 /\ file # 1
  BY BoundsAssumption DEF TypeOK
<1>2. ready = {}
  BY DEF UpWhenReady
<1>3. TypeOK'
  BY <1>1 DEF TypeOK
<1>4. WaiterFits' /\ WaitsOnce' /\ TimersOfCalls' /\ ResultAtEnd'
  BY <1>1 DEF WaiterFits, WaitsOnce, TimersOfCalls, HasTimer, ResultAtEnd, Waiting
<1>5. WatchedByEpoll' /\ UpWhenReady' /\ UpWhenUsed' /\ OneAsks' /\ WokenKnowsWhy' /\ ConnectTells'
  BY <1>1, <1>2 DEF WatchedByEpoll, UpWhenReady, UpWhenUsed, OneAsks, WokenKnowsWhy, ConnectTells
<1> QED BY <1>3, <1>4, <1>5

\* Every step keeps the invariant.
LEMMA StepKeeps ==
  ASSUME IInv, [Next]_vars
  PROVE  IInv'
<1>1. CASE UNCHANGED vars
  BY <1>1 DEF vars, IInv, TypeOK, WaiterFits, WaitsOnce, WatchedByEpoll, TimersOfCalls, HasTimer, ResultAtEnd,
     UpWhenReady, UpWhenUsed, OneAsks, Asked, WokenKnowsWhy, ConnectTells, Waiting
<1>2. ASSUME NEW c \in Calls, Enter(c) \/ Resume(c) \/ DoIO(c) \/ Timer(c)
      PROVE  IInv'
  <2>1. CASE Enter(c) \/ Resume(c)
    BY <2>1, EnterKeeps, ResumeKeeps
  <2>2. CASE DoIO(c)
    BY <2>2, TryKeeps, ConnectKeeps, GetErrorKeeps, SetTimerKeeps, AddEventKeeps, YieldKeeps, CancelTimerKeeps,
       CheckKeeps DEF DoIO
  <2>3. CASE Timer(c)
    BY <2>3, TimerKeeps, TimerCancelsKeeps DEF Timer
  <2> QED BY <1>2, <2>1, <2>2, <2>3
<1> QED BY <1>1, <1>2, PeerKeeps, ReportedKeeps, CloseKeeps, ReopenKeeps DEF Next, Quiet

\* No call has been made at first.
LEMMA InitHolds ==
  ASSUME Init
  PROVE  IInv
<1> USE DEF Init
<1>1. TypeOK
  <2>1. files = 1 /\ file = 1 /\ 1 \in 1..MaxFiles /\ 1 \in 0..MaxFiles /\ peer \in 0..MaxPeer
    BY BoundsAssumption
  <2>2. /\ pc \in [Calls -> CallPoint]
        /\ result \in [Calls -> {"none", "ok", "early", "error", "timeout"}]
        /\ waiter \in [Events -> Calls \cup {NoCall}]
        /\ timerLate \in [Calls -> Nat]
    BY DEF CallPoint
  <2> QED BY <2>1, <2>2 DEF TypeOK
<1>2. WaiterFits /\ WaitsOnce /\ WatchedByEpoll
  BY CallsAssumption DEF WaiterFits, WaitsOnce, WatchedByEpoll, Waiting, EventOf, Events
<1>3. TimersOfCalls /\ ResultAtEnd /\ OneAsks
  BY DEF TimersOfCalls, HasTimer, ResultAtEnd, OneAsks, Asked
<1>4. UpWhenReady /\ UpWhenUsed /\ WokenKnowsWhy /\ ConnectTells
  BY CallsAssumption DEF UpWhenReady, UpWhenUsed, WokenKnowsWhy, ConnectTells, Calls
<1> QED BY <1>1, <1>2, <1>3, <1>4 DEF IInv

------------------------------------------------------------------------------
(* The assertion of addEvent()                                              *)

\* A socket has one reader and one writer at a time: a call that is made on
\* it finds those before it, in the same direction, over.
OnePerDirection ==
  \A c, d \in users : EventOf(c) = EventOf(d) => c = d \/ pc[c] = "done" \/ pc[d] = "done"

\* What is under way on the first file was called on it.
FirstFileOwns == file = 1 => \A c \in Calls : pc[c] # "out" => c \in users

\* A call that is still inside do_io() when its file is gone and the fd number
\* is closed or stands for the next one.
LeftBehind == \E c \in Calls \ users : pc[c] \notin {"out", "done"}

\* A connect() without a timeout that cannot register, its file being closed
\* or another one: hook.cc:212 follows the timer it does not have.
NoTimerToCancel == file # 1 /\ \E c \in Connectors \ Timed : pc[c] = "add"

AbortTells == aborted => LeftBehind \/ NoTimerToCancel

\* The invariant of the assertion.
AInv == OnePerDirection /\ FirstFileOwns /\ AbortTells

\* do_io() never starts a call again, nor goes back to before it; who was
\* called on the file changes only where a call is made and with a new file.
LEMMA CallsGoOn ==
  ASSUME IInv, Next
  PROVE  /\ \A c \in Calls : pc[c] = "done" => pc'[c] = "done"
         /\ \/ UNCHANGED <<users, file>> /\ \A c \in Calls : pc[c] = "out" => pc'[c] = "out"
            \/ users' = users /\ file' = 0 /\ UNCHANGED pc
            \/ users' = {} /\ file' # 1 /\ UNCHANGED pc
            \/ \E c \in Calls : Enter(c)
<1> DEFINE Goal == /\ \A c \in Calls : pc[c] = "done" => pc'[c] = "done"
                   /\ \/ UNCHANGED <<users, file>> /\ \A c \in Calls : pc[c] = "out" => pc'[c] = "out"
                      \/ users' = users /\ file' = 0 /\ UNCHANGED pc
                      \/ users' = {} /\ file' # 1 /\ UNCHANGED pc
                      \/ \E c \in Calls : Enter(c)
<1>1. pc \in [Calls -> CallPoint] /\ file \in 0..MaxFiles /\ files \in 1..MaxFiles /\ MaxFiles \in Nat
  BY BoundsAssumption DEF IInv, TypeOK
<1>2. ASSUME NEW c \in Calls, NEW p \in CallPoint \ {"out", "done"}, NEW q \in CallPoint \ {"out"}, At(c, p, q),
             UNCHANGED <<users, file>>
      PROVE  Goal
  BY <1>1, <1>2 DEF At
<1>3. ASSUME UNCHANGED <<users, file, pc>>
      PROVE  Goal
  BY <1>3
<1>4. {"try", "timer", "add", "yield", "held", "woken", "check", "error"} \subseteq CallPoint \ {"out", "done"}
      /\ "done" \in CallPoint \ {"out"}
  BY DEF CallPoint
<1>5. ASSUME NEW c \in Calls, Enter(c)
      PROVE  Goal
  BY <1>1, <1>5 DEF Enter, At
<1>6. ASSUME NEW c \in Calls, Resume(c) \/ DoIO(c)
      PROVE  Goal
  <2> HIDE DEF Goal
  <2>1. CASE Resume(c)
    BY <1>2, <1>4, <2>1 DEF Resume
  <2>2. CASE Try(c)
    BY <1>2, <1>4, <2>2 DEF Try, Returns
  <2>3. CASE Connect(c)
    BY <1>2, <1>4, <2>3 DEF Connect, Returns
  <2>4. CASE GetError(c)
    BY <1>2, <1>4, <2>4 DEF GetError, Returns
  <2>5. CASE SetTimer(c)
    BY <1>2, <1>4, <2>5 DEF SetTimer
  <2>6. CASE AddEvent(c)
    BY <1>2, <1>3, <1>4, <2>6 DEF AddEvent, Returns
  <2>7. CASE YieldToHold(c)
    BY <1>2, <1>4, <2>7 DEF YieldToHold
  <2>8. CASE CancelTimer(c)
    BY <1>2, <1>4, <2>8 DEF CancelTimer
  <2>9. CASE Check(c)
    BY <1>2, <1>4, <2>9 DEF Check, Returns
  <2> QED BY <1>6, <2>1, <2>2, <2>3, <2>4, <2>5, <2>6, <2>7, <2>8, <2>9 DEF DoIO
<1>7. ASSUME NEW c \in Calls, Timer(c)
      PROVE  Goal
  BY <1>7 DEF Timer, TimerExpires, TimerRuns, TimerCancels
<1>8. CASE Quiet \/ Reported \/ PeerConnects \/ \E e \in Events : PeerReady(e)
  BY <1>8 DEF Quiet, vars, Reported, PeerConnects, PeerReady
<1>9. CASE Close
  BY <1>9 DEF Close
<1>10. CASE Reopen
  BY <1>1, <1>10 DEF Reopen
<1> QED BY <1>5, <1>6, <1>7, <1>8, <1>9, <1>10 DEF Next

\* Only addEvent() aborts: on a waiter of the same event, or for want of a
\* timer; nothing else happens in that step.
LEMMA AbortsInAddEvent ==
  ASSUME Next, ~aborted, aborted'
  PROVE  \E c \in Calls : /\ AddEvent(c)
                         /\ pc[c] = "add"
                         /\ UNCHANGED <<callVars, epollVars, fileVars>>
                         /\ \/ Waiting(EventOf(c))
                            \/ c \in Connectors \ Timed /\ IF \E e \in Events : Waiting(e) THEN mask = {} ELSE file = 0
<1>1. PICK c \in Calls : AddEvent(c)
  BY DEF Next, Quiet, vars, Reported, Close, Reopen, PeerConnects, PeerReady, Enter, Resume, DoIO, Timer, Try,
     Connect, GetError, SetTimer, YieldToHold, CancelTimer, Check, TimerExpires, TimerRuns, TimerCancels
<1> QED BY <1>1 DEF AddEvent

\* The step that aborts has a call left behind in it, or a timer missing.
LEMMA AbortHasCause ==
  ASSUME IInv, OnePerDirection, Next, ~aborted, aborted'
  PROVE  (LeftBehind \/ NoTimerToCancel)'
<1>1. PICK c \in Calls : /\ pc[c] = "add"
                         /\ UNCHANGED <<callVars, epollVars, fileVars>>
                         /\ \/ Waiting(EventOf(c))
                            \/ c \in Connectors \ Timed /\ IF \E e \in Events : Waiting(e) THEN mask = {} ELSE file = 0
  BY AbortsInAddEvent
<1>2. EventOf(c) \in Events
  BY DEF EventOf, Events
<1>3. CASE Waiting(EventOf(c))
  <2> DEFINE d == waiter[EventOf(c)]
  <2>1. d \in Calls /\ EventOf(d) = EventOf(c)
    BY <1>2, <1>3 DEF IInv, TypeOK, WaiterFits, Waiting
  <2>2. pc[d] \in {"yield", "held"}
    BY <2>1 DEF IInv, WaitsOnce
  <2>3. c \notin users \/ d \notin users
    BY <1>1, <2>1, <2>2 DEF OnePerDirection
  <2> QED BY <1>1, <2>1, <2>2, <2>3 DEF LeftBehind
<1>4. CASE ~Waiting(EventOf(c))
  <2>1. c \in Connectors \ Timed /\ IF \E e \in Events : Waiting(e) THEN mask = {} ELSE file = 0
    BY <1>1, <1>4
  <2>2. file # 1
    BY <2>1 DEF IInv, WatchedByEpoll
  <2> QED BY <1>1, <2>1, <2>2 DEF NoTimerToCancel
<1> QED BY <1>3, <1>4

\* Nothing happens after an abort.
LEMMA AbortIsLast ==
  ASSUME Next, aborted
  PROVE  UNCHANGED vars
BY DEF Next, Quiet

\* Every step keeps the invariant of the assertion.
LEMMA StepKeepsAInv ==
  ASSUME IInv, AInv, [Next]_vars
  PROVE  AInv'
<1> USE DEF AInv
<1>1. CASE UNCHANGED vars
  BY <1>1 DEF vars, OnePerDirection, FirstFileOwns, AbortTells, LeftBehind, NoTimerToCancel
<1>2. CASE Next /\ ~aborted
  <2>1. pc \in [Calls -> CallPoint] /\ users \subseteq Calls
    BY DEF IInv, TypeOK
  <2>2. \A c \in Calls : pc[c] = "done" => pc'[c] = "done"
    BY <1>2, CallsGoOn
  <2>3. CASE \E c \in Calls : Enter(c)
    <3>1. PICK c \in Calls : Enter(c)
      BY <2>3
    <3>2. /\ \A d \in users : EventOf(d) = EventOf(c) => pc[d] = "done"
          /\ users' = users \cup {c} /\ pc' = [pc EXCEPT ![c] = "try"] /\ file' = file
      BY <3>1 DEF Enter, At
    <3>3. OnePerDirection'
      BY <2>1, <2>2, <3>2 DEF OnePerDirection, EventOf
    <3>4. FirstFileOwns'
      BY <2>1, <3>2 DEF FirstFileOwns
    <3> QED BY <1>2, <3>3, <3>4, AbortHasCause DEF AbortTells
  <2>4. CASE ~\E c \in Calls : Enter(c)
    <3>1. \/ UNCHANGED <<users, file>> /\ \A c \in Calls : pc[c] = "out" => pc'[c] = "out"
          \/ users' = users /\ file' = 0 /\ UNCHANGED pc
          \/ users' = {} /\ file' # 1 /\ UNCHANGED pc
      BY <1>2, <2>4, CallsGoOn
    <3>2. OnePerDirection'
      BY <2>1, <2>2, <3>1 DEF OnePerDirection, EventOf
    <3>3. FirstFileOwns'
      BY <3>1 DEF FirstFileOwns
    <3> QED BY <1>2, <3>2, <3>3, AbortHasCause DEF AbortTells
  <2> QED BY <2>3, <2>4
<1> QED BY <1>1, <1>2, AbortIsLast

------------------------------------------------------------------------------
(* Theorems                                                                 *)

\* The invariant holds however calls, timers, epoll and close() interleave.
THEOREM Invariance == Spec => []IInv
<1>1. Init => IInv
  BY InitHolds
<1>2. IInv /\ [Next]_vars => IInv'
  BY StepKeeps
<1> QED BY <1>1, <1>2, PTL DEF Spec

\* The state of the calls, of epoll and of the timers is well-typed: only
\* calls with a timeout ever have a timer.
THEOREM TypeCorrect == Spec => []TypeOK
<1>1. IInv => TypeOK
  BY DEF IInv
<1> QED BY <1>1, Invariance, PTL

\* A suspended call is registered for its event or scheduled, never both and
\* never neither, whoever triggers the event: epoll, a timer or close().
THEOREM WaitsExactlyOnce == Spec => []WaitsOnce
<1>1. IInv => WaitsOnce
  BY DEF IInv
<1> QED BY <1>1, Invariance, PTL

\* For the first file of the fd number, epoll_ctl is told what FdContext says.
THEOREM EpollWatches == Spec => []WatchedByEpoll
<1>1. IInv => WatchedByEpoll
  BY DEF IInv
<1> QED BY <1>1, Invariance, PTL

\* connect() does not return 0 for a connection that is not there while the
\* socket it was called on is open.
THEOREM ConnectTellsTruth == Spec => []ConnectTells
<1>1. IInv => ConnectTells
  BY DEF IInv
<1> QED BY <1>1, Invariance, PTL

\* The invariant of the assertion holds.
THEOREM AInvariance == Spec => []AInv
<1>1. Init => AInv
  BY DEF Init, AInv, OnePerDirection, FirstFileOwns, AbortTells
<1>2. IInv /\ AInv /\ [Next]_vars => AInv'
  BY StepKeepsAInv
<1> QED BY <1>1, <1>2, Invariance, PTL DEF Spec

\* iomanager.cc:97 holds until the fd number is closed: on the file it was
\* opened for no call finds another registered, however timers, epoll and the
\* beginning of close() interleave.
THEOREM SoleWaiterOnFirstFile == Spec => [](file = 1 => NoSecondWaiter)
<1>1. AInv => (file = 1 => NoSecondWaiter)
  BY DEF AInv, AbortTells, FirstFileOwns, LeftBehind, NoTimerToCancel, NoSecondWaiter
<1> QED BY <1>1, AInvariance, PTL

\* After that it fails only for a call that outlived its file, because
\* cancelAll() did not reach it or it registered behind cancelAll(), or the
\* process dies in a connect() that has no timer to cancel.
THEOREM OnlyLeftBehindAborts == Spec => [](~NoSecondWaiter => LeftBehind \/ NoTimerToCancel)
<1>1. AInv => (~NoSecondWaiter => LeftBehind \/ NoTimerToCancel)
  BY DEF AInv, AbortTells, NoSecondWaiter
<1> QED BY <1>1, AInvariance, PTL
==============================================================================
