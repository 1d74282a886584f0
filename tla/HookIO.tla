------------------------------- MODULE HookIO -------------------------------
(***************************************************************************)
(* Blocking calls on one socket made by coroutines: do_io(), connect() and *)
(* close() of src/tw/hook.cc with addEvent(), cancelEvent(), cancelAll() and the event *)
(* half of idle() of src/tw/iomanager.cc, for one fd number and the files  *)
(* that are behind it one after the other.                                 *)
(*                                                                         *)
(* A call is one do_io() of a coroutine of its own.  A section under a     *)
(* lock, a system call or a visit to the timers is one action.  Only so    *)
(* many coroutines execute at a time as there are workers; with one worker *)
(* they do not interleave except where one suspends.  That a resumed fiber *)
(* runs once and on one worker is what Scheduler shows; here it is the set *)
(* scheduled.  All calls read (or accept), write (or send), or connect.    *)
(* The peer of a connect() answers or keeps silent; one that refuses is an *)
(* fd that hangs up in IOManager.                                          *)
(***************************************************************************)
EXTENDS Integers, FiniteSets

CONSTANTS Readers,   \* calls that wait for READ
          Writers,   \* calls that wait for WRITE
          Connectors, \* those of them that are connect()
          Timed,     \* calls on a socket with a timeout for their direction
          Workers,   \* how many worker threads there are
          MaxFiles,  \* bound: files that are behind the fd number in turn
          MaxPeer,   \* bound: times the peer makes the socket ready
          MayClose,  \* somebody may close the socket while calls wait
          NoCall     \* no waiter

Calls == Readers \cup Writers
Events == {"READ", "WRITE"}
EventOf(c) == IF c \in Readers THEN "READ" ELSE "WRITE"

ASSUME CallsAssumption == Readers \cap Writers = {} /\ Connectors \subseteq Writers /\ Timed \subseteq Calls /\ NoCall \notin Calls
ASSUME BoundsAssumption == Workers \in Nat \ {0} /\ MaxFiles \in Nat \ {0} /\ MaxPeer \in Nat
ASSUME MayCloseAssumption == MayClose \in BOOLEAN

VARIABLES pc,         \* where each call is in do_io()
          result,     \* how each call ended
          scheduled,  \* suspended calls whose fiber is in the task list
          waiter,     \* fd_ctx->events, and the fiber that waits for each
          mask,       \* events the kernel watches for the file, by epoll_ctl
          timerSet,   \* calls whose timer is in m_timers
          timerLate,  \* timer callbacks collected and not run, per call
          firing,     \* calls whose timer callback is at its cancelEvent()
          cancelled,  \* calls whose tinfo->cancelled is set
          file,       \* the file behind the fd number, 0 after close
          files,      \* files there have been
          users,      \* calls that were made on this file
          ctx,        \* FdMgr has a FdCtx for the fd number
          ready,      \* events the file is ready for
          link,       \* the file is not connected, about to be, or is
          peer,       \* how often the peer may still make it ready
          closer,     \* where the thread that closes the socket is in close()
          report,     \* where idle() is with a reported event
          aborted     \* an assertion has failed

callVars  == <<pc, result>>
epollVars == <<waiter, mask, scheduled>>
timeVars  == <<timerSet, timerLate, firing, cancelled>>
fileVars  == <<file, files, users, ctx, ready, link, peer>>
vars == <<pc, result, scheduled, waiter, mask, timerSet, timerLate, firing, cancelled,
          file, files, users, ctx, ready, link, peer, closer, report, aborted>>

\* The points of do_io(); "out" is before the call and "held" is suspended.
CallPoint == {"out", "try", "timer", "add", "yield", "held", "woken", "check", "error", "done"}

TypeOK ==
  /\ pc \in [Calls -> CallPoint]
  /\ result \in [Calls -> {"none", "ok", "early", "error", "timeout"}]
  /\ scheduled \subseteq Calls /\ timerSet \subseteq Timed
  /\ waiter \in [Events -> Calls \cup {NoCall}]
  /\ mask \subseteq Events
  /\ timerLate \in [Calls -> Nat]
  /\ firing \subseteq cancelled /\ cancelled \subseteq Timed
  /\ file \in 0..MaxFiles /\ files \in 1..MaxFiles /\ users \subseteq Calls
  /\ ready \subseteq Events /\ link \in {"none", "pending", "up"} /\ peer \in 0..MaxPeer
  /\ ctx \in BOOLEAN /\ aborted \in BOOLEAN
  /\ closer \in {"no", "read", "write", "del", "close"}
  /\ report \in {"no", "read", "write"}

Init ==
  /\ pc = [c \in Calls |-> "out"]
  /\ result = [c \in Calls |-> "none"]
  /\ scheduled = {} /\ timerSet = {} /\ firing = {} /\ cancelled = {}
  /\ waiter = [e \in Events |-> NoCall]
  /\ mask = {} /\ ready = {}
  /\ timerLate = [c \in Calls |-> 0]
  /\ file = 1 /\ files = 1 /\ users = {} /\ ctx = TRUE
  /\ link = IF Connectors = {} THEN "up" ELSE "none"
  /\ peer = MaxPeer
  /\ closer = "no" /\ report = "no" /\ aborted = FALSE

------------------------------------------------------------------------------
(* Workers and events                                                       *)

Executing == {c \in Calls : pc[c] \notin {"out", "held", "done"}}

\* A worker is free to take something from the list or to sit in idle().
WorkerFree ==
  Cardinality(Executing) + Cardinality(firing)
    + (IF closer = "no" THEN 0 ELSE 1) + (IF report = "no" THEN 0 ELSE 1) < Workers

At(c, p, q) == pc[c] = p /\ pc' = [pc EXCEPT ![c] = q]

Returns(c, p, r) == At(c, p, "done") /\ result' = [result EXCEPT ![c] = r]

Waiting(e) == waiter[e] # NoCall

\* Mutant of CancelEvent: triggerEvent() does not schedule the waiter.
CancelEventSilent(e) ==
  IF Waiting(e) /\ mask # {}
  THEN /\ mask' = mask \ {e}
       /\ waiter' = [waiter EXCEPT ![e] = NoCall]
       /\ UNCHANGED scheduled
  ELSE UNCHANGED epollVars

\* cancelEvent(): nothing to cancel, or epoll_ctl does not know the file (the
\* fd was closed meanwhile): false.  Otherwise the waiter is scheduled.
CancelEvent(e) ==
  IF Waiting(e) /\ mask # {}
  THEN /\ mask' = mask \ {e}
       /\ waiter' = [waiter EXCEPT ![e] = NoCall]
       /\ scheduled' = scheduled \cup {waiter[e]}
  ELSE UNCHANGED epollVars

------------------------------------------------------------------------------
(* do_io()                                                                  *)

\* The checks at the top: the call is on an open socket FdMgr knows; it is
\* Socket that asks for a connection.  A socket has one coroutine that reads
\* it and one that writes it, as in TcpServer and HttpServer.
Enter(c) ==
  /\ WorkerFree
  /\ file # 0 /\ ctx
  /\ \A d \in users : EventOf(d) = EventOf(c) => pc[d] = "done"
  /\ IF c \in Connectors THEN link = "none" ELSE link = "up"
  /\ At(c, "out", "try")
  /\ users' = users \cup {c}
  /\ UNCHANGED <<result, epollVars, timeVars, file, files, ctx, ready, link, peer, closer, report, aborted>>

\* The system call: it fails on a closed fd, succeeds when the file is ready
\* (and may leave it so), and otherwise says EAGAIN.
Try(c) ==
  /\ c \notin Connectors
  /\ \/ file = 0 /\ Returns(c, "try", "error") /\ UNCHANGED ready
     \/ /\ file # 0 /\ EventOf(c) \in ready
        /\ Returns(c, "try", "ok")
        /\ ready' \in {ready, ready \ {EventOf(c)}}
     \/ /\ file # 0 /\ EventOf(c) \notin ready
        /\ At(c, "try", "timer")
        /\ UNCHANGED <<result, ready>>
  /\ UNCHANGED <<epollVars, timeVars, file, files, users, ctx, link, peer, closer, report, aborted>>

\* connect_f(): at once, in progress, or not at all.
Connect(c) ==
  /\ c \in Connectors
  /\ \/ file # 0 /\ link = "none" /\ link' = "up" /\ Returns(c, "try", "ok")
     \/ file # 0 /\ link = "none" /\ link' = "pending" /\ At(c, "try", "timer") /\ UNCHANGED result
     \/ (file = 0 \/ link # "none") /\ UNCHANGED link /\ Returns(c, "try", "error")
  /\ UNCHANGED <<epollVars, timeVars, file, files, users, ctx, ready, peer, closer, report, aborted>>

SetTimer(c) ==
  /\ At(c, "timer", "add")
  /\ timerSet' = timerSet \cup ({c} \cap Timed)
  /\ UNCHANGED <<result, epollVars, timerLate, firing, cancelled, fileVars, closer, report, aborted>>

\* Mutant of AddEvent: the other event is not passed to epoll_ctl again.
AddEventOnly(c) ==
  /\ At(c, "add", "yield")
  /\ waiter' = [waiter EXCEPT ![EventOf(c)] = c]
  /\ mask' = {EventOf(c)}
  /\ UNCHANGED <<result, scheduled, timeVars, fileVars, closer, report, aborted>>

\* addEvent(): one fiber waits for an event at a time, says an assertion.
\* EPOLL_CTL_MOD fails when the kernel has forgotten the file, _ADD when it
\* is closed; the call then returns, its timer cancelled.  connect() goes on
\* as if it had been woken, and takes it for granted that there is a timer.
AddEvent(c) ==
  LET e == EventOf(c)
      known == \E d \in Events : Waiting(d)
      fails == IF known THEN mask = {} ELSE file = 0
  IN IF Waiting(e) \/ (fails /\ c \in Connectors \ Timed)
     THEN /\ pc[c] = "add"
          /\ aborted' = TRUE
          /\ UNCHANGED <<callVars, epollVars, timeVars, fileVars, closer, report>>
     ELSE /\ \/ /\ ~fails
                /\ At(c, "add", "yield")
                /\ waiter' = [waiter EXCEPT ![e] = c]
                /\ mask' = {d \in Events : Waiting(d)} \cup {e}
                /\ UNCHANGED <<result, timerSet>>
             \/ /\ fails
                /\ IF c \in Connectors THEN At(c, "add", "error") /\ UNCHANGED result ELSE Returns(c, "add", "error")
                /\ timerSet' = timerSet \ {c}
                /\ UNCHANGED <<waiter, mask>>
          /\ UNCHANGED <<scheduled, timerLate, firing, cancelled, fileVars, closer, report, aborted>>

YieldToHold(c) ==
  /\ At(c, "yield", "held")
  /\ UNCHANGED <<result, epollVars, timeVars, fileVars, closer, report, aborted>>

\* run() takes the fiber out of the list and swaps it in.
Resume(c) ==
  /\ WorkerFree
  /\ c \in scheduled
  /\ At(c, "held", "woken")
  /\ scheduled' = scheduled \ {c}
  /\ UNCHANGED <<result, waiter, mask, timeVars, fileVars, closer, report, aborted>>

CancelTimer(c) ==
  /\ At(c, "woken", "check")
  /\ timerSet' = timerSet \ {c}
  /\ UNCHANGED <<result, epollVars, timerLate, firing, cancelled, fileVars, closer, report, aborted>>

\* Mutant of Check: connect() does not ask whether its timer has expired.
CheckConnectsOn(c) ==
  /\ \/ c \in cancelled \ Connectors /\ Returns(c, "check", "timeout")
     \/ c \notin cancelled \ Connectors /\ At(c, "check", IF c \in Connectors THEN "error" ELSE "try") /\ UNCHANGED result
  /\ UNCHANGED <<epollVars, timeVars, fileVars, closer, report, aborted>>

\* Timed out, or try again; connect() asks for SO_ERROR instead.
Check(c) ==
  /\ \/ c \in cancelled /\ Returns(c, "check", "timeout")
     \/ c \notin cancelled /\ At(c, "check", IF c \in Connectors THEN "error" ELSE "try") /\ UNCHANGED result
  /\ UNCHANGED <<epollVars, timeVars, fileVars, closer, report, aborted>>

\* SO_ERROR of an open socket is 0 also while it is still connecting, and
\* connect() returns 0 too early then.
GetError(c) ==
  /\ Returns(c, "error", IF file = 0 THEN "error" ELSE IF link = "up" THEN "ok" ELSE "early")
  /\ UNCHANGED <<epollVars, timeVars, fileVars, closer, report, aborted>>

DoIO(c) == Try(c) \/ Connect(c) \/ GetError(c) \/ SetTimer(c) \/ AddEvent(c) \/ YieldToHold(c) \/ CancelTimer(c) \/ Check(c)

------------------------------------------------------------------------------
(* The condition timer of a call                                            *)

\* listExpiredCb() takes the timer out of m_timers: cancel() has no effect on
\* it any more.
TimerExpires(c) ==
  /\ c \in timerSet
  /\ timerSet' = timerSet \ {c}
  /\ timerLate' = [timerLate EXCEPT ![c] = @ + 1]
  /\ UNCHANGED <<callVars, epollVars, firing, cancelled, fileVars, closer, report, aborted>>

\* The callback does nothing when the call is over or was cancelled before.
TimerRuns(c) ==
  /\ WorkerFree
  /\ timerLate[c] > 0
  /\ timerLate' = [timerLate EXCEPT ![c] = @ - 1]
  /\ IF pc[c] = "done" \/ c \in cancelled
     THEN UNCHANGED <<firing, cancelled>>
     ELSE firing' = firing \cup {c} /\ cancelled' = cancelled \cup {c}
  /\ UNCHANGED <<callVars, epollVars, timerSet, fileVars, closer, report, aborted>>

TimerCancels(c) ==
  /\ c \in firing
  /\ firing' = firing \ {c}
  /\ CancelEvent(EventOf(c))
  /\ UNCHANGED <<callVars, timerSet, timerLate, cancelled, fileVars, closer, report, aborted>>

Timer(c) == TimerExpires(c) \/ TimerRuns(c) \/ TimerCancels(c)

------------------------------------------------------------------------------
(* epoll: an event that is reported wakes the reader and the writer         *)

PeerReady(e) ==
  /\ file # 0 /\ link = "up" /\ peer > 0
  /\ e \notin ready
  /\ ready' = ready \cup {e}
  /\ peer' = peer - 1
  /\ UNCHANGED <<callVars, epollVars, timeVars, file, files, users, ctx, link, closer, report, aborted>>

\* The connection a call asked for is there.
PeerConnects ==
  /\ link = "pending"
  /\ link' = "up" /\ ready' = ready \cup {"WRITE"}
  /\ UNCHANGED <<callVars, epollVars, timeVars, file, files, users, ctx, peer, closer, report, aborted>>

Reported ==
  /\ \/ /\ report = "no"
        /\ WorkerFree
        /\ mask \cap ready # {}
        /\ report' = "read"
        /\ UNCHANGED epollVars
     \/ report = "read" /\ report' = "write" /\ CancelEvent("READ")
     \/ report = "write" /\ report' = "no" /\ CancelEvent("WRITE")
  /\ UNCHANGED <<callVars, timeVars, fileVars, closer, aborted>>

------------------------------------------------------------------------------
(* close(), and the fd number's next file                                   *)

\* Mutant of Close: cancelAll() is not called.
CloseNoCancel ==
  /\ \/ /\ closer = "no" /\ MayClose /\ WorkerFree /\ file # 0
        /\ closer' = "del"
        /\ UNCHANGED <<epollVars, ctx, file, ready, link>>
     \/ /\ closer = "del" /\ closer' = "close"
        /\ ctx' = FALSE
        /\ UNCHANGED <<epollVars, file, ready, link>>
     \/ /\ closer = "close" /\ closer' = "no"
        /\ file' = 0 /\ mask' = {} /\ ready' = {} /\ link' = "none"
        /\ UNCHANGED <<waiter, scheduled, ctx>>
  /\ UNCHANGED <<callVars, timeVars, files, users, peer, report, aborted>>

\* cancelAll() does not go on to WRITE when there is no reader to cancel.
\* The kernel forgets the file it closes.
Close ==
  /\ \/ /\ closer = "no" /\ MayClose /\ WorkerFree /\ file # 0
        /\ closer' = IF ctx THEN "read" ELSE "close"
        /\ UNCHANGED <<epollVars, ctx, file, ready, link>>
     \/ /\ closer = "read"
        /\ closer' = IF Waiting("READ") /\ mask # {} THEN "write" ELSE "del"
        /\ CancelEvent("READ")
        /\ UNCHANGED <<ctx, file, ready, link>>
     \/ /\ closer = "write" /\ closer' = "del"
        /\ CancelEvent("WRITE")
        /\ UNCHANGED <<ctx, file, ready, link>>
     \/ /\ closer = "del" /\ closer' = "close"
        /\ ctx' = FALSE
        /\ UNCHANGED <<epollVars, file, ready, link>>
     \/ /\ closer = "close" /\ closer' = "no"
        /\ file' = 0 /\ mask' = {} /\ ready' = {} /\ link' = "none"
        /\ UNCHANGED <<waiter, scheduled, ctx>>
  /\ UNCHANGED <<callVars, timeVars, files, users, peer, report, aborted>>

\* socket() or accept() gets the fd number again.
Reopen ==
  /\ file = 0 /\ files < MaxFiles
  /\ file' = files + 1 /\ files' = files + 1 /\ users' = {}
  /\ link' \in {"up"} \cup (IF Connectors = {} THEN {} ELSE {"none"})
  /\ ctx' = TRUE
  /\ UNCHANGED <<callVars, epollVars, timeVars, ready, peer, closer, report, aborted>>

------------------------------------------------------------------------------
\* Nothing is under way: no call is inside do_io() or all of them wait; or the
\* process is gone.
Quiet == /\ \/ aborted
            \/ /\ \A c \in Calls : pc[c] \in {"out", "done", "held"}
               /\ scheduled = {} /\ timerSet = {} /\ firing = {} /\ closer = "no" /\ report = "no"
         /\ UNCHANGED vars

Next ==
  \/ Quiet
  \/ /\ ~aborted
     /\ \/ Reported \/ Close \/ Reopen \/ PeerConnects
        \/ \E e \in Events : PeerReady(e)
        \/ \E c \in Calls : Enter(c) \/ Resume(c) \/ DoIO(c) \/ Timer(c)

\* Workers run, timers expire, what is reported is handled, close() goes on;
\* the peer owes nothing.
Fairness ==
  /\ WF_vars(Reported)
  /\ WF_vars(closer # "no" /\ Close)
  /\ \A c \in Calls : WF_vars(DoIO(c)) /\ SF_vars(Resume(c)) /\ SF_vars(Timer(c))

Spec == Init /\ [][Next]_vars /\ Fairness

------------------------------------------------------------------------------
(* Properties                                                               *)

\* A fiber that is about to suspend or suspended is registered for its event
\* or in the task list, and never both: no wake-up is lost or given twice.
WaitsOnce ==
  \A c \in Calls :
    LET registered == waiter[EventOf(c)] = c
    IN /\ pc[c] \in {"yield", "held"} => (registered # (c \in scheduled))
       /\ pc[c] \notin {"yield", "held"} => ~registered /\ c \notin scheduled

\* What FdContext says somebody waits for, the kernel watches, as long as the
\* file the fd number was opened for is there.
WatchedByEpoll == file = 1 => mask = {e \in Events : Waiting(e)}

\* iomanager.cc:97 asserts that nobody waits yet for the event being added.
NoSecondWaiter == ~aborted

\* connect() returns 0 for a connection that is there, with or without a wait
\* behind it, unless somebody has closed the socket or is about to.
ConnectTells == \A c \in Connectors : result[c] = "early" => closer # "no" \/ file # 1

\* With one worker a call on a socket with a timeout comes back unless the
\* socket is closed, whatever the peer does.  (With two, the timer's callback
\* can run between addTimer() and addEvent(), find no event to cancel, and the
\* call waits without a timer.)
TimedCallsReturn == \A c \in Timed : (pc[c] = "try" /\ file = 1) ~> (pc[c] = "done" \/ file # 1)

\* With one worker, and while nobody gets the fd number again, a call that
\* waits for READ comes back when the socket is closed: this is how
\* TcpServer::stop() gets its accepting coroutine out of accept().  (A second
\* worker can retry, and register again, before close() is through.)
ClosedReadersReturn == \A c \in Readers : (pc[c] = "held" /\ file = 0) ~> (pc[c] = "done" \/ file # 0)
==============================================================================
