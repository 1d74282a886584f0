------------------------------ MODULE TcpServer ------------------------------
(***************************************************************************)
(* The server of src/tw/tcp_server.cc over the sockets of src/tw/socket.cc:*)
(* one thread that calls bind(), start() and stop(), an accept worker with *)
(* one thread that runs the accept loops and the task of stop(), and the   *)
(* worker on which the clients are handled.  A socket is bound by a call   *)
(* of bind() to an address; the numbers of files are given out lowest      *)
(* first and again and again, and FdMgr has an entry for each.  All        *)
(* threads have their hooks enabled.                                       *)
(*                                                                         *)
(* The server is bound before it is started, and left alone after stop():  *)
(* the task of stop() works on m_socks without a lock.                     *)
(***************************************************************************)
EXTENDS FdManager

CONSTANTS Addrs,     \* addresses that can be bound
          Clients,   \* clients, each connects at most once
          MaxFd,     \* bound: numbers of open files, 1..MaxFd
          MaxBinds,  \* bound: calls of bind()
          MaxFails,  \* bound: sockets whose bind() or listen() fails
          MaxFlags,  \* bound: calls of fcntl() by handlers
          StopTask,  \* the task that stop() schedules
          Nothing    \* no task, no file

Fds     == 1..MaxFd
Sockets == (1..MaxBinds) \X Addrs
RecvTimeout == 120000 \* m_recvTimeout

ASSUME NamesAssumption ==
  {StopTask, Nothing} \cap (Clients \cup Sockets) = {} /\ StopTask # Nothing /\ Clients \cap Sockets = {}
ASSUME BoundsAssumption == MaxFd \in Nat /\ MaxBinds \in Nat /\ MaxFails \in Nat /\ MaxFlags \in Nat

VARIABLES control,  \* what the controlling thread is in: "idle", "bind", "stop", "left"
          binds,    \* calls of bind() so far
          asked,    \* the addresses of this call
          todo,     \* those still to be bound
          refused,  \* `fails'
          bound,    \* what the last bind() has returned
          failed,   \* bind() and listen() that have failed
          socks,    \* m_socks
          isStop,   \* m_isStop
          fdOf,     \* m_sock of each listening socket
          file,     \* the socket or client behind each number
          fds,      \* m_fds of FdMgr
          flag,     \* O_NONBLOCK of each open file
          nonBlock,   \* the clients whose handler has asked for O_NONBLOCK last
          flags,    \* calls of fcntl()
          loop,     \* where the accept loop of each socket is
          fdIn,     \* the number that do_io() was called with there
          tasks,    \* the task list of the accept worker
          running,  \* what the accept worker is executing
          client,   \* where each client is
          target    \* the socket whose queue each client is or was in

controlVars == <<control, binds, asked, todo, refused, bound, failed>>
tableVars   == <<fds, flag>>
userVars    == <<nonBlock, flags>>
fileVars    == <<fdOf, file, tableVars, userVars>>
loopVars    == <<loop, fdIn>>
vars == <<controlVars, socks, isStop, fileVars, loopVars, tasks, running, client, target>>

Members(s) == {s[i] : i \in 1..Len(s)}

TypeOK ==
  /\ control \in {"idle", "bind", "stop", "left"} /\ bound \in BOOLEAN /\ isStop \in BOOLEAN
  /\ asked \subseteq Addrs /\ todo \subseteq asked /\ refused \subseteq asked
  /\ Members(socks) \subseteq Sockets /\ Members(tasks) \subseteq Sockets \cup {StopTask}
  /\ fdOf \in [Sockets -> Fds \cup {Closed}] /\ fdIn \in [Sockets -> Fds \cup {Closed}]
  /\ file \in [Fds -> Sockets \cup Clients \cup {Nothing}]
  /\ flag \in [Fds -> BOOLEAN] /\ nonBlock \subseteq Clients /\ flags \in 0..MaxFlags
  /\ loop \in [Sockets -> {"none", "test", "accept", "held", "woken", "done"}]
  /\ running \in Sockets \cup {StopTask, Nothing}
  /\ client \in [Clients -> {"away", "queued", "accepted", "handled", "gone", "reset"}]

Init ==
  /\ control = "idle" /\ binds = 0 /\ asked = {} /\ todo = {} /\ refused = {} /\ bound = FALSE /\ failed = 0
  /\ socks = <<>> /\ isStop = TRUE
  /\ fdOf = [s \in Sockets |-> Closed] /\ file = [f \in Fds |-> Nothing]
  /\ fds = NewTable /\ flag = [f \in Fds |-> FALSE] /\ nonBlock = {} /\ flags = 0
  /\ loop = [s \in Sockets |-> "none"] /\ fdIn = [s \in Sockets |-> Closed]
  /\ tasks = <<>> /\ running = Nothing
  /\ client = [c \in Clients |-> "away"] /\ target = [c \in Clients |-> Nothing]

Free   == {f \in Fds : file[f] = Nothing}
Lowest == CHOOSE f \in Free : \A g \in Free : f <= g

\* socket() or accept() gives out a number, and FdMgr gets an entry for it.
Opens(what) ==
  /\ file' = [file EXCEPT ![Lowest] = what]
  /\ flag' = [flag EXCEPT ![Lowest] = FlagOfNew(fds, Lowest)]
  /\ fds'  = Create(fds, Lowest)

\* close() of some numbers: each entry is deleted, whichever comes first.
Closes(numbers) ==
  /\ file' = [f \in Fds |-> IF f \in numbers THEN Nothing ELSE file[f]]
  /\ fds'  = [i \in DOMAIN fds |-> IF i - 1 \in numbers THEN Del(fds, i - 1)[i] ELSE fds[i]]

\* The clients that connect() to a socket and are not accepted yet.
Backlog(s) == {c \in Clients : client[c] = "queued" /\ target[c] = s}

-----------------------------------------------------------------------------
(* bind(), start() and stop()                                              *)

\* Before start() and before stop(), as often as its user likes.
Bind(addrs) ==
  /\ control = "idle" /\ isStop /\ binds < MaxBinds /\ addrs # {}
  /\ control' = "bind" /\ binds' = binds + 1
  /\ asked' = addrs /\ todo' = addrs /\ refused' = {}
  /\ UNCHANGED <<bound, failed, socks, isStop, fileVars, loopVars, tasks, running, client, target>>

\* Socket::CreateTCP(), bind() and listen() for one address.  A socket that is not kept is closed by its destructor.
InUse(a) == \E s \in Sockets : s[2] = a /\ fdOf[s] # Closed
BindOne(a) ==
  /\ control = "bind" /\ a \in todo
  /\ todo' = todo \ {a}
  /\ \/ /\ Free # {} /\ ~InUse(a)
        /\ fdOf' = [fdOf EXCEPT ![<<binds, a>>] = Lowest]
        /\ Opens(<<binds, a>>) /\ UNCHANGED userVars
        /\ socks' = Append(socks, <<binds, a>>)
        /\ UNCHANGED <<refused, failed>>
     \/ /\ Free = {} \/ InUse(a)
        /\ refused' = refused \cup {a}
        /\ UNCHANGED <<failed, socks, fileVars>>
     \/ /\ failed < MaxFails
        /\ failed' = failed + 1
        /\ refused' = refused \cup {a}
        /\ UNCHANGED <<socks, fileVars>>
  /\ UNCHANGED <<control, binds, asked, bound, isStop, loopVars, tasks, running, client, target>>

\* The destructors of some sockets: close() of each that is open.
Destroy(gone) ==
  /\ Closes({fdOf[s] : s \in gone} \ {Closed})
  /\ fdOf' = [s \in Sockets |-> IF s \in gone THEN Closed ELSE fdOf[s]]
  /\ UNCHANGED <<flag, userVars>>

\* What waits in the queue of a socket that is closed is reset.
Reset(gone) ==
  client' = [c \in Clients |-> IF client[c] = "queued" /\ target[c] \in gone THEN "reset" ELSE client[c]]

\* Mutant: the sockets that were bound stay when one was not.
BindReturnsKeeps ==
  /\ control = "bind" /\ todo = {}
  /\ control' = "idle"
  /\ bound' = (refused = {})
  /\ UNCHANGED <<socks, fileVars, client, binds, asked, todo, refused, failed, isStop, loopVars, tasks, running, target>>

\* One address that failed takes all sockets with it, those of earlier calls too.
BindReturns ==
  /\ control = "bind" /\ todo = {}
  /\ control' = "idle"
  /\ bound' = (refused = {})
  /\ IF refused # {} THEN socks' = <<>> /\ Destroy(Members(socks)) /\ Reset(Members(socks))
                     ELSE UNCHANGED <<socks, fileVars, client>>
  /\ UNCHANGED <<binds, asked, todo, refused, failed, isStop, loopVars, tasks, running, target>>

\* A server that has been started says true and does nothing.
Start ==
  /\ control = "idle" /\ isStop
  /\ isStop' = FALSE
  /\ tasks' = tasks \o socks
  /\ loop' = [s \in Sockets |-> IF s \in Members(socks) THEN "test" ELSE loop[s]]
  /\ UNCHANGED <<controlVars, socks, fileVars, fdIn, running, client, target>>

\* m_isStop, then schedule(); the server may never have been started.
Stop ==
  /\ control = "idle"
  /\ control' = "stop" /\ isStop' = TRUE
  /\ UNCHANGED <<binds, asked, todo, refused, bound, failed, socks, fileVars, loopVars, tasks, running, client, target>>
StopSchedules ==
  /\ control = "stop"
  /\ control' = "left" /\ tasks' = Append(tasks, StopTask)
  /\ UNCHANGED <<binds, asked, todo, refused, bound, failed, socks, isStop, fileVars, loopVars, running, client, target>>

-----------------------------------------------------------------------------
(* The accept worker                                                       *)

\* run() takes the first of the list; a suspended loop goes on where it was.
Take ==
  /\ running = Nothing /\ tasks # <<>>
  /\ running' = Head(tasks) /\ tasks' = Tail(tasks)
  /\ UNCHANGED <<controlVars, socks, isStop, fileVars, loopVars, client, target>>

Executes(s, p) == running = s /\ loop[s] = p
At(s, p)       == loop' = [loop EXCEPT ![s] = p]

\* while(!m_isStop)
Test(s) ==
  /\ Executes(s, "test")
  /\ IF isStop THEN At(s, "done") /\ running' = Nothing /\ UNCHANGED fdIn
               ELSE At(s, "accept") /\ fdIn' = [fdIn EXCEPT ![s] = fdOf[s]] /\ UNCHANGED running
  /\ UNCHANGED <<controlVars, socks, isStop, fileVars, tasks, client, target>>

\* accept() of the number in fdIn found a client: Socket::init(), then handleClient() is scheduled.
Accepts(s, c) ==
  /\ client' = [client EXCEPT ![c] = "accepted"]
  /\ file' = [file EXCEPT ![Lowest] = c]
  /\ flag' = [flag EXCEPT ![Lowest] = FlagOfNew(fds, Lowest)]
  /\ fds'  = SetRecvTimeout(Create(fds, Lowest), Lowest, RecvTimeout, TRUE)
  /\ At(s, "test")
  /\ UNCHANGED <<fdOf, userVars, running>>

\* Mutant: the loop ends when accept() has failed.
AcceptGivesUp(s) ==
  /\ Executes(s, "accept") \/ Executes(s, "woken")
  /\ LET open == fdIn[s] # Closed /\ file[fdIn[s]] = s
     IN \/ open /\ Free # {} /\ \E c \in Backlog(s) : Accepts(s, c)
        \/ (~open \/ (Free = {} /\ Backlog(s) # {})) /\ At(s, "done") /\ running' = Nothing /\ UNCHANGED <<client, fileVars>>
        \/ open /\ Backlog(s) = {} /\ At(s, "held") /\ running' = Nothing /\ UNCHANGED <<client, fileVars>>
  /\ UNCHANGED <<controlVars, socks, isStop, fdIn, tasks, target>>

(***************************************************************************)
(* Socket::accept() in do_io(): a client; EBADF, EINVAL or EMFILE, when    *)
(* the loop goes round without a pause; or EAGAIN, when it suspends.  The  *)
(* number may be closed by then, or that of another file.                  *)
(***************************************************************************)
Accept(s) ==
  /\ Executes(s, "accept") \/ Executes(s, "woken")
  /\ LET open == fdIn[s] # Closed /\ file[fdIn[s]] = s
     IN \/ open /\ Free # {} /\ \E c \in Backlog(s) : Accepts(s, c)
        \/ (~open \/ (Free = {} /\ Backlog(s) # {})) /\ At(s, "test") /\ UNCHANGED <<client, fileVars, running>>
        \/ open /\ Backlog(s) = {} /\ At(s, "held") /\ running' = Nothing /\ UNCHANGED <<client, fileVars>>
  /\ UNCHANGED <<controlVars, socks, isStop, fdIn, tasks, target>>

\* idle(): epoll reports the socket, the suspended loop is scheduled.
Reported(s) ==
  /\ running = Nothing /\ loop[s] = "held" /\ Backlog(s) # {}
  /\ At(s, "woken") /\ tasks' = Append(tasks, s)
  /\ UNCHANGED <<controlVars, socks, isStop, fileVars, fdIn, running, client, target>>

\* Mutant: nothing is cancelled, the loop sleeps on.
StopCancelsNothing ==
  /\ running = StopTask
  /\ socks' = <<>> /\ Destroy(Members(socks)) /\ Reset(Members(socks))
  /\ running' = Nothing
  /\ UNCHANGED <<controlVars, isStop, loopVars, tasks, target>>

\* Mutant: close() forgets the number without closing it.
StopForgets ==
  /\ running = StopTask
  /\ socks' = <<>> /\ fdOf' = [s \in Sockets |-> Closed]
  /\ running' = Nothing
  /\ UNCHANGED <<controlVars, isStop, loopVars, tasks, file, tableVars, userVars, client, target>>

\* The task of stop(), one socket after the other: cancelAll() wakes the loop, close(); then m_socks.clear().
StopTaskRuns ==
  /\ running = StopTask
  /\ IF \E s \in Members(socks) : fdOf[s] # Closed
     THEN LET s == socks[CHOOSE i \in 1..Len(socks) : /\ fdOf[socks[i]] # Closed
                                                      /\ \A j \in 1..(i - 1) : fdOf[socks[j]] = Closed]
          IN /\ IF loop[s] = "held" THEN At(s, "woken") /\ tasks' = Append(tasks, s) ELSE UNCHANGED <<loop, tasks>>
             /\ Destroy({s}) /\ Reset({s})
             /\ UNCHANGED <<socks, running>>
     ELSE socks' = <<>> /\ running' = Nothing /\ UNCHANGED <<fileVars, loop, tasks, client>>
  /\ UNCHANGED <<controlVars, isStop, fdIn, target>>

AcceptWorker == Take \/ StopTaskRuns \/ \E s \in Sockets : Test(s) \/ Accept(s) \/ Reported(s)

-----------------------------------------------------------------------------
(* Clients and their handlers                                              *)

Connect(c) ==
  /\ client[c] = "away"
  /\ \E s \in Sockets : fdOf[s] # Closed /\ target' = [target EXCEPT ![c] = s]
  /\ client' = [client EXCEPT ![c] = "queued"]
  /\ UNCHANGED <<controlVars, socks, isStop, fileVars, loopVars, tasks, running>>

\* handleClient() begins; it ends when it likes, and the socket goes with it.
Handle(c) ==
  /\ client[c] = "accepted"
  /\ client' = [client EXCEPT ![c] = "handled"]
  /\ UNCHANGED <<controlVars, socks, isStop, fileVars, loopVars, tasks, running, target>>
HandleEnds(c) ==
  /\ client[c] = "handled"
  /\ client' = [client EXCEPT ![c] = "gone"]
  /\ Closes({f \in Fds : file[f] = c})
  /\ UNCHANGED <<controlVars, socks, isStop, fdOf, flag, userVars, loopVars, tasks, running, target>>

\* The handler sets or takes away O_NONBLOCK of its socket with fcntl().
SetsFlag(c, on) ==
  /\ client[c] = "handled" /\ flags < MaxFlags
  /\ flags' = flags + 1
  /\ nonBlock' = IF on THEN nonBlock \cup {c} ELSE nonBlock \ {c}
  /\ \E f \in Fds : /\ file[f] = c
                    /\ fds'  = SetFl(fds, f, on)
                    /\ flag' = [flag EXCEPT ![f] = FlagSetBy(fds, f, on)]
  /\ UNCHANGED <<controlVars, socks, isStop, fdOf, file, loopVars, tasks, running, client, target>>

-----------------------------------------------------------------------------
Next ==
  \/ \E addrs \in SUBSET Addrs : Bind(addrs)
  \/ \E a \in Addrs : BindOne(a)
  \/ BindReturns \/ Start \/ Stop \/ StopSchedules
  \/ AcceptWorker
  \/ \E c \in Clients : Connect(c) \/ Handle(c) \/ HandleEnds(c) \/ \E on \in BOOLEAN : SetsFlag(c, on)

\* The workers run, stop() is carried through, and clients go away in the end, which gives their numbers back.
Fairness ==
  /\ WF_vars(AcceptWorker) /\ WF_vars(StopSchedules)
  /\ \A c \in Clients : WF_vars(Handle(c)) /\ WF_vars(HandleEnds(c))

Spec == Init /\ [][Next]_vars /\ Fairness

-----------------------------------------------------------------------------
(***************************************************************************)
(* Every open number has one owner that will close it: a socket in m_socks *)
(* or a client that is accepted and not gone; and FdMgr has an entry for   *)
(* the open numbers and no other (socket(), accept() and close() in        *)
(* hook.cc, under Socket and TcpServer).                                   *)
(***************************************************************************)
EveryFileOwned ==
  /\ {n \in 0..(Len(fds) - 1) : Find(fds, n) # NoCtx} = Fds \ Free
  /\ \A f \in Fds \ Free :
       \/ file[f] \in Members(socks) /\ fdOf[file[f]] = f
       \/ file[f] \in Clients /\ client[file[f]] \in {"accepted", "handled"}
  /\ \A f, g \in Fds \ Free : file[f] = file[g] => f = g

(***************************************************************************)
(* Under FdMgr every file is non-blocking, or a call of do_io() would stop *)
(* its whole worker; and what a handler sees of the flag is what it has    *)
(* set itself, and not what an earlier client of the number has.           *)
(***************************************************************************)
NonBlockingUnderneath ==
  \A f \in Fds \ Free :
    /\ flag[f]
    /\ file[f] \in Clients => GetFl(fds, f, flag[f]) = (file[f] \in nonBlock)

\* bind() has bound all its addresses when it says so, and has left no socket open when it does not.
BindAllOrNothing ==
  (control = "idle" /\ binds > 0 /\ isStop) =>
    IF bound THEN \A a \in asked : \E s \in Members(socks) : s[2] = a /\ fdOf[s] # Closed
             ELSE socks = <<>> /\ \A s \in Sockets : fdOf[s] = Closed

\* stop() ends every accept loop and closes every socket the server was bound to, whatever the loops were doing.
StopEndsLoops ==
  control = "stop" ~> (/\ socks = <<>> /\ \A s \in Sockets : fdOf[s] = Closed /\ loop[s] \in {"none", "done"}
                       /\ running = Nothing /\ tasks = <<>>)

\* A client that connects is handled, unless the server is stopped before, whether or not numbers were short meanwhile.
ClientsHandled == \A c \in Clients : (client[c] = "queued" /\ ~isStop) ~> (client[c] \in {"handled", "gone"} \/ isStop)
==============================================================================
