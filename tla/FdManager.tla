------------------------------ MODULE FdManager ------------------------------
(***************************************************************************)
(* What hooked calls know of a file: FdCtx and the table FdManager of      *)
(* src/tw/fd_manager.cc, and socket(), close(), fcntl() and setsockopt()   *)
(* of src/tw/hook.cc over it.  The table is a sequence whose element n + 1 *)
(* is for number n; O_NONBLOCK of the kernel's file is passed along.       *)
(*                                                                         *)
(* get() looks up under one lock and stores under another; between them    *)
(* nobody asks for the number, which its caller has just opened.           *)
(***************************************************************************)
EXTENDS Integers, Sequences

CONSTANT InitialSize \* of m_fds: 64 in the code

\* The table grows to half as much again as the number, which must be more than the number.
ASSUME InitialSizeAssumption == InitialSize \in Nat \ {0, 1}

Closed  == 0 - 1
Forever == 0 - 1
NoCtx   == [socket |-> FALSE, sysNonBlock |-> FALSE, usrNonBlock |-> FALSE, recvTimeout |-> 0]
NewTable == [i \in 1..InitialSize |-> NoCtx]

\* FdCtx::init() of a socket, which it makes non-blocking.
NewCtx == [socket |-> TRUE, sysNonBlock |-> TRUE, usrNonBlock |-> FALSE, recvTimeout |-> Forever]

Resized(table, size) == [i \in 1..size |-> IF i <= Len(table) THEN table[i] ELSE NoCtx]

\* get(fd) and get(fd, true).
Find(table, fd) == IF fd # Closed /\ fd < Len(table) THEN table[fd + 1] ELSE NoCtx
Create(table, fd) ==
  LET grown == IF fd >= Len(table) THEN Resized(table, (fd * 3) \div 2) ELSE table
  IN IF Find(table, fd) # NoCtx THEN table ELSE [grown EXCEPT ![fd + 1] = NewCtx]

\* Mutant: the entry stays.
DelNothing(table, fd) == table
Del(table, fd) == IF fd >= Len(table) THEN table ELSE [table EXCEPT ![fd + 1] = NoCtx]

\* Only a new entry sets the flag of the file.
FlagOfNew(table, fd) == Find(table, fd) = NoCtx

\* fcntl(F_SETFL) with or without O_NONBLOCK: what the table and what the file is told; fcntl(F_GETFL).
SetFl(table, fd, on)    == IF Find(table, fd).socket THEN [table EXCEPT ![fd + 1].usrNonBlock = on] ELSE table
FlagSetBy(table, fd, on) == IF Find(table, fd).socket THEN Find(table, fd).sysNonBlock ELSE on
GetFl(table, fd, flag)  == IF Find(table, fd).socket THEN Find(table, fd).usrNonBlock ELSE flag

\* setsockopt(SO_RCVTIMEO): the entry is told by a thread without hooks only.
SetRecvTimeout(table, fd, ms, hooked) ==
  IF ~hooked /\ Find(table, fd) # NoCtx THEN [table EXCEPT ![fd + 1].recvTimeout = ms] ELSE table
==============================================================================
