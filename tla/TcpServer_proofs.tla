--------------------------- MODULE TcpServer_proofs ---------------------------
(***************************************************************************)
(* Proofs of the invariants of TcpServer for any addresses, clients and    *)
(* number of files.  The inductive invariant says exactly what the table   *)
(* of FdMgr holds, who owns each open file, and how far a call of bind()   *)
(* has come.                                                               *)
(***************************************************************************)
EXTENDS TcpServer, SequenceTheorems, NaturalsInduction, WellFoundedInduction, TLAPS

\* The entry of a file whose user has asked for O_NONBLOCK.
AskedCtx == [NewCtx EXCEPT !.usrNonBlock = TRUE]
Ctx      == {NoCtx, NewCtx, AskedCtx}

\* What the types do not say of the sequences and of the counter.
Types ==
  /\ TypeOK
  /\ socks \in Seq(Sockets) /\ tasks \in Seq(Sockets \cup {StopTask})
  /\ binds \in 0..MaxBinds /\ (control = "bind" => binds \in 1..MaxBinds)

\* The table has an entry for each open number and no other, and in it what the last user of the number has set.
Entry(n) == IF file[n] \in nonBlock THEN AskedCtx ELSE NewCtx
TableInv ==
  /\ fds \in Seq(Ctx) /\ Len(fds) >= 2
  /\ \A n \in Nat : Find(fds, n) = IF n \in Fds \ Free THEN Entry(n) ELSE NoCtx
  /\ \A f \in Fds \ Free : flag[f]

\* Sockets and clients on the one side and numbers on the other agree on who has what.
OwnerInv ==
  /\ \A s \in Sockets : fdOf[s] # Closed => s \in Members(socks)
  /\ \A s \in Sockets : fdOf[s] # Closed => file[fdOf[s]] = s
  /\ \A f \in Fds : file[f] \in Sockets => fdOf[file[f]] = f
  /\ \A f \in Fds : file[f] \in Clients => client[file[f]] \in {"accepted", "handled"}
  /\ \A f, g \in Fds : file[f] \in Clients /\ file[f] = file[g] => f = g
  /\ \A c \in nonBlock : client[c] \in {"handled", "gone"}

\* Nothing undoes what bind() has done before stop() is called.
BindInv ==
  /\ control # "left" => StopTask \notin Members(tasks) /\ running # StopTask
  /\ control = "bind" =>
       \A a \in asked \ (todo \cup refused) : \E s \in Members(socks) : s[2] = a /\ fdOf[s] # Closed
  /\ BindAllOrNothing

Inv == Types /\ TableInv /\ OwnerInv /\ BindInv

-----------------------------------------------------------------------------
(* Sequences as lists, and the lowest number                               *)

\* A task or a socket that is put at the end is a member, and the others stay.
LEMMA MembersOfAppend ==
  ASSUME NEW S, NEW s \in Seq(S), NEW x \in S
  PROVE  Append(s, x) \in Seq(S) /\ Members(Append(s, x)) = Members(s) \cup {x}
<1>1. /\ Append(s, x) \in Seq(S) /\ Len(s) \in Nat /\ Len(Append(s, x)) = Len(s) + 1
      /\ \A i \in 1..Len(s) : Append(s, x)[i] = s[i]
      /\ Append(s, x)[Len(s) + 1] = x
  OBVIOUS
<1>2. \A i \in 1..(Len(s) + 1) : i \in 1..Len(s) \/ i = Len(s) + 1
  BY <1>1
<1>3. \A i \in 1..Len(s) : i \in 1..(Len(s) + 1)
  BY <1>1
<1>4. Len(s) + 1 \in 1..(Len(s) + 1)
  BY <1>1
<1> QED BY <1>1, <1>2, <1>3, <1>4 DEF Members

\* start() puts the loops of all sockets behind the tasks that are there.
LEMMA MembersOfConcat ==
  ASSUME NEW S, NEW s \in Seq(S), NEW t \in Seq(S)
  PROVE  s \o t \in Seq(S) /\ Members(s \o t) \subseteq Members(s) \cup Members(t)
<1>1. /\ s \o t \in Seq(S) /\ Len(s) \in Nat /\ Len(t) \in Nat /\ Len(s \o t) = Len(s) + Len(t)
      /\ \A i \in 1..(Len(s) + Len(t)) : (s \o t)[i] = IF i <= Len(s) THEN s[i] ELSE t[i - Len(s)]
  BY ConcatProperties
<1>2. ASSUME NEW i \in 1..(Len(s) + Len(t))
      PROVE  (s \o t)[i] \in Members(s) \cup Members(t)
  <2>1. CASE i <= Len(s)
    BY <1>1, <2>1 DEF Members
  <2>2. CASE i > Len(s)
    <3>1. i - Len(s) \in 1..Len(t) /\ ~(i <= Len(s))
      BY <1>1, <2>2
    <3> QED BY <1>1, <3>1 DEF Members
  <2> QED BY <1>1, <2>1, <2>2
<1> QED BY <1>1, <1>2 DEF Members

\* The worker takes a member and leaves members.
LEMMA MembersOfTail ==
  ASSUME NEW S, NEW s \in Seq(S), s # <<>>
  PROVE  /\ Tail(s) \in Seq(S) /\ Head(s) \in S /\ Head(s) \in Members(s)
         /\ Members(Tail(s)) \subseteq Members(s)
<1>1. /\ Tail(s) \in Seq(S) /\ Head(s) \in S /\ Len(s) \in Nat \ {0} /\ Head(s) = s[1]
      /\ Len(Tail(s)) = Len(s) - 1 /\ \A i \in 1..(Len(s) - 1) : Tail(s)[i] = s[i + 1]
  OBVIOUS
<1>2. 1 \in 1..Len(s) /\ \A i \in 1..(Len(s) - 1) : i + 1 \in 1..Len(s)
  BY <1>1
<1> QED BY <1>1, <1>2 DEF Members

\* A list of sockets has sockets as members.
LEMMA MembersTyped ==
  ASSUME NEW S, NEW s \in Seq(S)
  PROVE  Members(s) \subseteq S /\ (s = <<>> => Members(s) = {})
BY ElementOfSeq, LenProperties DEF Members

\* A set of numbers has a lowest one: the kernel gives that out.
LEMMA SmallestNumber ==
  ASSUME NEW S \in SUBSET Nat, S # {}
  PROVE  \E n \in S : \A m \in S : n <= m
<1>1. PICK n \in S : \A m \in S : ~(<<m, n>> \in OpToRel(<, Nat))
  BY NatLessThanWellFounded, WFMin
<1>2. \A m \in S : ~(m < n)
  BY <1>1 DEF OpToRel
<1> QED BY <1>2

\* What socket() and accept() give out is free.
LEMMA LowestIsFree ==
  ASSUME Free # {}
  PROVE  Lowest \in Free /\ Lowest \in Fds /\ Lowest \in Nat /\ Lowest # Closed /\ file[Lowest] = Nothing
<1>1. Free \subseteq Nat
  BY BoundsAssumption DEF Free, Fds
<1>2. \E n \in Free : \A m \in Free : n <= m
  BY <1>1, SmallestNumber
<1>3. Lowest \in Free
  BY <1>2 DEF Lowest
<1> QED BY <1>3, BoundsAssumption DEF Free, Fds, Closed

\* The task of stop() closes a socket of m_socks.
LEMMA FirstOpenIsThere ==
  ASSUME socks \in Seq(Sockets), \E s \in Members(socks) : fdOf[s] # Closed
  PROVE  LET s == socks[CHOOSE i \in 1..Len(socks) : /\ fdOf[socks[i]] # Closed
                                                     /\ \A j \in 1..(i - 1) : fdOf[socks[j]] = Closed]
         IN s \in Members(socks) /\ s \in Sockets /\ fdOf[s] # Closed
<1> DEFINE IsOpen(i) == fdOf[socks[i]] # Closed
           First(i) == IsOpen(i) /\ \A j \in 1..(i - 1) : fdOf[socks[j]] = Closed
           Numbers  == {i \in 1..Len(socks) : IsOpen(i)}
<1>1. Len(socks) \in Nat
  OBVIOUS
<1>2. Numbers # {} /\ Numbers \subseteq Nat
  BY <1>1 DEF Members
<1> HIDE DEF Numbers
<1>3. PICK n \in Numbers : \A m \in Numbers : n <= m
  BY <1>2, SmallestNumber
<1>4. n \in 1..Len(socks) /\ IsOpen(n)
  BY <1>3 DEF Numbers
<1>5. ASSUME NEW j \in 1..(n - 1) PROVE fdOf[socks[j]] = Closed
  <2>1. j \in 1..Len(socks) /\ ~(n <= j)
    BY <1>1, <1>4
  <2> QED BY <1>3, <2>1 DEF Numbers
<1>6. First(n)
  BY <1>4, <1>5
<1> DEFINE i == CHOOSE i \in 1..Len(socks) : First(i)
<1>7. i \in 1..Len(socks) /\ First(i)
  BY <1>4, <1>6
<1>8. socks[i] \in Members(socks) /\ fdOf[socks[i]] # Closed
  BY <1>7 DEF Members
<1> QED BY <1>8, MembersTyped

-----------------------------------------------------------------------------
(* The table of FdMgr, told by what it finds                               *)

\* The entries are different, and every one but that of no file is of a non-blocking socket.
LEMMA Entries ==
  /\ NoCtx \in Ctx /\ NewCtx \in Ctx /\ AskedCtx \in Ctx
  /\ NewCtx # NoCtx /\ AskedCtx # NoCtx
  /\ NewCtx.socket /\ AskedCtx.socket /\ ~NoCtx.socket
  /\ NewCtx.sysNonBlock /\ AskedCtx.sysNonBlock
  /\ ~NewCtx.usrNonBlock /\ AskedCtx.usrNonBlock
BY DEF Ctx, NoCtx, NewCtx, AskedCtx, Forever

\* Taking O_NONBLOCK away gives the entry of a new file again.
LEMMA FlagTakenBack ==
  /\ [NewCtx EXCEPT !.usrNonBlock = FALSE] = NewCtx
  /\ [[NewCtx EXCEPT !.usrNonBlock = TRUE] EXCEPT !.usrNonBlock = FALSE] = NewCtx
<1>1. NewCtx \in [socket : BOOLEAN, sysNonBlock : BOOLEAN, usrNonBlock : BOOLEAN, recvTimeout : Int]
  BY DEF NewCtx, Forever
<1>2. NewCtx.usrNonBlock = FALSE
  BY DEF NewCtx
<1> QED BY <1>1, <1>2

\* get(fd, true) of a number that has no entry: it has one then, however far the table had to grow.
LEMMA CreateFinds ==
  ASSUME NEW table \in Seq(Ctx), Len(table) >= 2, NEW fd \in Nat, Find(table, fd) = NoCtx
  PROVE  /\ Create(table, fd) \in Seq(Ctx) /\ Len(Create(table, fd)) >= 2
         /\ \A n \in Nat : Find(Create(table, fd), n) = IF n = fd THEN NewCtx ELSE Find(table, n)
<1> DEFINE grown == IF fd >= Len(table) THEN Resized(table, (fd * 3) \div 2) ELSE table
           made  == [grown EXCEPT ![fd + 1] = NewCtx]
<1>1. Create(table, fd) = made
  BY DEF Create
<1>2. Len(table) \in Nat /\ table \in [1..Len(table) -> Ctx]
  BY LenProperties
<1>3. PICK size \in Nat : /\ grown \in [1..size -> Ctx] /\ size >= 2 /\ fd + 1 \in 1..size /\ size >= Len(table)
                          /\ \A i \in 1..size : grown[i] = IF i <= Len(table) THEN table[i] ELSE NoCtx
  <2>1. CASE fd >= Len(table)
    <3> DEFINE size == (fd * 3) \div 2
    <3>1. size \in Nat /\ size >= fd + 1
      BY <1>2, <2>1
    <3> HIDE DEF size
    <3>2. grown = [i \in 1..size |-> IF i <= Len(table) THEN table[i] ELSE NoCtx]
      BY <2>1 DEF Resized, size
    <3>3. \A i \in 1..size : (IF i <= Len(table) THEN table[i] ELSE NoCtx) \in Ctx
      BY <1>2, Entries
    <3>4. grown \in [1..size -> Ctx]
      BY <3>2, <3>3
    <3>5. size >= 2 /\ fd + 1 \in 1..size /\ size >= Len(table)
      BY <1>2, <2>1, <3>1
    <3>6. \A i \in 1..size : grown[i] = IF i <= Len(table) THEN table[i] ELSE NoCtx
      BY <3>2
    <3> HIDE DEF grown
    <3> QED BY <3>1, <3>4, <3>5, <3>6
  <2>2. CASE ~(fd >= Len(table))
    <3>1. grown = table /\ fd + 1 \in 1..Len(table)
      BY <1>2, <2>2
    <3>2. \A i \in 1..Len(table) : grown[i] = IF i <= Len(table) THEN table[i] ELSE NoCtx
      BY <3>1
    <3>3. grown \in [1..Len(table) -> Ctx]
      BY <1>2, <3>1
    <3> HIDE DEF grown
    <3> WITNESS Len(table) \in Nat
    <3> QED BY <1>2, <3>1, <3>2, <3>3
  <2> QED BY <2>1, <2>2
<1> HIDE DEF grown
<1>4. /\ made \in [1..size -> Ctx]
      /\ \A i \in 1..size : made[i] = IF i = fd + 1 THEN NewCtx ELSE grown[i]
  BY <1>3, Entries
<1> HIDE DEF made
<1>5. made \in Seq(Ctx) /\ Len(made) = size
  BY <1>3, <1>4, LenProperties, SeqDef
<1>6. ASSUME NEW n \in Nat
      PROVE  Find(made, n) = IF n = fd THEN NewCtx ELSE Find(table, n)
  <2>1. CASE n >= size
    BY <1>2, <1>3, <1>5, <2>1 DEF Find
  <2>2. CASE n < size
    <3>1. n + 1 \in 1..size /\ n # Closed
      BY <2>2 DEF Closed
    <3>2. Find(made, n) = made[n + 1]
      BY <1>5, <2>2, <3>1 DEF Find
    <3>3. CASE n < Len(table)
      BY <1>2, <1>3, <1>4, <3>1, <3>2, <3>3 DEF Find
    <3>4. CASE ~(n < Len(table))
      BY <1>2, <1>3, <1>4, <3>1, <3>2, <3>4 DEF Find
    <3> QED BY <3>3, <3>4
  <2> QED BY <1>3, <2>1, <2>2
<1> QED BY <1>1, <1>3, <1>5, <1>6

\* What close() of some numbers makes of a table.
Emptied(table, numbers) == [i \in DOMAIN table |-> IF i - 1 \in numbers THEN Del(table, i - 1)[i] ELSE table[i]]

\* It takes their entries and no other.
LEMMA CloseFinds ==
  ASSUME NEW table \in Seq(Ctx), Len(table) >= 2, NEW numbers
  PROVE  /\ Emptied(table, numbers) \in Seq(Ctx) /\ Len(Emptied(table, numbers)) >= 2
         /\ \A n \in Nat : Find(Emptied(table, numbers), n) = IF n \in numbers THEN NoCtx ELSE Find(table, n)
<1> DEFINE left == Emptied(table, numbers)
<1>1. Len(table) \in Nat /\ DOMAIN table = 1..Len(table) /\ table \in [1..Len(table) -> Ctx]
  BY LenProperties
<1>2. ASSUME NEW i \in 1..Len(table) PROVE left[i] = IF i - 1 \in numbers THEN NoCtx ELSE table[i]
  <2>1. i - 1 < Len(table) /\ (i - 1) + 1 = i
    BY <1>1
  <2> QED BY <1>1, <2>1 DEF Del, Emptied
<1>3. left \in [1..Len(table) -> Ctx]
  <2>1. left = [i \in 1..Len(table) |-> left[i]]
    BY <1>1 DEF Emptied
  <2> QED BY <1>1, <1>2, <2>1, Entries
<1> HIDE DEF left
<1>4. left \in Seq(Ctx) /\ Len(left) = Len(table)
  BY <1>1, <1>3, LenProperties, SeqDef
<1>5. ASSUME NEW n \in Nat
      PROVE  Find(left, n) = IF n \in numbers THEN NoCtx ELSE Find(table, n)
  <2>1. CASE n >= Len(table)
    BY <1>1, <1>4, <2>1 DEF Find
  <2>2. CASE n < Len(table)
    <3>1. n + 1 \in 1..Len(table) /\ n # Closed /\ (n + 1) - 1 = n
      BY <1>1, <2>2 DEF Closed
    <3> QED BY <1>2, <1>4, <2>2, <3>1 DEF Find
  <2> QED BY <1>1, <2>1, <2>2
<1> QED BY <1>4, <1>5 DEF left

\* fcntl(F_SETFL) of a number that has an entry changes that, and keeps the file non-blocking.
LEMMA SetFlFinds ==
  ASSUME NEW table \in Seq(Ctx), Len(table) >= 2, NEW fd \in Nat, NEW on \in BOOLEAN, Find(table, fd) \in {NewCtx, AskedCtx}
  PROVE  /\ SetFl(table, fd, on) \in Seq(Ctx) /\ Len(SetFl(table, fd, on)) >= 2
         /\ \A n \in Nat : Find(SetFl(table, fd, on), n)
                             = IF n = fd THEN (IF on THEN AskedCtx ELSE NewCtx) ELSE Find(table, n)
         /\ FlagSetBy(table, fd, on)
<1> DEFINE entry == IF on THEN AskedCtx ELSE NewCtx
           set   == [table EXCEPT ![fd + 1] = entry]
<1>1. Len(table) \in Nat /\ table \in [1..Len(table) -> Ctx]
  BY LenProperties
<1>2. /\ fd < Len(table) /\ fd + 1 \in 1..Len(table) /\ Find(table, fd) = table[fd + 1]
      /\ Find(table, fd).socket /\ Find(table, fd).sysNonBlock
  BY <1>1, Entries DEF Find
<1>3. [table[fd + 1] EXCEPT !.usrNonBlock = on] = entry
  <2>1. table[fd + 1] = NewCtx \/ table[fd + 1] = AskedCtx
    BY <1>2
  <2>2. CASE on = TRUE
    BY <2>1, <2>2 DEF AskedCtx, NewCtx
  <2>3. CASE on = FALSE
    <3>1. [NewCtx EXCEPT !.usrNonBlock = FALSE] = NewCtx
      BY FlagTakenBack
    <3>2. [AskedCtx EXCEPT !.usrNonBlock = FALSE] = NewCtx
      BY FlagTakenBack DEF AskedCtx
    <3>3. entry = NewCtx
      BY <2>3
    <3> QED BY <2>1, <2>3, <3>1, <3>2, <3>3
  <2> QED BY <2>2, <2>3
<1>4. SetFl(table, fd, on) = set /\ FlagSetBy(table, fd, on)
  BY <1>2, <1>3 DEF SetFl, FlagSetBy
<1>5. entry \in Ctx
  BY Entries
<1> HIDE DEF entry
<1>6. /\ set \in [1..Len(table) -> Ctx]
      /\ \A i \in 1..Len(table) : set[i] = IF i = fd + 1 THEN entry ELSE table[i]
  BY <1>1, <1>2, <1>5
<1> HIDE DEF set
<1>7. set \in Seq(Ctx) /\ Len(set) = Len(table)
  BY <1>1, <1>6, LenProperties, SeqDef
<1>8. ASSUME NEW n \in Nat
      PROVE  Find(set, n) = IF n = fd THEN entry ELSE Find(table, n)
  <2>1. CASE n >= Len(table)
    BY <1>1, <1>2, <1>7, <2>1 DEF Find
  <2>2. CASE n < Len(table)
    <3>1. n + 1 \in 1..Len(table) /\ n # Closed /\ (n + 1 = fd + 1 <=> n = fd)
      BY <1>1, <2>2 DEF Closed
    <3> QED BY <1>6, <1>7, <2>2, <3>1 DEF Find
  <2> QED BY <1>1, <2>1, <2>2
<1> QED BY <1>4, <1>7, <1>8 DEF entry

-----------------------------------------------------------------------------
(* The table and the files                                                 *)

\* No number of a file is that of a closed socket, and names are different.
LEMMA Names ==
  /\ Closed \notin Fds /\ Fds \subseteq Nat
  /\ StopTask \notin Sockets /\ Nothing \notin Sockets /\ Nothing \notin Clients /\ Nothing # StopTask
  /\ \A s \in Sockets : s \notin Clients
BY NamesAssumption, BoundsAssumption DEF Fds, Closed

\* socket() and accept(): the new file is non-blocking and unused.
LEMMA TableAfterOpening ==
  ASSUME TypeOK, TableInv, Free # {}, NEW what \in Sockets \cup Clients, Opens(what),
         what \notin nonBlock, nonBlock' = nonBlock
  PROVE  TableInv'
<1>1. /\ Lowest \in Free /\ Lowest \in Fds /\ Lowest \in Nat
      /\ Find(fds, Lowest) = NoCtx
  BY LowestIsFree DEF TableInv
<1>2. /\ file' = [file EXCEPT ![Lowest] = what] /\ flag' = [flag EXCEPT ![Lowest] = TRUE]
      /\ fds' = Create(fds, Lowest)
  BY <1>1 DEF Opens, FlagOfNew
<1>3. /\ fds' \in Seq(Ctx) /\ Len(fds') >= 2
      /\ \A n \in Nat : Find(fds', n) = IF n = Lowest THEN NewCtx ELSE Find(fds, n)
  BY <1>1, <1>2, CreateFinds DEF TableInv
<1>4. /\ file'[Lowest] = what /\ \A f \in Fds : f # Lowest => file'[f] = file[f]
      /\ \A f \in Fds : flag'[f] = IF f = Lowest THEN TRUE ELSE flag[f]
  BY <1>1, <1>2 DEF TypeOK
<1>5. Fds \ Free' = (Fds \ Free) \cup {Lowest}
  BY <1>1, <1>4, Names DEF Free
<1>6. ASSUME NEW n \in Nat
      PROVE  Find(fds', n) = IF n \in Fds \ Free' THEN Entry(n)' ELSE NoCtx
  <2>1. CASE n = Lowest
    BY <1>1, <1>3, <1>4, <1>5, <2>1 DEF Entry
  <2>2. CASE n # Lowest
    <3>1. CASE n \in Fds \ Free
      BY <1>3, <1>4, <1>5, <2>2, <3>1 DEF Entry, TableInv
    <3>2. CASE n \notin Fds \ Free
      BY <1>3, <1>5, <2>2, <3>2 DEF TableInv
    <3> QED BY <3>1, <3>2
  <2> QED BY <2>1, <2>2
<1>7. \A f \in Fds \ Free' : flag'[f]
  BY <1>4, <1>5 DEF TableInv
<1> QED BY <1>3, <1>6, <1>7 DEF TableInv, Find

\* close(): the entries go with the files.
LEMMA TableAfterClosing ==
  ASSUME TableInv, NEW numbers, Closes(numbers), UNCHANGED <<flag, nonBlock>>
  PROVE  TableInv'
<1>1. /\ fds' \in Seq(Ctx) /\ Len(fds') >= 2
      /\ \A n \in Nat : Find(fds', n) = IF n \in numbers THEN NoCtx ELSE Find(fds, n)
  <2>1. fds' = Emptied(fds, numbers)
    BY DEF Closes, Emptied
  <2> QED BY <2>1, CloseFinds DEF TableInv
<1>2. \A f \in Fds : file'[f] = IF f \in numbers THEN Nothing ELSE file[f]
  BY DEF Closes
<1>3. Fds \ Free' = (Fds \ Free) \ numbers
  BY <1>2 DEF Free
<1>4. ASSUME NEW n \in Nat
      PROVE  Find(fds', n) = IF n \in Fds \ Free' THEN Entry(n)' ELSE NoCtx
  <2>1. CASE n \in Fds \ Free'
    BY <1>1, <1>2, <1>3, <2>1 DEF Entry, TableInv
  <2>2. CASE n \notin Fds \ Free'
    BY <1>1, <1>3, <2>2 DEF TableInv
  <2> QED BY <2>1, <2>2
<1>5. \A f \in Fds \ Free' : flag'[f]
  BY <1>3 DEF TableInv
<1> QED BY <1>1, <1>4, <1>5 DEF TableInv, Find

\* fcntl() of a handler: its own entry, and no other client's, since a client has one number.
LEMMA TableAfterFlag ==
  ASSUME TypeOK, TableInv, OwnerInv, NEW c \in Clients, NEW on \in BOOLEAN, SetsFlag(c, on)
  PROVE  TableInv'
<1>1. /\ nonBlock' = (IF on THEN nonBlock \cup {c} ELSE nonBlock \ {c})
      /\ file' = file
  BY DEF SetsFlag
<1>2. PICK f \in Fds : /\ file[f] = c
                       /\ fds'  = SetFl(fds, f, on)
                       /\ flag' = [flag EXCEPT ![f] = FlagSetBy(fds, f, on)]
  BY DEF SetsFlag
<1>3. /\ f \in Nat /\ f \in Fds \ Free
      /\ Find(fds, f) \in {NewCtx, AskedCtx}
  BY <1>2, Names DEF Free, TableInv, Entry
<1>4. /\ fds' \in Seq(Ctx) /\ Len(fds') >= 2
      /\ \A n \in Nat : Find(fds', n) = IF n = f THEN (IF on THEN AskedCtx ELSE NewCtx) ELSE Find(fds, n)
      /\ FlagSetBy(fds, f, on)
  BY <1>2, <1>3, SetFlFinds DEF TableInv
<1>5. Fds \ Free' = Fds \ Free
  BY <1>1 DEF Free
<1>6. ASSUME NEW n \in Nat
      PROVE  Find(fds', n) = IF n \in Fds \ Free' THEN Entry(n)' ELSE NoCtx
  <2>1. CASE n = f
    BY <1>1, <1>2, <1>3, <1>4, <1>5, <2>1 DEF Entry
  <2>2. CASE n # f /\ n \in Fds \ Free
    <3>1. file[n] # c
      BY <1>2, <2>2 DEF OwnerInv
    <3>2. file[n] \in nonBlock' <=> file[n] \in nonBlock
      BY <1>1, <3>1
    <3> QED BY <1>1, <1>4, <1>5, <2>2, <3>2 DEF Entry, TableInv
  <2>3. CASE n # f /\ n \notin Fds \ Free
    BY <1>4, <1>5, <2>3 DEF TableInv
  <2> QED BY <2>1, <2>2, <2>3
<1>7. \A g \in Fds \ Free' : flag'[g]
  BY <1>2, <1>3, <1>4, <1>5 DEF TableInv, TypeOK
<1> QED BY <1>4, <1>6, <1>7 DEF TableInv, Find

\* The table stays when no file is opened, closed or set.
LEMMA TableUntouched ==
  ASSUME TableInv, UNCHANGED <<fds, flag, file, nonBlock>>
  PROVE  TableInv'
BY DEF TableInv, Free, Entry, Find

\* Every step keeps the table: opening, closing and fcntl() change it, the rest leaves it alone.
LEMMA TableStep ==
  ASSUME Inv, [Next]_vars
  PROVE  TableInv'
<1> USE DEF Inv, Types
<1> SUFFICES ASSUME ~(UNCHANGED <<fds, flag, file, nonBlock>>)
             PROVE  TableInv'
  BY TableUntouched
<1> USE DEF fileVars, tableVars, userVars
<1>1. ASSUME NEW a \in Addrs, BindOne(a)
      PROVE  TableInv'
  <2>1. /\ Free # {} /\ Opens(<<binds, a>>) /\ nonBlock' = nonBlock
        /\ <<binds, a>> \in Sockets
    BY <1>1 DEF BindOne, Sockets
  <2>2. <<binds, a>> \notin nonBlock
    BY <2>1, Names DEF TypeOK
  <2> QED BY <2>1, <2>2, TableAfterOpening
<1>2. CASE BindReturns
  BY <1>2, TableAfterClosing DEF BindReturns, Destroy
<1>3. CASE StopTaskRuns
  BY <1>3, TableAfterClosing DEF StopTaskRuns, Destroy
<1>4. ASSUME NEW s \in Sockets, Accept(s)
      PROVE  TableInv'
  <2>1. PICK c \in Backlog(s) : Free # {} /\ Accepts(s, c)
    BY <1>4 DEF Accept
  <2>2. c \in Clients /\ client[c] = "queued"
    BY DEF Backlog
  <2>3. Opens(c) /\ nonBlock' = nonBlock
    BY <2>1 DEF Accepts, Opens, SetRecvTimeout
  <2>4. c \notin nonBlock
    BY <2>2 DEF OwnerInv
  <2> QED BY <2>1, <2>2, <2>3, <2>4, TableAfterOpening
<1>5. ASSUME NEW c \in Clients, HandleEnds(c)
      PROVE  TableInv'
  BY <1>5, TableAfterClosing DEF HandleEnds
<1>6. ASSUME NEW c \in Clients, NEW on \in BOOLEAN, SetsFlag(c, on)
      PROVE  TableInv'
  BY <1>6, TableAfterFlag
<1>7. CASE \/ \E addrs \in SUBSET Addrs : Bind(addrs)
           \/ Start \/ Stop \/ StopSchedules \/ Take
           \/ \E s \in Sockets : Test(s) \/ Reported(s)
           \/ \E c \in Clients : Connect(c) \/ Handle(c)
           \/ UNCHANGED vars
  BY <1>7 DEF Bind, Start, Stop, StopSchedules, Take, Test, Reported, Connect, Handle, vars
<1> QED BY <1>1, <1>2, <1>3, <1>4, <1>5, <1>6, <1>7 DEF Next, AcceptWorker

-----------------------------------------------------------------------------
(* Types, and the owners of the files                                      *)

\* A call of bind() that is running has a number, and a socket of it is a socket.
LEMMA SocketOfBind ==
  ASSUME Types, NEW a \in Addrs, BindOne(a)
  PROVE  <<binds, a>> \in Sockets
BY DEF Types, BindOne, Sockets

\* The types of the lists and of the counters, and those of the rest.
LEMMA TypesStep ==
  ASSUME Inv, [Next]_vars
  PROVE  Types'
<1> DEFINE Lists == /\ socks \in Seq(Sockets) /\ tasks \in Seq(Sockets \cup {StopTask})
                    /\ binds \in 0..MaxBinds /\ (control = "bind" => binds \in 1..MaxBinds)
           Rest  == /\ control \in {"idle", "bind", "stop", "left"} /\ bound \in BOOLEAN /\ isStop \in BOOLEAN
                    /\ asked \subseteq Addrs /\ todo \subseteq asked /\ refused \subseteq asked
           Files == /\ fdOf \in [Sockets -> Fds \cup {Closed}] /\ fdIn \in [Sockets -> Fds \cup {Closed}]
                    /\ file \in [Fds -> Sockets \cup Clients \cup {Nothing}]
                    /\ flag \in [Fds -> BOOLEAN] /\ nonBlock \subseteq Clients /\ flags \in 0..MaxFlags
           Works == /\ loop \in [Sockets -> {"none", "test", "accept", "held", "woken", "done"}]
                    /\ running \in Sockets \cup {StopTask, Nothing}
                    /\ client \in [Clients -> {"away", "queued", "accepted", "handled", "gone", "reset"}]
<1>1. Lists /\ Rest /\ Files /\ Works
  BY DEF Inv, Types, TypeOK
<1>2. SUFFICES Lists' /\ Rest' /\ Files' /\ Works'
  <2>1. ASSUME Lists' PROVE Members(socks') \subseteq Sockets /\ Members(tasks') \subseteq Sockets \cup {StopTask}
    BY <2>1, MembersTyped
  <2> QED BY <2>1 DEF Types, TypeOK
<1>3. /\ <<>> \in Seq(Sockets)
       /\ \A x \in Sockets : Append(socks, x) \in Seq(Sockets) /\ Append(tasks, x) \in Seq(Sockets \cup {StopTask})
       /\ Append(tasks, StopTask) \in Seq(Sockets \cup {StopTask})
  <2>1. \A x \in Sockets : Append(socks, x) \in Seq(Sockets)
    BY <1>1, MembersOfAppend
  <2>2. \A x \in Sockets \cup {StopTask} : Append(tasks, x) \in Seq(Sockets \cup {StopTask})
    BY <1>1, MembersOfAppend
  <2> QED BY <2>1, <2>2
<1> USE DEF controlVars, fileVars, tableVars, userVars, loopVars, At
<1>4. ASSUME NEW addrs \in SUBSET Addrs, Bind(addrs)
      PROVE  Lists' /\ Rest' /\ Files' /\ Works'
  BY <1>1, <1>4, BoundsAssumption DEF Bind
<1>5. ASSUME NEW a \in Addrs, BindOne(a)
      PROVE  Lists' /\ Rest' /\ Files' /\ Works'
  <2>1. <<binds, a>> \in Sockets
    BY <1>5, SocketOfBind DEF Inv
  <2>2. Lists'
    BY <1>1, <1>5, <1>3, <2>1 DEF BindOne
  <2>3. Rest' /\ Works'
    BY <1>1, <1>5 DEF BindOne
  <2>4. CASE UNCHANGED fileVars
    BY <1>1, <1>5, <2>2, <2>3, <2>4 DEF BindOne
  <2>5. CASE /\ Free # {} /\ Opens(<<binds, a>>) /\ UNCHANGED userVars
             /\ fdOf' = [fdOf EXCEPT ![<<binds, a>>] = Lowest]
    <3>1. Lowest \in Fds /\ FlagOfNew(fds, Lowest) \in BOOLEAN
      BY <2>5, LowestIsFree DEF FlagOfNew
    <3>2. Files'
      BY <1>1, <1>5, <2>1, <2>5, <3>1 DEF Opens, BindOne
    <3> QED BY <2>2, <2>3, <3>2
  <2> QED BY <1>5, <2>4, <2>5 DEF BindOne
<1>6. CASE BindReturns
  <2>1. Lists' /\ Rest'
    BY <1>1, <1>6, <1>3 DEF BindReturns
  <2>2. Files' /\ Works'
    BY <1>1, <1>6 DEF BindReturns, Destroy, Closes, Reset
  <2> QED BY <2>1, <2>2
<1>7. CASE Start
  <2>1. tasks \o socks \in Seq(Sockets \cup {StopTask})
    <3>1. socks \in Seq(Sockets \cup {StopTask})
      BY <1>1, ElementOfSeq, LenProperties, SeqDef
    <3> QED BY <1>1, <3>1
  <2> QED BY <1>1, <1>7, <2>1 DEF Start
<1>8. CASE Stop \/ StopSchedules
  <2>1. CASE Stop
    BY <1>1, <2>1 DEF Stop
  <2>2. CASE StopSchedules
    <3>1. /\ tasks' = Append(tasks, StopTask) /\ control' = "left"
          /\ UNCHANGED <<binds, asked, todo, refused, bound, failed, socks, isStop, fileVars, loopVars, running, client>>
      BY <2>2 DEF StopSchedules
    <3>2. Lists' /\ Rest'
      BY <1>1, <1>3, <3>1
    <3>3. Files' /\ Works'
      BY <1>1, <3>1
    <3> QED BY <3>2, <3>3
  <2> QED BY <1>8, <2>1, <2>2
<1>9. CASE Take
  <2>1. Tail(tasks) \in Seq(Sockets \cup {StopTask}) /\ Head(tasks) \in Sockets \cup {StopTask}
    BY <1>1, <1>9, MembersOfTail DEF Take
  <2> QED BY <1>1, <1>9, <2>1 DEF Take
<1>10. CASE StopTaskRuns
  <2>1. CASE \E s \in Members(socks) : fdOf[s] # Closed
    <3>1. PICK s \in Sockets : /\ (IF loop[s] = "held" THEN At(s, "woken") /\ tasks' = Append(tasks, s)
                                                         ELSE UNCHANGED <<loop, tasks>>)
                               /\ Destroy({s}) /\ Reset({s})
                               /\ UNCHANGED <<socks, running, controlVars, isStop, fdIn, target>>
      BY <1>1, <1>10, <2>1, FirstOpenIsThere, Zenon DEF StopTaskRuns
    <3>2. Lists' /\ Rest'
      BY <1>1, <1>3, <3>1
    <3>3. Works'
      BY <1>1, <3>1 DEF Reset
    <3>4. Files'
      BY <1>1, <3>1 DEF Destroy, Closes
    <3> QED BY <3>2, <3>3, <3>4
  <2>2. CASE ~(\E s \in Members(socks) : fdOf[s] # Closed)
    BY <1>1, <1>10, <2>2 DEF StopTaskRuns
  <2> QED BY <2>1, <2>2
<1>11. ASSUME NEW s \in Sockets, Test(s) \/ Reported(s)
       PROVE  Lists' /\ Rest' /\ Files' /\ Works'
  BY <1>1, <1>11, <1>3 DEF Test, Reported
<1>12. ASSUME NEW s \in Sockets, Accept(s)
       PROVE  Lists' /\ Rest' /\ Files' /\ Works'
  <2>1. CASE \E c \in Backlog(s) : Free # {} /\ Accepts(s, c)
    <3>1. PICK c \in Clients : Free # {} /\ Accepts(s, c)
      BY <2>1 DEF Backlog
    <3>2. Lowest \in Fds /\ FlagOfNew(fds, Lowest) \in BOOLEAN
      BY <3>1, LowestIsFree DEF FlagOfNew
    <3>3. Lists' /\ Rest'
      BY <1>1, <1>12 DEF Accept
    <3>4. Files' /\ Works'
      BY <1>1, <1>12, <3>1, <3>2 DEF Accept, Accepts
    <3> QED BY <3>3, <3>4
  <2>2. CASE /\ UNCHANGED <<client, fileVars>>
             /\ \/ At(s, "test") /\ UNCHANGED running
                \/ At(s, "held") /\ running' = Nothing
    BY <1>1, <1>12, <2>2 DEF Accept
  <2> QED BY <1>12, <2>1, <2>2 DEF Accept
<1>13. ASSUME NEW c \in Clients, Connect(c) \/ Handle(c)
       PROVE  Lists' /\ Rest' /\ Files' /\ Works'
  BY <1>1, <1>13 DEF Connect, Handle
<1>14. ASSUME NEW c \in Clients, HandleEnds(c)
       PROVE  Lists' /\ Rest' /\ Files' /\ Works'
  BY <1>1, <1>14 DEF HandleEnds, Closes
<1>15. ASSUME NEW c \in Clients, NEW on \in BOOLEAN, SetsFlag(c, on)
       PROVE  Lists' /\ Rest' /\ Files' /\ Works'
  <2>1. Lists' /\ Rest' /\ Works'
    BY <1>1, <1>15 DEF SetsFlag
  <2>2. \A f \in Fds : file[f] = c => FlagSetBy(fds, f, on) \in BOOLEAN
    <3>1. ASSUME NEW f \in Fds, file[f] = c PROVE Find(fds, f) \in {NewCtx, AskedCtx}
      BY <3>1, Names DEF Inv, TableInv, Free, Entry
    <3> QED BY <3>1, Entries DEF FlagSetBy
  <2>3. Files'
    BY <1>1, <1>15, <2>2, BoundsAssumption DEF SetsFlag
  <2> QED BY <2>1, <2>3
<1>16. CASE UNCHANGED vars
  BY <1>1, <1>16 DEF vars
<1> QED BY <1>4, <1>5, <1>6, <1>7, <1>8, <1>9, <1>10, <1>11, <1>12, <1>13, <1>14, <1>15, <1>16 DEF Next, AcceptWorker

\* Owners after close() of what some sockets have.
LEMMA OwnersAfterDestroy ==
  ASSUME TypeOK, OwnerInv, NEW gone \in SUBSET Sockets, Destroy(gone), Reset(gone)
  PROVE  /\ \A s \in Sockets : fdOf'[s] = IF s \in gone THEN Closed ELSE fdOf[s]
         /\ \A s \in Sockets : fdOf'[s] # Closed => file'[fdOf'[s]] = s
         /\ \A f \in Fds : file'[f] \in Sockets => fdOf'[file'[f]] = f
         /\ \A f \in Fds : file'[f] \in Clients => client'[file'[f]] \in {"accepted", "handled"}
         /\ \A f, g \in Fds : file'[f] \in Clients /\ file'[f] = file'[g] => f = g
         /\ \A c \in nonBlock' : client'[c] \in {"handled", "gone"}
<1> DEFINE numbers == {fdOf[s] : s \in gone} \ {Closed}
<1>1. /\ \A s \in Sockets : fdOf'[s] = IF s \in gone THEN Closed ELSE fdOf[s]
      /\ \A f \in Fds : file'[f] = IF f \in numbers THEN Nothing ELSE file[f]
      /\ nonBlock' = nonBlock
  BY DEF Destroy, Closes, userVars
<1>2. \A c \in Clients : client[c] # "queued" => client'[c] = client[c]
  BY DEF Reset
<1>3. ASSUME NEW s \in Sockets, fdOf'[s] # Closed
      PROVE  file'[fdOf'[s]] = s
  <2>1. fdOf'[s] = fdOf[s] /\ s \notin gone /\ fdOf[s] \in Fds /\ file[fdOf[s]] = s
    BY <1>1, <1>3 DEF TypeOK, OwnerInv
  <2>2. fdOf[s] \notin numbers
    <3>1. SUFFICES ASSUME NEW r \in gone, fdOf[r] = fdOf[s] PROVE FALSE
      OBVIOUS
    <3>2. file[fdOf[r]] = r
      BY <2>1, <3>1, Names DEF OwnerInv
    <3> QED BY <2>1, <3>1, <3>2
  <2> QED BY <1>1, <2>1, <2>2
<1>4. ASSUME NEW f \in Fds, file'[f] \in Sockets
      PROVE  fdOf'[file'[f]] = f
  <2>1. f \notin numbers /\ file'[f] = file[f] /\ fdOf[file[f]] = f
    BY <1>1, <1>4, Names DEF OwnerInv
  <2>2. file[f] \notin gone
    BY <2>1, Names
  <2> QED BY <1>1, <1>4, <2>1, <2>2
<1>5. \A f \in Fds : file'[f] \in Clients => file'[f] = file[f]
  BY <1>1, Names
<1>6. \A f \in Fds : file'[f] \in Clients => client'[file'[f]] \in {"accepted", "handled"}
  BY <1>2, <1>5 DEF OwnerInv
<1>7. \A f, g \in Fds : file'[f] \in Clients /\ file'[f] = file'[g] => f = g
  BY <1>5 DEF OwnerInv
<1>8. \A c \in nonBlock' : client'[c] \in {"handled", "gone"}
  BY <1>1, <1>2 DEF OwnerInv, TypeOK
<1> QED BY <1>1, <1>3, <1>4, <1>6, <1>7, <1>8

\* Every step keeps sockets, clients and numbers in agreement.
LEMMA OwnersStep ==
  ASSUME Inv, [Next]_vars
  PROVE  OwnerInv'
<1>1. TypeOK /\ OwnerInv /\ socks \in Seq(Sockets)
  BY DEF Inv, Types
<1> USE DEF fileVars, tableVars, userVars
<1>2. ASSUME NEW a \in Addrs, BindOne(a)
      PROVE  OwnerInv'
  <2> DEFINE s == <<binds, a>>
  <2>1. s \in Sockets
    BY <1>2, SocketOfBind DEF Inv
  <2>2. CASE UNCHANGED <<fileVars, socks>>
    BY <1>1, <1>2, <2>2 DEF BindOne, OwnerInv
  <2>3. CASE /\ Free # {} /\ ~InUse(a) /\ Opens(s)
             /\ fdOf' = [fdOf EXCEPT ![s] = Lowest]
             /\ socks' = Append(socks, s) /\ UNCHANGED <<nonBlock, client>>
    <3>1. Lowest \in Fds /\ file[Lowest] = Nothing /\ fdOf[s] = Closed
      BY <2>1, <2>3, LowestIsFree DEF InUse
    <3>2. /\ \A r \in Sockets : fdOf'[r] = IF r = s THEN Lowest ELSE fdOf[r]
          /\ \A f \in Fds : file'[f] = IF f = Lowest THEN s ELSE file[f]
          /\ Members(socks') = Members(socks) \cup {s}
          /\ nonBlock' = nonBlock /\ client' = client
      <4> HIDE DEF s
      <4>1. fdOf' = [fdOf EXCEPT ![s] = Lowest] /\ file' = [file EXCEPT ![Lowest] = s] /\ socks' = Append(socks, s)
        BY <2>3 DEF Opens
      <4>2. Members(socks') = Members(socks) \cup {s}
        BY <1>1, <2>1, <4>1, MembersOfAppend
      <4> QED BY <1>1, <2>1, <2>3, <3>1, <4>1, <4>2 DEF TypeOK
    <3> HIDE DEF s
    <3>3. \A r \in Sockets : fdOf'[r] # Closed => r \in Members(socks') /\ file'[fdOf'[r]] = r
      <4> TAKE r \in Sockets
      <4>1. CASE r = s
        BY <3>1, <3>2, <4>1
      <4>2. CASE r # s /\ fdOf[r] # Closed
        <5>1. fdOf'[r] = fdOf[r] /\ fdOf[r] \in Fds /\ file[fdOf[r]] = r /\ r \in Members(socks)
          BY <1>1, <3>2, <4>2 DEF OwnerInv, TypeOK
        <5>2. fdOf[r] # Lowest
          BY <3>1, <5>1, Names
        <5> QED BY <3>2, <5>1, <5>2
      <4>3. CASE r # s /\ fdOf[r] = Closed
        BY <3>2, <4>3
      <4> QED BY <4>1, <4>2, <4>3
    <3>4. \A f \in Fds : file'[f] \in Sockets => fdOf'[file'[f]] = f
      BY <1>1, <2>1, <3>1, <3>2, Names DEF OwnerInv
    <3>5. \A f \in Fds : file'[f] \in Clients => f # Lowest /\ file'[f] = file[f]
      BY <2>1, <3>2, Names
    <3> QED BY <1>1, <2>1, <3>1, <3>2, <3>3, <3>4, <3>5, Names DEF OwnerInv
  <2> QED BY <1>2, <2>2, <2>3 DEF BindOne
<1>3. CASE BindReturns
  <2>1. CASE refused = {}
    BY <1>1, <1>3, <2>1 DEF BindReturns, OwnerInv
  <2>2. CASE refused # {}
    <3>1. Destroy(Members(socks)) /\ Reset(Members(socks)) /\ Members(socks) \in SUBSET Sockets
      BY <1>1, <1>3, <2>2, MembersTyped DEF BindReturns
    <3>2. \A s \in Sockets : fdOf'[s] = Closed
      BY <1>1, <3>1, OwnersAfterDestroy DEF OwnerInv
    <3> QED BY <1>1, <3>1, <3>2, OwnersAfterDestroy DEF OwnerInv
  <2> QED BY <2>1, <2>2
<1>4. CASE StopTaskRuns
  <2>1. CASE \E s \in Members(socks) : fdOf[s] # Closed
    <3>1. PICK s \in Sockets : Destroy({s}) /\ Reset({s}) /\ socks' = socks
      BY <1>1, <1>4, <2>1, FirstOpenIsThere, Zenon DEF StopTaskRuns
    <3>2. {s} \in SUBSET Sockets
      OBVIOUS
    <3>3. \A r \in Sockets : fdOf'[r] # Closed => fdOf[r] # Closed
      BY <1>1, <3>1, <3>2, OwnersAfterDestroy
    <3> QED BY <1>1, <3>1, <3>2, <3>3, OwnersAfterDestroy DEF OwnerInv
  <2>2. CASE \A s \in Members(socks) : fdOf[s] = Closed
    BY <1>1, <1>4, <2>2 DEF StopTaskRuns, OwnerInv
  <2> QED BY <2>1, <2>2
<1>5. ASSUME NEW s \in Sockets, Accept(s)
      PROVE  OwnerInv'
  <2>1. CASE UNCHANGED <<client, fileVars>>
    BY <1>1, <1>5, <2>1 DEF Accept, OwnerInv
  <2>2. CASE \E c \in Backlog(s) : Free # {} /\ Accepts(s, c)
    <3>1. PICK c \in Backlog(s) : Free # {} /\ Accepts(s, c)
      BY <2>2
    <3>2. c \in Clients /\ client[c] = "queued"
      BY DEF Backlog
    <3>3. Lowest \in Fds /\ file[Lowest] = Nothing
      BY <3>1, LowestIsFree
    <3>4. /\ fdOf' = fdOf /\ nonBlock' = nonBlock /\ socks' = socks
          /\ \A f \in Fds : file'[f] = IF f = Lowest THEN c ELSE file[f]
          /\ \A d \in Clients : client'[d] = IF d = c THEN "accepted" ELSE client[d]
      BY <1>1, <1>5, <3>1, <3>2, <3>3 DEF Accept, Accepts, TypeOK
    <3>5. \A r \in Sockets : fdOf[r] # Closed => fdOf[r] # Lowest
      BY <1>1, <3>3, Names DEF OwnerInv
    <3>6. \A f \in Fds : file[f] # c
      BY <1>1, <3>2 DEF OwnerInv
    <3>7. /\ \A r \in Sockets : fdOf'[r] # Closed => r \in Members(socks')
          /\ \A r \in Sockets : fdOf'[r] # Closed => file'[fdOf'[r]] = r
      BY <1>1, <3>4, <3>5 DEF OwnerInv, TypeOK
    <3>8. \A f \in Fds : file'[f] \in Sockets => fdOf'[file'[f]] = f
      BY <1>1, <3>2, <3>4, Names DEF OwnerInv
    <3>9. \A f \in Fds : file'[f] \in Clients => client'[file'[f]] \in {"accepted", "handled"}
      BY <1>1, <3>2, <3>4, <3>6 DEF OwnerInv
    <3>10. \A f, g \in Fds : file'[f] \in Clients /\ file'[f] = file'[g] => f = g
      BY <1>1, <3>2, <3>4, <3>6 DEF OwnerInv
    <3>11. \A d \in nonBlock' : client'[d] \in {"handled", "gone"}
      BY <1>1, <3>2, <3>4 DEF OwnerInv, TypeOK
    <3> QED BY <3>7, <3>8, <3>9, <3>10, <3>11 DEF OwnerInv
  <2> QED BY <1>5, <2>1, <2>2 DEF Accept
<1>6. ASSUME NEW c \in Clients, HandleEnds(c)
      PROVE  OwnerInv'
  <2>1. /\ fdOf' = fdOf /\ nonBlock' = nonBlock /\ socks' = socks
        /\ \A f \in Fds : file'[f] = IF file[f] = c THEN Nothing ELSE file[f]
        /\ client[c] = "handled"
        /\ \A d \in Clients : client'[d] = IF d = c THEN "gone" ELSE client[d]
    BY <1>1, <1>6 DEF HandleEnds, Closes, TypeOK
  <2>2. ASSUME NEW s \in Sockets, fdOf[s] # Closed PROVE file'[fdOf[s]] = s
    <3>1. fdOf[s] \in Fds /\ file[fdOf[s]] = s /\ s # c
      BY <1>1, <2>2, Names DEF OwnerInv, TypeOK
    <3> QED BY <2>1, <3>1
  <2>3. \A f \in Fds : file'[f] # Nothing => file'[f] = file[f] /\ file[f] # c
    BY <2>1
  <2>4. \A d \in nonBlock' : client'[d] \in {"handled", "gone"}
    BY <1>1, <2>1 DEF OwnerInv, TypeOK
  <2> QED BY <1>1, <2>1, <2>2, <2>3, <2>4, Names DEF OwnerInv
<1>7. ASSUME NEW c \in Clients, NEW on \in BOOLEAN, SetsFlag(c, on)
      PROVE  OwnerInv'
  BY <1>1, <1>7 DEF SetsFlag, OwnerInv
<1>8. ASSUME NEW c \in Clients, Connect(c) \/ Handle(c)
      PROVE  OwnerInv'
  <2>1. /\ UNCHANGED <<fdOf, file, nonBlock, socks>>
        /\ \A d \in Clients : d # c => client'[d] = client[d]
        /\ \/ client[c] = "away" /\ client'[c] = "queued"
           \/ client[c] = "accepted" /\ client'[c] = "handled"
    BY <1>1, <1>8 DEF Connect, Handle, TypeOK
  <2> QED BY <1>1, <2>1 DEF OwnerInv, TypeOK
<1>9. CASE \/ \E addrs \in SUBSET Addrs : Bind(addrs)
           \/ Start \/ Stop \/ StopSchedules \/ Take
           \/ \E s \in Sockets : Test(s) \/ Reported(s)
           \/ UNCHANGED vars
  <2>1. UNCHANGED <<fdOf, file, nonBlock, socks, client>>
    BY <1>9 DEF Bind, Start, Stop, StopSchedules, Take, Test, Reported, vars
  <2> QED BY <1>1, <2>1 DEF OwnerInv
<1> QED BY <1>2, <1>3, <1>4, <1>5, <1>6, <1>7, <1>8, <1>9 DEF Next, AcceptWorker

-----------------------------------------------------------------------------
(* What bind() has done stays done                                         *)

\* No task of stop() before stop() has scheduled it, and so nobody but bind() itself closes what it has bound.
LEMMA NoStopTaskStep ==
  ASSUME Inv, [Next]_vars, control' # "left"
  PROVE  StopTask \notin Members(tasks') /\ running' # StopTask
<1>1. /\ socks \in Seq(Sockets) /\ tasks \in Seq(Sockets \cup {StopTask})
      /\ control = "left" => control' = "left"
  BY DEF Inv, Types, Next, AcceptWorker, Bind, BindOne, BindReturns, Start, Stop, StopSchedules, Take, StopTaskRuns,
         Test, Accept, Reported, Connect, Handle, HandleEnds, SetsFlag, vars, controlVars
<1>2. StopTask \notin Members(tasks) /\ running # StopTask
  BY <1>1 DEF Inv, BindInv
<1>3. CASE Start
  <2>1. socks \in Seq(Sockets \cup {StopTask})
    BY <1>1, ElementOfSeq, LenProperties, SeqDef
  <2>2. Members(tasks \o socks) \subseteq Members(tasks) \cup Members(socks) /\ StopTask \notin Members(socks)
    BY <1>1, <2>1, MembersOfConcat, MembersTyped, Names
  <2> QED BY <1>2, <1>3, <2>2 DEF Start
<1>4. CASE Take
  <2>1. running' = Head(tasks) /\ tasks' = Tail(tasks) /\ tasks # <<>>
    BY <1>4 DEF Take
  <2> QED BY <1>1, <1>2, <2>1, MembersOfTail
<1>5. ASSUME NEW s \in Sockets, Test(s) \/ Accept(s)
      PROVE  StopTask \notin Members(tasks') /\ running' # StopTask
  BY <1>2, <1>5, Names DEF Test, Accept, Accepts
<1>6. ASSUME NEW s \in Sockets, Reported(s)
      PROVE  StopTask \notin Members(tasks') /\ running' # StopTask
  BY <1>1, <1>2, <1>6, MembersOfAppend, Names DEF Reported
<1>7. CASE \/ \E addrs \in SUBSET Addrs : Bind(addrs)
           \/ \E a \in Addrs : BindOne(a)
           \/ BindReturns \/ Stop
           \/ \E c \in Clients : Connect(c) \/ Handle(c) \/ HandleEnds(c) \/ \E on \in BOOLEAN : SetsFlag(c, on)
           \/ UNCHANGED vars
  BY <1>2, <1>7 DEF Bind, BindOne, BindReturns, Stop, Connect, Handle, HandleEnds, SetsFlag, vars
<1>8. CASE StopSchedules \/ StopTaskRuns
  BY <1>2, <1>8 DEF StopSchedules, StopTaskRuns
<1> QED BY <1>3, <1>4, <1>5, <1>6, <1>7, <1>8 DEF Next, AcceptWorker

\* Every step keeps what bind() has bound, until bind() fails or stop() is called.
LEMMA BindStep ==
  ASSUME Inv, [Next]_vars
  PROVE  BindInv'
<1>1. TypeOK /\ OwnerInv /\ BindInv /\ socks \in Seq(Sockets)
  BY DEF Inv, Types
<1>2. (control # "left" => StopTask \notin Members(tasks) /\ running # StopTask)'
  BY NoStopTaskStep
<1> DEFINE Bound(a) == \E s \in Members(socks) : s[2] = a /\ fdOf[s] # Closed
           Kept     == control = "bind" => \A a \in asked \ (todo \cup refused) : Bound(a)
<1>3. Kept /\ BindAllOrNothing
  BY <1>1 DEF BindInv
<1>4. SUFFICES Kept' /\ BindAllOrNothing'
  BY <1>2 DEF BindInv
<1> USE DEF controlVars, fileVars
<1>5. ASSUME NEW addrs \in SUBSET Addrs, Bind(addrs)
      PROVE  Kept' /\ BindAllOrNothing'
  BY <1>5 DEF Bind, BindAllOrNothing
<1>6. ASSUME NEW a \in Addrs, BindOne(a)
      PROVE  Kept' /\ BindAllOrNothing'
  <2>1. control' = "bind" /\ control = "bind" /\ asked' = asked /\ todo' = todo \ {a}
    BY <1>6 DEF BindOne
  <2>2. CASE refused' = refused \cup {a} /\ UNCHANGED <<socks, fileVars>>
    BY <1>3, <2>1, <2>2 DEF BindAllOrNothing
  <2>3. CASE /\ Free # {} /\ refused' = refused
             /\ fdOf' = [fdOf EXCEPT ![<<binds, a>>] = Lowest]
             /\ socks' = Append(socks, <<binds, a>>)
    <3> DEFINE s == <<binds, a>>
    <3>1. s \in Sockets /\ s[2] = a /\ Lowest # Closed
      BY <1>6, <2>3, SocketOfBind, LowestIsFree DEF Inv
    <3> HIDE DEF s
    <3>2. /\ \A r \in Sockets : fdOf'[r] = IF r = s THEN Lowest ELSE fdOf[r]
          /\ Members(socks') = Members(socks) \cup {s}
          /\ Members(socks) \subseteq Sockets
      <4>1. fdOf' = [fdOf EXCEPT ![s] = Lowest] /\ socks' = Append(socks, s)
        BY <2>3 DEF s
      <4>2. Members(socks') = Members(socks) \cup {s} /\ Members(socks) \subseteq Sockets
        BY <1>1, <3>1, <4>1, MembersOfAppend, MembersTyped
      <4> QED BY <1>1, <4>1, <4>2 DEF TypeOK
    <3>3. Bound(a)' /\ \A b : Bound(b) => Bound(b)'
      BY <3>1, <3>2
    <3> QED BY <1>3, <2>1, <2>3, <3>3 DEF BindAllOrNothing
  <2> QED BY <1>6, <2>2, <2>3 DEF BindOne
<1>7. CASE BindReturns
  <2>1. CASE refused # {}
    <3>1. /\ Destroy(Members(socks)) /\ Reset(Members(socks)) /\ Members(socks) \in SUBSET Sockets
          /\ socks' = <<>> /\ control' = "idle" /\ bound' = FALSE
      BY <1>1, <1>7, <2>1, MembersTyped DEF BindReturns
    <3>2. \A s \in Sockets : fdOf'[s] = Closed
      BY <1>1, <3>1, OwnersAfterDestroy DEF OwnerInv
    <3> QED BY <3>1, <3>2 DEF BindAllOrNothing
  <2>2. CASE refused = {}
    <3>1. /\ UNCHANGED <<socks, fdOf, asked>> /\ control' = "idle" /\ bound' = TRUE
          /\ control = "bind" /\ todo = {}
      BY <1>7, <2>2 DEF BindReturns
    <3> QED BY <1>3, <2>2, <3>1 DEF BindAllOrNothing
  <2> QED BY <2>1, <2>2
<1>8. CASE Start
  BY <1>8 DEF Start, BindAllOrNothing
<1>9. CASE Stop \/ StopSchedules
  BY <1>9 DEF Stop, StopSchedules, BindAllOrNothing
<1>10. CASE StopTaskRuns
  BY <1>1, <1>10 DEF StopTaskRuns, BindInv, BindAllOrNothing
<1>11. CASE \/ Take
            \/ \E s \in Sockets : Test(s) \/ Accept(s) \/ Reported(s)
            \/ \E c \in Clients : Connect(c) \/ Handle(c) \/ HandleEnds(c) \/ \E on \in BOOLEAN : SetsFlag(c, on)
            \/ UNCHANGED vars
  <2>1. UNCHANGED <<controlVars, socks, isStop, fdOf>>
    BY <1>11 DEF Take, Test, Accept, Accepts, Reported, Connect, Handle, HandleEnds, SetsFlag, vars
  <2> QED BY <1>3, <2>1 DEF BindAllOrNothing
<1> QED BY <1>5, <1>6, <1>7, <1>8, <1>9, <1>10, <1>11 DEF Next, AcceptWorker

-----------------------------------------------------------------------------
(* The theorems                                                            *)

\* A server that has done nothing has no file, and its table is empty.
LEMMA InitInv == Init => Inv
<1> SUFFICES ASSUME Init PROVE Inv
  OBVIOUS
<1> USE DEF Init
<1>1. Types
  <2>1. Members(socks) = {} /\ Members(tasks) = {}
    BY DEF Members
  <2>2. socks \in Seq(Sockets) /\ tasks \in Seq(Sockets \cup {StopTask})
    OBVIOUS
  <2>3. /\ binds \in 0..MaxBinds /\ flags \in 0..MaxFlags /\ control = "idle"
    BY BoundsAssumption
  <2>4. TypeOK
    BY <2>1, <2>3 DEF TypeOK
  <2> QED BY <2>2, <2>3, <2>4 DEF Types
<1>2. TableInv
  <2>1. InitialSize \in Nat /\ InitialSize >= 2
    BY InitialSizeAssumption
  <2>2. NewTable \in [1..InitialSize -> Ctx] /\ \A i \in 1..InitialSize : NewTable[i] = NoCtx
    BY Entries DEF NewTable
  <2>3. NewTable \in Seq(Ctx) /\ Len(NewTable) = InitialSize
    BY <2>1, <2>2, LenProperties, SeqDef
  <2>4. \A n \in Nat : Find(NewTable, n) = NoCtx
    BY <2>1, <2>2, <2>3 DEF Find
  <2>5. Fds \ Free = {}
    BY DEF Free
  <2> QED BY <2>1, <2>3, <2>4, <2>5 DEF TableInv
<1>3. OwnerInv
  BY Names DEF OwnerInv
<1>4. BindInv
  BY Names DEF BindInv, BindAllOrNothing, Members
<1> QED BY <1>1, <1>2, <1>3, <1>4 DEF Inv

\* The inductive invariant of the server, for any addresses, clients and numbers of files and calls.
THEOREM Invariance == Spec => []Inv
<1>1. Inv /\ [Next]_vars => Inv'
  BY TableStep, TypesStep, OwnersStep, BindStep DEF Inv
<1> QED BY InitInv, <1>1, PTL DEF Spec

\* The variables keep their types: loops, tasks and files are where TcpServer, Socket and FdMgr say they can be.
THEOREM TypeCorrect == Spec => []TypeOK
<1>1. Inv => TypeOK
  BY DEF Inv, Types
<1> QED BY Invariance, <1>1, PTL

\* Every open number has one owner that will close it, and FdMgr has an entry for the open numbers and no other.
THEOREM FilesHaveOneOwner == Spec => []EveryFileOwned
<1>1. ASSUME Inv PROVE EveryFileOwned
  <2>1. TypeOK /\ TableInv /\ OwnerInv
    BY <1>1 DEF Inv, Types
  <2>2. Len(fds) \in Nat
    BY <2>1 DEF TableInv
  <2>3. {n \in 0..(Len(fds) - 1) : Find(fds, n) # NoCtx} = Fds \ Free
    <3>1. ASSUME NEW n \in Fds \ Free PROVE n \in 0..(Len(fds) - 1) /\ Find(fds, n) # NoCtx
      <4>1. n \in Nat /\ Find(fds, n) # NoCtx
        BY <2>1, Names, Entries DEF TableInv, Entry
      <4> QED BY <2>2, <4>1 DEF Find
    <3>2. ASSUME NEW n \in 0..(Len(fds) - 1), Find(fds, n) # NoCtx PROVE n \in Fds \ Free
      BY <2>1, <2>2, <3>2 DEF TableInv
    <3> QED BY <3>1, <3>2
  <2>4. \A f \in Fds \ Free : file[f] \in Sockets \/ file[f] \in Clients
    BY <2>1 DEF TypeOK, Free
  <2>5. \A f \in Fds \ Free : file[f] \in Sockets => file[f] \in Members(socks) /\ fdOf[file[f]] = f
    BY <2>1, Names DEF OwnerInv
  <2>6. ASSUME NEW f \in Fds \ Free, NEW g \in Fds \ Free, file[f] = file[g] PROVE f = g
    <3>1. CASE file[f] \in Sockets
      BY <2>5, <2>6, <3>1
    <3>2. CASE file[f] \in Clients
      BY <2>1, <2>6, <3>2 DEF OwnerInv
    <3> QED BY <2>4, <3>1, <3>2
  <2> QED BY <2>1, <2>3, <2>4, <2>5, <2>6 DEF EveryFileOwned, OwnerInv
<1> QED BY Invariance, <1>1, PTL

\* No open file blocks the worker that reads it, and fcntl(F_GETFL) tells each client's handler its own setting.
THEOREM FilesNeverBlock == Spec => []NonBlockingUnderneath
<1>1. ASSUME Inv PROVE NonBlockingUnderneath
  <2>1. SUFFICES ASSUME NEW f \in Fds \ Free
                 PROVE  flag[f] /\ (file[f] \in Clients => GetFl(fds, f, flag[f]) = (file[f] \in nonBlock))
    BY DEF NonBlockingUnderneath
  <2>2. f \in Nat /\ flag[f] /\ Find(fds, f) = Entry(f)
    BY <1>1, Names DEF Inv, TableInv
  <2>3. /\ NewCtx.usrNonBlock = FALSE /\ AskedCtx.usrNonBlock = TRUE
        /\ NewCtx.socket = TRUE /\ AskedCtx.socket = TRUE
    BY DEF AskedCtx, NewCtx
  <2>4. CASE file[f] \in nonBlock
    <3>1. Find(fds, f) = AskedCtx /\ (file[f] \in nonBlock) = TRUE
      BY <2>2, <2>4 DEF Entry
    <3> QED BY <2>2, <2>3, <3>1 DEF GetFl
  <2>5. CASE file[f] \notin nonBlock
    <3>1. Find(fds, f) = NewCtx /\ (file[f] \in nonBlock) = FALSE
      BY <2>2, <2>5 DEF Entry
    <3> QED BY <2>2, <2>3, <3>1 DEF GetFl
  <2> QED BY <2>2, <2>4, <2>5
<1> QED BY Invariance, <1>1, PTL

\* bind() has bound all its addresses when it says so, and has left no socket open when it does not.
THEOREM BindKeepsItsWord == Spec => []BindAllOrNothing
<1>1. Inv => BindAllOrNothing
  BY DEF Inv, BindInv
<1> QED BY Invariance, <1>1, PTL
==============================================================================
