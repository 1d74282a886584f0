------------------------------ MODULE ByteArray ------------------------------
(***************************************************************************)
(* The serialisation buffer of src/tw/bytearray.{h,cc}: a chain of nodes   *)
(* of m_baseSize bytes, a position, and a cursor m_cur that should name    *)
(* the node of the position.                                               *)
(*                                                                         *)
(* Every node has the same size, so the o-th byte of the n-th node has the *)
(* address (n - 1) * BaseSize + o.  The loops of write(), read() and       *)
(* get*Buffers() start at the cursor's node, at offset                     *)
(* m_position % m_baseSize, and follow `next': they touch the addresses    *)
(* from Here onwards and load m_cur->size through a null pointer when the  *)
(* chain ends first, which stops the process.  The typed calls are writes  *)
(* and reads of a few bytes; the client here writes varints.               *)
(***************************************************************************)
EXTENDS Integers, Sequences, FiniteSets

CONSTANTS BaseSize,    \* m_baseSize
          Junk,        \* what new char[] holds
          MaxCapacity, \* bound: no call that could grow the chain beyond this is made
          MaxCall,     \* bound: the longest write or read
          Group,       \* 2^7: how many values a byte of a varint carries
          Width,       \* 2^32: the values of uint32_t are 0..Width - 1
          Rounds       \* how often the loop of readUint32() runs at most: 5

ASSUME BaseSizeAssumption == BaseSize \in Nat \ {0}
ASSUME BoundsAssumption == MaxCapacity \in Nat \ {0} /\ BaseSize <= MaxCapacity /\ MaxCall \in Nat
ASSUME VarintAssumption == Group \in Nat \ {0, 1} /\ Width \in Nat /\ Rounds \in Nat
ASSUME JunkAssumption == Junk \notin 0..(2 * Group - 1)

VARIABLES position,  \* m_position
          size,      \* m_size
          capacity,  \* m_capacity
          nodes,     \* the length of the chain that starts at m_root
          cur,       \* m_cur: the number of a node, 0 for nullptr
          mem,       \* the byte at each address
          written,   \* what the client last wrote at each position, Junk if nothing
          failed,    \* the process was stopped by a null pointer
          request    \* the call that did so: the bytes it had room for and those it asked for

vars == <<position, size, capacity, nodes, cur, mem, written, failed, request>>

Positions == 0..(MaxCapacity - 1)
Bytes     == (0..(2 * Group - 1)) \cup {Junk}

\* getReadSize(): m_size - m_position, a size_t.
ReadSize == size - position

\* Types; getReadSize() does not wrap below zero.
TypeOK ==
  /\ position \in 0..MaxCapacity /\ size \in 0..MaxCapacity /\ capacity \in 0..MaxCapacity
  /\ nodes \in 1..MaxCapacity /\ cur \in 0..MaxCapacity
  /\ mem \in [Positions -> Bytes] /\ written \in [Positions -> Bytes]
  /\ request \in [had : 0..MaxCapacity, asked : 0..MaxCall]
  /\ ReadSize \in 0..MaxCapacity
  /\ failed \in BOOLEAN

Init ==
  /\ position = 0 /\ size = 0 /\ capacity = BaseSize
  /\ nodes = 1 /\ cur = 1
  /\ mem = [a \in Positions |-> Junk] /\ written = [p \in Positions |-> Junk]
  /\ request = [had |-> 0, asked |-> 0]
  /\ failed = FALSE

(***************************************************************************)
(* Addresses: where the cursor c points, whether the next k bytes from     *)
(* there are in a chain of n nodes, and the node of an address.            *)
(***************************************************************************)
Here(c)       == (c - 1) * BaseSize + (position % BaseSize)
Fits(c, n, k) == c # 0 /\ Here(c) + k <= n * BaseSize
NodeOf(n, a)  == IF a < n * BaseSize THEN (a \div BaseSize) + 1 ELSE 0

\* The array m with buf stored from s on.
Store(m, s, buf) == [a \in Positions |-> IF a - s \in 0..(Len(buf) - 1) THEN buf[a - s + 1] ELSE m[a]]

\* Mutant: the rest of the division gets no node.
NewNodesWhole(old, more) == (more - old) \div BaseSize

\* addCapacity(): the rest of the division is compared with old_cap, not with 0.
NewNodes(old, more) ==
  ((more - old) \div BaseSize) + (IF (more - old) % BaseSize > old THEN 1 ELSE 0)

\* Mutant: the cursor is left alone when the position was at the end of the chain.
GrownNoCursor(more) ==
  LET old   == capacity - position
      count == IF old >= more THEN 0 ELSE NewNodes(old, more)
  IN [nodes |-> nodes + count, capacity |-> capacity + count * BaseSize, cur |-> IF cur = 0 THEN nodes ELSE cur]

Grown(more) ==
  LET old   == capacity - position
      count == IF old >= more THEN 0 ELSE NewNodes(old, more)
  IN [nodes    |-> nodes + count,
      capacity |-> capacity + count * BaseSize,
      cur      |-> CASE old >= more -> cur
                     [] old < more /\ old > 0 -> cur
                     [] OTHER -> IF count = 0 THEN 0 ELSE nodes + 1]

Extend(g, more) ==
  /\ g.capacity <= MaxCapacity
  /\ nodes' = g.nodes /\ capacity' = g.capacity
  /\ failed' = ~Fits(g.cur, g.nodes, more)
  /\ request' = IF failed' THEN [had |-> capacity - position, asked |-> more] ELSE request

Write(buf) ==
  LET g == Grown(Len(buf))
  IN /\ Extend(g, Len(buf))
     /\ IF Fits(g.cur, g.nodes, Len(buf))
        THEN /\ mem' = Store(mem, Here(g.cur), buf)
             /\ written' = Store(written, position, buf)
             /\ position' = position + Len(buf)
             /\ size' = IF position' > size THEN position' ELSE size
             /\ cur' = NodeOf(g.nodes, Here(g.cur) + Len(buf))
        ELSE UNCHANGED <<mem, written, position, size, cur>>

\* getWriteBuffers() for `asked' bytes, of which the kernel fills buf.
GetWriteBuffers(asked, buf) ==
  LET g == Grown(asked)
  IN /\ Extend(g, asked)
     /\ cur' = g.cur
     /\ IF Fits(g.cur, g.nodes, asked)
        THEN /\ mem' = Store(mem, Here(g.cur), buf)
             /\ written' = Store(written, position, buf)
        ELSE UNCHANGED <<mem, written>>
     /\ UNCHANGED <<position, size>>

\* Mutant: every node is read from its start.
ReadBytesFromStart(k) == [i \in 1..k |-> mem[(cur - 1) * BaseSize + i - 1]]

\* The bytes that read() copies out, and getReadBuffers() points at, for k bytes.
ReadBytes(k) == [i \in 1..k |-> mem[Here(cur) + i - 1]]

\* read() of what is there; asking for more throws and changes nothing.
Read(k) ==
  /\ k \in 1..ReadSize
  /\ failed' = ~Fits(cur, nodes, k)
  /\ IF failed' THEN UNCHANGED <<position, cur>>
                ELSE position' = position + k /\ cur' = NodeOf(nodes, Here(cur) + k)
  /\ UNCHANGED <<size, capacity, nodes, mem, written, request>>

\* read() of no byte loads m_cur->size all the same: undefined behaviour at the end of the chain.
ReadNothing ==
  /\ cur = 0
  /\ failed' \in BOOLEAN
  /\ UNCHANGED <<position, size, capacity, nodes, cur, mem, written, request>>

SetPosition(v) ==
  /\ v <= capacity
  /\ position' = v
  /\ size' = IF v > size THEN v ELSE size
  /\ cur' = NodeOf(nodes, v)
  /\ UNCHANGED <<capacity, nodes, mem, written, request, failed>>

Clear ==
  /\ position' = 0 /\ size' = 0 /\ capacity' = BaseSize
  /\ nodes' = 1 /\ cur' = 1
  /\ mem' = [a \in Positions |-> IF a < BaseSize THEN mem[a] ELSE Junk]
  /\ written' = [p \in Positions |-> Junk]
  /\ UNCHANGED <<request, failed>>

(***************************************************************************)
(* wirteUint32() and readUint32(): seven bits to a byte, the top bit set   *)
(* on all but the last.                                                    *)
(***************************************************************************)
Encode[v \in 0..(Width - 1)] ==
  IF v < Group THEN <<v>> ELSE <<(v % Group) + Group>> \o Encode[v \div Group]

\* Every value fits in the bytes that the reading loop looks at.
ASSUME RoundsAssumption == \A v \in 0..(Width - 1) : Len(Encode[v]) <= Rounds

\* What the bytes from the i-th on add up to, shifted to the right by the seven bits of each one before.
From(bytes) ==
  LET from[i \in 1..(Rounds + 1)] ==
        IF i > Rounds THEN 0
        ELSE (bytes[i] % Group) + (IF bytes[i] < Group THEN 0 ELSE Group * from[i + 1])
  IN from

\* Mutant: the first byte is shifted too.
DecodeShifted(bytes) == (Group * From(bytes)[1]) % Width

Decode(bytes) == From(bytes)[1] % Width

(***************************************************************************)
(* Zigzag: 0, -1, 1, -2 ... as 0, 1, 2, 3, for integers of w values.  A    *)
(* signed one is written as the unsigned one with the same bits.           *)
(***************************************************************************)
Negative(w, v)     == 2 * v >= w
EncodeZigzag(w, v) == IF Negative(w, v) THEN (2 * (w - v) - 1) % w ELSE 2 * v
DecodeZigzag(w, v) == IF v % 2 = 0 THEN v \div 2 ELSE w - 1 - (v \div 2)

\* What readInt64() makes of the varint that writeInt64() makes of v: both decode.
IntWrittenAndRead(w, v) == DecodeZigzag(w, DecodeZigzag(w, v))

\* What the client writes.
Messages == {Encode[v] : v \in 0..(Width - 1)}

\* The client: any legal sequence of calls.
Next ==
  /\ ~failed
  /\ \/ \E buf \in Messages :
          \/ Len(buf) <= MaxCall /\ Write(buf)
          \/ \E asked \in Len(buf)..MaxCall : GetWriteBuffers(asked, buf)
     \/ \E k \in 1..MaxCall : Read(k)
     \/ \E v \in 0..MaxCapacity : SetPosition(v)
     \/ ReadNothing \/ Clear

Spec == Init /\ [][Next]_vars

\* Mutant: m_position's place in the node is forgotten.
ToStringFromStart == [i \in 1..ReadSize |-> mem[(cur - 1) * BaseSize + ((i - 1) % BaseSize)]]

(***************************************************************************)
(* read(buf, size, position) const, which toString() calls with the        *)
(* readable bytes: it walks a local `cur' but copies from m_cur, so a      *)
(* second node's bytes come from the start of the first one.               *)
(***************************************************************************)
ToString ==
  LET o == position % BaseSize
  IN [i \in 1..ReadSize |->
        IF o + i <= BaseSize THEN mem[Here(cur) + i - 1]
                             ELSE mem[(cur - 1) * BaseSize + ((o + i - 1) % BaseSize)]]

\* Mutant: the last piece is as long as any other.
PieceWhole(left, diff) == BaseSize - diff

\* How many bytes a round of writeToFile() writes, `diff' bytes into a node.
Piece(left, diff) == (IF left > BaseSize THEN BaseSize ELSE left) - diff

(***************************************************************************)
(* writeToFile(): in each round up to a node's size less the place in the  *)
(* node, which may be too few bytes or a number below zero, then on to the *)
(* next node.  A write of fewer than 0 bytes makes the file bad, so that   *)
(* nothing more is written.  The loop has ended when nothing is left, and  *)
(* a null pointer has stopped it when cur is 0 before.                     *)
(***************************************************************************)
FileRound(r) ==
  LET diff == r.pos % BaseSize
      len  == Piece(r.left, diff)
      node == (r.cur - 1) * BaseSize
  IN IF r.left <= 0 \/ r.cur = 0 THEN r
     ELSE [left |-> r.left - len, pos |-> r.pos + len, cur |-> NodeOf(nodes, r.cur * BaseSize),
           file |-> IF r.bad THEN r.file ELSE r.file \o [i \in 1..len |-> mem[node + diff + i - 1]],
           bad  |-> r.bad \/ len < 0]

FileRounds ==
  LET run[n \in 0..(nodes + 1)] ==
        IF n = 0 THEN [left |-> ReadSize, pos |-> position, cur |-> cur, file |-> <<>>, bad |-> FALSE]
                 ELSE FileRound(run[n - 1])
  IN run

ToFile == FileRounds[nodes + 1]

-----------------------------------------------------------------------------
(***************************************************************************)
(* The cursor is on the node of the position after every call, null when   *)
(* the position is at the end of the chain, and m_capacity is the chain's  *)
(* length: write() and read() take the offset from m_position and the node *)
(* from m_cur and never compare them.                                      *)
(***************************************************************************)
CursorFollows ==
  ~failed => /\ capacity = nodes * BaseSize
             /\ size <= capacity
             /\ cur = NodeOf(nodes, position)

(***************************************************************************)
(* What read() hands out is what the client last wrote or received at      *)
(* those positions, whatever nodes it is spread over and whatever calls    *)
(* of setPosition() and getWriteBuffers() came between.                    *)
(***************************************************************************)
ReadsBack ==
  ~failed => /\ ReadSize > 0 => Fits(cur, nodes, ReadSize)
             /\ \A i \in 1..ReadSize : written[position + i - 1] \in {Junk, ReadBytes(ReadSize)[i]}

(***************************************************************************)
(* The process is stopped by a null pointer in two cases only: addCapacity *)
(* left out the node for a rest not larger than what was free before, or   *)
(* an empty read was made at the end of the chain.                         *)
(***************************************************************************)
FailsOnlyWhenShort ==
  failed => \/ cur = 0
            \/ /\ request.had < request.asked
               /\ (request.asked - request.had) % BaseSize \in 1..request.had

(***************************************************************************)
(* toString() shows the readable bytes up to the end of the first node;    *)
(* from there on it shows that node again from its start, as often as the  *)
(* readable bytes go over an end of a node.                                *)
(***************************************************************************)
ToStringRepeatsNode ==
  ~failed => \A i \in 1..ReadSize :
    LET o == position % BaseSize
        p == IF o + i <= BaseSize THEN position + i - 1
                                  ELSE (position - o) + ((o + i - 1) % BaseSize)
    IN written[p] \in {Junk, ToString[i]}

(***************************************************************************)
(* writeToFile() writes the readable bytes, all of them and no others,     *)
(* exactly when the position is at the start of a node, or nothing or at   *)
(* least a node is readable.  Otherwise bytes are missing from the file,   *)
(* because a piece came out short, or a null pointer stops the process.    *)
(***************************************************************************)
FileHolds ==
  ~failed =>
    LET right == position % BaseSize = 0 \/ ReadSize = 0 \/ ReadSize >= BaseSize
    IN /\ (ToFile.left = 0 /\ Len(ToFile.file) = ReadSize) <=> right
       /\ right => \A i \in 1..ReadSize : written[position + i - 1] \in {Junk, ToFile.file[i]}

(***************************************************************************)
(* readUint32() gives back what wirteUint32() was given: wherever its      *)
(* bytes lie at the position, over however many nodes and whatever follows *)
(* them, the bytes read() hands out decode to the value.                   *)
(***************************************************************************)
VarintRoundTrip ==
  ~failed => \A v \in 0..(Width - 1) :
    (\A i \in 1..Len(Encode[v]) : i <= ReadSize /\ written[position + i - 1] = Encode[v][i])
      => Decode(ReadBytes(ReadSize)) = v
==============================================================================
