--------------------------- MODULE ByteArray_proofs ---------------------------
(***************************************************************************)
(* Proofs of the invariants of ByteArray for any size of the nodes, any    *)
(* bounds and any width of the varints, and of what its codings promise.   *)
(* The inductive invariant says that the three ways in which the code      *)
(* names a place, the position, the cursor and the chain, always agree.    *)
(***************************************************************************)
EXTENDS ByteArray, SequenceTheorems, NaturalsInduction, WellFoundedInduction, TLAPS

\* The chain is as long as m_capacity says and holds what was written; the cursor is on the position's node.
ChainInv ==
  ~failed => /\ capacity = nodes * BaseSize
             /\ size <= capacity /\ position <= size
             /\ cur = NodeOf(nodes, position)
             /\ \A p \in Positions : written[p] \in {Junk, mem[p]}

Inv == TypeOK /\ ChainInv /\ FailsOnlyWhenShort

-----------------------------------------------------------------------------
(* Numbers: the node and the offset of an address                          *)

\* Nodes are of equal size, so that the node and the offset of an address make up the address.
LEMMA NodeAndOffset ==
  ASSUME NEW b \in Nat \ {0}, NEW a \in Nat
  PROVE  a \div b \in Nat /\ a % b \in 0..(b - 1) /\ a = (a \div b) * b + (a % b)
OBVIOUS

\* The first address of a node, which is the end of a chain of the nodes before it.
LEMMA NodeStart ==
  ASSUME NEW b \in Nat \ {0}, NEW n \in Nat
  PROVE  (n * b) \div b = n /\ (n * b) % b = 0 /\ n * b \in Nat /\ n <= n * b
OBVIOUS

\* A longer chain ends at a larger address.
LEMMA ChainGrows ==
  ASSUME NEW b \in Nat \ {0}, NEW n \in Nat, NEW c \in Nat
  PROVE  (n + c) * b = n * b + c * b /\ c * b \in Nat
OBVIOUS

\* The node that setPosition() counts to, and the place that write() and read() start from there.
LEMMA CursorPlace ==
  ASSUME NEW n \in Nat, NEW c, position \in Nat, c = NodeOf(n, position), position <= n * BaseSize
  PROVE  /\ c \in 0..n
         /\ c = 0 <=> position = n * BaseSize
         /\ c # 0 => Here(c) = position
<1>1. CASE position < n * BaseSize
  <2>1. c = (position \div BaseSize) + 1 /\ position \div BaseSize \in Nat
    BY <1>1, BaseSizeAssumption, NodeAndOffset DEF NodeOf
  <2>2. position = (position \div BaseSize) * BaseSize + (position % BaseSize)
    BY BaseSizeAssumption, NodeAndOffset
  <2>3. position \div BaseSize < n
    BY <1>1, BaseSizeAssumption
  <2> DEFINE q == position \div BaseSize
             r == position % BaseSize
  <2>4. c = q + 1 /\ q \in Nat /\ position = q * BaseSize + r /\ q < n /\ Here(c) = (c - 1) * BaseSize + r
    BY <2>1, <2>2, <2>3 DEF Here
  <2> HIDE DEF q, r
  <2>5. c - 1 = q
    BY <2>4
  <2>6. Here(c) = position
    BY <2>4, <2>5
  <2> QED BY <1>1, <2>4, <2>6, BaseSizeAssumption
<1>2. CASE position = n * BaseSize
  BY <1>2, BaseSizeAssumption, NodeStart DEF NodeOf
<1> QED BY <1>1, <1>2, BaseSizeAssumption, NodeStart

\* The node of an address is a node of the chain, or none.
LEMMA NodeOfTyped ==
  ASSUME NEW n \in Nat, NEW a \in Nat
  PROVE  NodeOf(n, a) \in 0..n
<1>1. ASSUME a < n * BaseSize
      PROVE  a \div BaseSize \in Nat /\ a \div BaseSize < n
  BY <1>1, BaseSizeAssumption
<1> QED BY <1>1 DEF NodeOf

\* A set of numbers has a lowest one.
LEMMA SmallestNumber ==
  ASSUME NEW S \in SUBSET Nat, S # {}
  PROVE  \E n \in S : \A m \in S : n <= m
<1>1. PICK n \in S : \A m \in S : ~(<<m, n>> \in OpToRel(<, Nat))
  BY NatLessThanWellFounded, WFMin
<1>2. \A m \in S : ~(m < n)
  BY <1>1 DEF OpToRel
<1> QED BY <1>2

-----------------------------------------------------------------------------
(* The recursive functions satisfy the equations that define them.  Were   *)
(* it not so there would be a smallest domain on which no function does,   *)
(* and one more value extends the function on the domain before it.        *)

\* wirteUint32() shifts a smaller number each time.
LEMMA Shifted ==
  ASSUME NEW v \in Nat, v >= Group
  PROVE  v \div Group \in Nat /\ v \div Group < v /\ v % Group \in 0..(Group - 1) /\ v = Group * (v \div Group) + (v % Group)
<1>1. v \div Group \in Nat /\ v % Group \in 0..(Group - 1) /\ v = Group * (v \div Group) + (v % Group)
  BY VarintAssumption
<1>2. ASSUME NEW q \in Nat, NEW r \in Nat, v = Group * q + r
      PROVE  q < v
  BY <1>2, VarintAssumption
<1> QED BY <1>1, <1>2, VarintAssumption

\* What Encode is for the numbers below n.
EncodeBelow(n, f) ==
  f = [v \in 0..(n - 1) |-> IF v < Group THEN <<v>> ELSE <<(v % Group) + Group>> \o f[v \div Group]]

LEMMA EncodeExists == \A n \in Nat : \E f : EncodeBelow(n, f)
<1>1. \E f : EncodeBelow(0, f)
  <2>1. EncodeBelow(0, [v \in 0..(0 - 1) |-> 0])
    BY DEF EncodeBelow
  <2> QED BY <2>1
<1>2. ASSUME NEW n \in Nat, NEW f, EncodeBelow(n, f)
      PROVE  \E g : EncodeBelow(n + 1, g)
  <2> DEFINE step == IF n < Group THEN <<n>> ELSE <<(n % Group) + Group>> \o f[n \div Group]
             g    == [v \in 0..((n + 1) - 1) |-> IF v = n THEN step ELSE f[v]]
  <2>1. \A v \in 0..(n - 1) : f[v] = IF v < Group THEN <<v>> ELSE <<(v % Group) + Group>> \o f[v \div Group]
    BY <1>2 DEF EncodeBelow
  <2>2. \A v \in 0..(n - 1) : v \in 0..((n + 1) - 1) /\ v # n
    OBVIOUS
  <2>3. \A v \in 0..(n - 1) : g[v] = f[v]
    BY <2>2
  <2>4. ASSUME NEW v \in 0..((n + 1) - 1)
        PROVE  g[v] = IF v < Group THEN <<v>> ELSE <<(v % Group) + Group>> \o g[v \div Group]
    <3>1. v >= Group => v \div Group \in 0..(n - 1)
      BY Shifted
    <3>2. CASE v = n
      <4>1. g[v] = step
        BY <3>2
      <4>2. v >= Group => g[v \div Group] = f[v \div Group]
        BY <2>3, <3>1
      <4> HIDE DEF g
      <4> QED BY <3>2, <4>1, <4>2, VarintAssumption
    <3>3. CASE v # n
      <4>1. v \in 0..(n - 1)
        BY <3>3
      <4>2. g[v] = f[v] /\ f[v] = IF v < Group THEN <<v>> ELSE <<(v % Group) + Group>> \o f[v \div Group]
        BY <2>1, <2>3, <4>1
      <4>3. v >= Group => g[v \div Group] = f[v \div Group]
        BY <2>3, <3>1
      <4> HIDE DEF g
      <4> QED BY <4>1, <4>2, <4>3, VarintAssumption
    <3> QED BY <3>2, <3>3
  <2> HIDE DEF step
  <2>5. g = [v \in 0..((n + 1) - 1) |-> g[v]]
    OBVIOUS
  <2>6. g = [v \in 0..((n + 1) - 1) |-> IF v < Group THEN <<v>> ELSE <<(v % Group) + Group>> \o g[v \div Group]]
    <3> HIDE DEF g
    <3> QED BY <2>4, <2>5
  <2> HIDE DEF g
  <2> QED BY <2>6 DEF EncodeBelow
<1> DEFINE Bad == {n \in Nat : ~\E f : EncodeBelow(n, f)}
<1>3. SUFFICES Bad = {}
  OBVIOUS
<1>4. SUFFICES ASSUME Bad # {} PROVE FALSE
  OBVIOUS
<1>5. PICK n \in Bad : \A m \in Bad : n <= m
  BY <1>4, SmallestNumber
<1>6. n \in Nat \ {0}
  BY <1>1, <1>5
<1>7. n - 1 \in Nat /\ n - 1 \notin Bad
  BY <1>5, <1>6
<1>8. PICK f : EncodeBelow(n - 1, f)
  BY <1>7
<1>9. \E g : EncodeBelow((n - 1) + 1, g)
  BY <1>2, <1>7, <1>8
<1> QED BY <1>5, <1>6, <1>9

\* Encode satisfies its equation.
LEMMA EncodeStep ==
  ASSUME NEW v \in 0..(Width - 1)
  PROVE  Encode[v] = IF v < Group THEN <<v>> ELSE <<(v % Group) + Group>> \o Encode[v \div Group]
<1> DEFINE P(f) == f = [u \in 0..(Width - 1) |-> IF u < Group THEN <<u>> ELSE <<(u % Group) + Group>> \o f[u \div Group]]
<1>1. Encode = CHOOSE f : P(f)
  BY DEF Encode
<1>2. \E f : P(f)
  BY EncodeExists, VarintAssumption DEF EncodeBelow
<1> HIDE DEF P
<1>3. P(CHOOSE f : P(f))
  BY <1>2
<1>4. P(Encode)
  BY <1>1, <1>3
<1>5. Encode = [u \in 0..(Width - 1) |-> IF u < Group THEN <<u>> ELSE <<(u % Group) + Group>> \o Encode[u \div Group]]
  BY <1>4 DEF P
<1> QED BY <1>5

\* An encoded number is a message of at least one byte.
LEMMA EncodeTyped ==
  \A v \in 0..(Width - 1) : Encode[v] \in Seq(0..(2 * Group - 1)) /\ Len(Encode[v]) \in Nat \ {0}
<1> DEFINE Good(v) == Encode[v] \in Seq(0..(2 * Group - 1)) /\ Len(Encode[v]) \in Nat \ {0}
           Bad     == {v \in 0..(Width - 1) : ~Good(v)}
<1>1. SUFFICES ASSUME Bad # {} PROVE FALSE
  OBVIOUS
<1>2. Bad \in SUBSET Nat
  BY VarintAssumption
<1>3. PICK v \in Bad : \A u \in Bad : v <= u
  BY <1>1, <1>2, SmallestNumber
<1>4. v \in 0..(Width - 1) /\ v \in Nat
  BY <1>3, VarintAssumption
<1>5. \A u \in 0..(Width - 1) : u < v => Good(u)
  BY <1>3, <1>4, VarintAssumption
<1>6. CASE v < Group
  <2>1. Encode[v] = <<v>>
    BY <1>4, <1>6, EncodeStep
  <2>2. v \in 0..(2 * Group - 1)
    BY <1>4, <1>6, VarintAssumption
  <2>3. Good(v)
    BY <2>1, <2>2
  <2> QED BY <1>3, <2>3
<1>7. CASE v >= Group
  <2>1. v \div Group \in 0..(Width - 1) /\ v \div Group < v
    BY <1>4, <1>7, Shifted, VarintAssumption
  <2>2. (v % Group) + Group \in 0..(2 * Group - 1)
    BY <1>4, <1>7, Shifted, VarintAssumption
  <2>3. Encode[v] = <<(v % Group) + Group>> \o Encode[v \div Group]
    <3>1. ~(v < Group)
      BY <1>4, <1>7, VarintAssumption
    <3> QED BY <1>4, <3>1, EncodeStep
  <2> DEFINE first == (v % Group) + Group
             rest  == Encode[v \div Group]
  <2>4. rest \in Seq(0..(2 * Group - 1)) /\ Len(rest) \in Nat \ {0}
    BY <1>5, <2>1
  <2>5. first \in 0..(2 * Group - 1) /\ Encode[v] = <<first>> \o rest
    BY <2>2, <2>3
  <2> HIDE DEF first, rest
  <2>6. <<first>> \in Seq(0..(2 * Group - 1)) /\ Len(<<first>>) = 1
    BY <2>5
  <2>7. Good(v)
    BY <2>4, <2>5, <2>6, ConcatProperties
  <2> QED BY <1>3, <2>7
<1> QED BY <1>4, <1>6, <1>7, VarintAssumption

\* The first byte of a longer message carries the low bits, the others those of the rest.
LEMMA EncodeParts ==
  ASSUME NEW v \in 0..(Width - 1), v >= Group
  PROVE  /\ v \div Group \in 0..(Width - 1)
         /\ Len(Encode[v]) = Len(Encode[v \div Group]) + 1
         /\ Encode[v][1] = (v % Group) + Group
         /\ \A i \in 1..Len(Encode[v \div Group]) : Encode[v][i + 1] = Encode[v \div Group][i]
<1>1. v \in Nat /\ v \div Group \in 0..(Width - 1)
  BY Shifted, VarintAssumption
<1>2. (v % Group) + Group \in 0..(2 * Group - 1)
  BY <1>1, Shifted, VarintAssumption
<1>3. Encode[v] = <<(v % Group) + Group>> \o Encode[v \div Group]
  <2>1. ~(v < Group)
    BY <1>1, VarintAssumption
  <2> QED BY <2>1, EncodeStep
<1> DEFINE first == (v % Group) + Group
           rest  == Encode[v \div Group]
<1>4. rest \in Seq(0..(2 * Group - 1)) /\ Len(rest) \in Nat
  BY <1>1, EncodeTyped
<1>5. first \in 0..(2 * Group - 1) /\ Encode[v] = <<first>> \o rest
  BY <1>2, <1>3
<1> HIDE DEF first, rest
<1>6. <<first>> \in Seq(0..(2 * Group - 1)) /\ Len(<<first>>) = 1 /\ <<first>>[1] = first
  BY <1>5
<1>7. /\ Len(<<first>> \o rest) = 1 + Len(rest)
      /\ \A i \in 1..(1 + Len(rest)) : (<<first>> \o rest)[i] = IF i <= 1 THEN <<first>>[i] ELSE rest[i - 1]
  BY <1>4, <1>6, ConcatProperties
<1>8. Len(Encode[v]) = Len(rest) + 1 /\ Encode[v][1] = first
  BY <1>4, <1>5, <1>6, <1>7
<1>9. \A i \in 1..Len(rest) : i + 1 \in 1..(1 + Len(rest)) /\ ~(i + 1 <= 1) /\ (i + 1) - 1 = i
  BY <1>4
<1>10. \A i \in 1..Len(rest) : Encode[v][i + 1] = rest[i]
  BY <1>5, <1>7, <1>9
<1> QED BY <1>1, <1>8, <1>10 DEF first, rest

\* What readUint32() makes of the bytes from the i-th on, when the bytes after it are worth `rest'.
Worth(bytes, i, rest) ==
  IF i > Rounds THEN 0 ELSE (bytes[i] % Group) + (IF bytes[i] < Group THEN 0 ELSE Group * rest)

\* What From is for the last n rounds.
FromLast(bytes, n, f) == f = [i \in (Rounds + 1 - n)..(Rounds + 1) |-> Worth(bytes, i, f[i + 1])]

LEMMA FromExists ==
  ASSUME NEW bytes
  PROVE  \A n \in 0..Rounds : \E f : FromLast(bytes, n, f)
<1>1. \E f : FromLast(bytes, 0, f)
  <2> DEFINE f == [i \in (Rounds + 1 - 0)..(Rounds + 1) |-> 0]
  <2>1. \A i \in (Rounds + 1 - 0)..(Rounds + 1) : i > Rounds
    BY VarintAssumption
  <2>2. \A i : i > Rounds => \A rest : Worth(bytes, i, rest) = 0
    BY DEF Worth
  <2>3. \A i \in (Rounds + 1 - 0)..(Rounds + 1) : Worth(bytes, i, f[i + 1]) = 0
    BY <2>1, <2>2
  <2>4. FromLast(bytes, 0, f)
    BY <2>3 DEF FromLast
  <2> QED BY <2>4
<1>2. ASSUME NEW n \in 0..(Rounds - 1), NEW f, FromLast(bytes, n, f)
      PROVE  \E g : FromLast(bytes, n + 1, g)
  <2> DEFINE low  == Rounds - n
             step == Worth(bytes, low, f[low + 1])
             g    == [i \in (Rounds + 1 - (n + 1))..(Rounds + 1) |-> IF i = low THEN step ELSE f[i]]
  <2>1. \A i \in (low + 1)..(Rounds + 1) : f[i] = Worth(bytes, i, f[i + 1])
    BY <1>2, VarintAssumption DEF FromLast
  <2>2. /\ low \in (Rounds + 1 - (n + 1))..(Rounds + 1)
        /\ \A i \in (low + 1)..(Rounds + 1) : i \in (Rounds + 1 - (n + 1))..(Rounds + 1) /\ i # low
        /\ \A i \in (Rounds + 1 - (n + 1))..(Rounds + 1) : i = low \/ i \in (low + 1)..(Rounds + 1)
    BY VarintAssumption
  <2>3. \A i \in (low + 1)..(Rounds + 1) : g[i] = f[i]
    BY <2>2
  <2>4. g[low] = step
    BY <2>2
  <2>5. ASSUME NEW i \in (Rounds + 1 - (n + 1))..(Rounds + 1)
        PROVE  g[i] = Worth(bytes, i, g[i + 1])
    <3>1. i <= Rounds => i + 1 \in (low + 1)..(Rounds + 1)
      BY VarintAssumption
    <3>2. i <= Rounds => g[i + 1] = f[i + 1]
      BY <2>3, <3>1
    <3>3. i > Rounds => Worth(bytes, i, g[i + 1]) = Worth(bytes, i, f[i + 1])
      BY DEF Worth
    <3>4. Worth(bytes, i, g[i + 1]) = Worth(bytes, i, f[i + 1])
      BY <3>2, <3>3, VarintAssumption
    <3>5. g[i] = Worth(bytes, i, f[i + 1])
      <4> HIDE DEF g
      <4> QED BY <2>1, <2>2, <2>3, <2>4
    <3> QED BY <3>4, <3>5
  <2> HIDE DEF low, step
  <2>6. g = [i \in (Rounds + 1 - (n + 1))..(Rounds + 1) |-> g[i]]
    OBVIOUS
  <2>7. g = [i \in (Rounds + 1 - (n + 1))..(Rounds + 1) |-> Worth(bytes, i, g[i + 1])]
    <3> HIDE DEF g
    <3> QED BY <2>5, <2>6
  <2> HIDE DEF g
  <2> QED BY <2>7 DEF FromLast
<1> DEFINE Bad == {n \in 0..Rounds : ~\E f : FromLast(bytes, n, f)}
<1>3. SUFFICES ASSUME Bad # {} PROVE FALSE
  OBVIOUS
<1>4. Bad \in SUBSET Nat
  BY VarintAssumption
<1>5. PICK n \in Bad : \A m \in Bad : n <= m
  BY <1>3, <1>4, SmallestNumber
<1>6. n \in 1..Rounds
  BY <1>1, <1>5, VarintAssumption
<1>7. n - 1 \in 0..(Rounds - 1) /\ n - 1 \in 0..Rounds /\ (n - 1) + 1 = n /\ n - 1 \notin Bad
  BY <1>5, <1>6, VarintAssumption
<1>8. PICK f : FromLast(bytes, n - 1, f)
  BY <1>7
<1>9. \E g : FromLast(bytes, (n - 1) + 1, g)
  BY <1>2, <1>7, <1>8
<1> QED BY <1>5, <1>7, <1>9

\* From satisfies its equation: a byte below Group ends the number, another one adds the worth of the rest.
LEMMA FromStep ==
  ASSUME NEW bytes, NEW i \in 1..Rounds
  PROVE  From(bytes)[i] = (bytes[i] % Group) + (IF bytes[i] < Group THEN 0 ELSE Group * From(bytes)[i + 1])
<1> DEFINE P(f) == f = [j \in 1..(Rounds + 1) |-> Worth(bytes, j, f[j + 1])]
<1>1. From(bytes) = CHOOSE f : P(f)
  BY DEF From, Worth
<1>2. Rounds \in 0..Rounds /\ Rounds + 1 - Rounds = 1
  BY VarintAssumption
<1>3. \E f : FromLast(bytes, Rounds, f)
  BY <1>2, FromExists
<1>4. \E f : P(f)
  BY <1>2, <1>3 DEF FromLast
<1> HIDE DEF P
<1>5. P(From(bytes))
  BY <1>1, <1>4
<1>6. From(bytes)[i] = Worth(bytes, i, From(bytes)[i + 1])
  BY <1>5, VarintAssumption DEF P
<1> QED BY <1>6, VarintAssumption DEF Worth

\* A number that is spread over the bytes from any of them on is found again, whatever stands before and behind it.
LEMMA NumberFound ==
  ASSUME NEW bytes
  PROVE  \A v \in 0..(Width - 1) : \A k \in 0..Rounds :
           (k + Len(Encode[v]) <= Rounds /\ \A i \in 1..Len(Encode[v]) : bytes[k + i] = Encode[v][i])
             => From(bytes)[k + 1] = v
<1> DEFINE At(v, k) == k + Len(Encode[v]) <= Rounds /\ \A i \in 1..Len(Encode[v]) : bytes[k + i] = Encode[v][i]
           Good(v)  == \A k \in 0..Rounds : At(v, k) => From(bytes)[k + 1] = v
           Bad      == {v \in 0..(Width - 1) : ~Good(v)}
<1>1. SUFFICES ASSUME Bad # {} PROVE FALSE
  OBVIOUS
<1>2. Bad \in SUBSET Nat
  BY VarintAssumption
<1>3. PICK v \in Bad : \A u \in Bad : v <= u
  BY <1>1, <1>2, SmallestNumber
<1>4. v \in 0..(Width - 1) /\ v \in Nat
  BY <1>3, VarintAssumption
<1>5. \A u \in 0..(Width - 1) : u < v => Good(u)
  BY <1>3, <1>4, VarintAssumption
<1>6. PICK k \in 0..Rounds : At(v, k) /\ From(bytes)[k + 1] # v
  BY <1>3
<1>7. /\ Len(Encode[v]) \in Nat \ {0} /\ k \in Nat /\ Rounds \in Nat
      /\ k + Len(Encode[v]) <= Rounds /\ bytes[k + 1] = Encode[v][1]
  BY <1>4, <1>6, EncodeTyped, VarintAssumption
<1>8. k + 1 \in 1..Rounds
  BY <1>7
<1>9. From(bytes)[k + 1] =
        (bytes[k + 1] % Group) + (IF bytes[k + 1] < Group THEN 0 ELSE Group * From(bytes)[(k + 1) + 1])
  BY <1>8, FromStep
<1>10. CASE v < Group
  <2>1. Encode[v] = <<v>>
    BY <1>4, <1>10, EncodeStep
  <2>2. bytes[k + 1] = v
    BY <1>7, <2>1
  <2>3. v % Group = v
    BY <1>4, <1>10, VarintAssumption
  <2> QED BY <1>4, <1>6, <1>9, <1>10, <2>2, <2>3
<1>11. CASE v >= Group
  <2> DEFINE u == v \div Group
             r == v % Group
  <2>1. u \in 0..(Width - 1) /\ u \in Nat /\ u < v /\ r \in 0..(Group - 1) /\ v = Group * u + r
    BY <1>4, <1>11, Shifted, VarintAssumption
  <2>2. /\ Len(Encode[v]) = Len(Encode[u]) + 1 /\ Encode[v][1] = r + Group
        /\ \A i \in 1..Len(Encode[u]) : Encode[v][i + 1] = Encode[u][i]
    BY <1>4, <1>11, EncodeParts
  <2> HIDE DEF u, r
  <2>3. Len(Encode[u]) \in Nat \ {0}
    BY <2>1, EncodeTyped
  <2>4. k + 1 \in 0..Rounds /\ (k + 1) + Len(Encode[u]) <= Rounds
    <3>1. ASSUME NEW lv \in Nat, NEW lu \in Nat \ {0}, k + lv <= Rounds, lv = lu + 1
          PROVE  k + 1 \in 0..Rounds /\ (k + 1) + lu <= Rounds
      BY <1>7, <3>1
    <3> QED BY <1>7, <2>2, <2>3, <3>1
  <2>5. ASSUME NEW i \in 1..Len(Encode[u])
        PROVE  bytes[(k + 1) + i] = Encode[u][i]
    <3>1. i + 1 \in 1..Len(Encode[v]) /\ (k + 1) + i = k + (i + 1)
      BY <1>7, <2>2, <2>3
    <3>2. bytes[k + (i + 1)] = Encode[v][i + 1]
      BY <1>6, <3>1
    <3> QED BY <2>2, <3>1, <3>2
  <2>6. From(bytes)[(k + 1) + 1] = u
    BY <1>5, <2>1, <2>4, <2>5
  <2>7. bytes[k + 1] = r + Group
    BY <1>7, <2>2
  <2>8. (r + Group) % Group = r /\ ~(r + Group < Group)
    BY <2>1, VarintAssumption
  <2>9. From(bytes)[k + 1] = r + Group * u
    BY <1>9, <2>6, <2>7, <2>8
  <2> QED BY <1>6, <2>1, <2>9, VarintAssumption
<1> QED BY <1>4, <1>10, <1>11, VarintAssumption

\* (Codec) readUint32() is the inverse of wirteUint32(): bytes that start with the
\* message of a value decode to it, for every width of the integers that the
\* rounds of the loop are enough for.
THEOREM VarintsDecode ==
  ASSUME NEW bytes, NEW v \in 0..(Width - 1),
         \A i \in 1..Len(Encode[v]) : bytes[i] = Encode[v][i]
  PROVE  Decode(bytes) = v
<1>1. Len(Encode[v]) \in Nat /\ Len(Encode[v]) <= Rounds
  BY EncodeTyped, RoundsAssumption
<1>2. 0 \in 0..Rounds /\ 0 + Len(Encode[v]) <= Rounds /\ \A i \in 1..Len(Encode[v]) : 0 + i = i
  BY <1>1, VarintAssumption
<1>3. \A i \in 1..Len(Encode[v]) : bytes[0 + i] = Encode[v][i]
  BY <1>2
<1>4. From(bytes)[0 + 1] = v
  BY <1>2, <1>3, NumberFound
<1>5. v % Width = v /\ 0 + 1 = 1
  BY VarintAssumption
<1> QED BY <1>4, <1>5 DEF Decode

\* (Codec) Zigzag coding has an inverse for integers of every even number of values,
\* the smallest one included, whose negation overflows.
THEOREM ZigzagDecodes ==
  ASSUME NEW h \in Nat, NEW v \in 0..(2 * h - 1)
  PROVE  DecodeZigzag(2 * h, EncodeZigzag(2 * h, v)) = v
<1>1. CASE Negative(2 * h, v)
  <2>1. v >= h /\ 2 * (2 * h - v) - 1 \in 0..(2 * h - 1)
    BY <1>1 DEF Negative
  <2>2. EncodeZigzag(2 * h, v) = 2 * (2 * h - v) - 1
    BY <1>1, <2>1 DEF EncodeZigzag
  <2>3. (2 * (2 * h - v) - 1) % 2 = 1 /\ (2 * (2 * h - v) - 1) \div 2 = (2 * h - v) - 1
    OBVIOUS
  <2> QED BY <2>2, <2>3 DEF DecodeZigzag
<1>2. CASE ~Negative(2 * h, v)
  <2>1. EncodeZigzag(2 * h, v) = 2 * v
    BY <1>2 DEF EncodeZigzag
  <2>2. (2 * v) % 2 = 0 /\ (2 * v) \div 2 = v
    OBVIOUS
  <2> QED BY <2>1, <2>2 DEF DecodeZigzag
<1> QED BY <1>1, <1>2

\* (Codec) writeInt32() and writeInt64() call the decoder where they should encode: no number
\* but zero is read again as it was written.  The two divisibilities exclude widths with a
\* number that decodes to itself in two steps; for 2^32 and 2^64 neither holds.
THEOREM IntsAreNotReadBack ==
  ASSUME NEW w \in Nat, w % 2 = 0, (2 * w - 1) % 3 # 0, (2 * w - 1) % 5 # 0,
         NEW v \in 0..(w - 1)
  PROVE  IntWrittenAndRead(w, v) = v <=> v = 0
<1> DEFINE q == v \div 2
<1>1. q \in Nat /\ (v = 2 * q \/ v = 2 * q + 1)
  OBVIOUS
<1>2. CASE v % 2 = 0
  <2>1. DecodeZigzag(w, v) = q /\ v = 2 * q
    BY <1>2 DEF DecodeZigzag
  <2>2. CASE q % 2 = 0
    <3>1. IntWrittenAndRead(w, v) = q \div 2
      BY <2>1, <2>2 DEF IntWrittenAndRead, DecodeZigzag
    <3> HIDE DEF q
    <3> QED BY <1>1, <2>1, <3>1
  <2>3. CASE q % 2 # 0
    <3>1. IntWrittenAndRead(w, v) = w - 1 - (q \div 2)
      BY <2>1, <2>3 DEF IntWrittenAndRead, DecodeZigzag
    <3> HIDE DEF q
    <3>2. q = 2 * (q \div 2) + 1
      BY <1>1, <2>3
    <3> QED BY <1>1, <2>1, <3>1, <3>2
  <2> QED BY <2>2, <2>3
<1>3. CASE v % 2 # 0
  <2> DEFINE x == w - 1 - q
  <2>1. DecodeZigzag(w, v) = x /\ v = 2 * q + 1 /\ x \in Nat
    BY <1>1, <1>3 DEF DecodeZigzag
  <2>2. CASE x % 2 = 0
    <3>1. IntWrittenAndRead(w, v) = x \div 2
      BY <2>1, <2>2 DEF IntWrittenAndRead, DecodeZigzag
    <3> QED BY <1>1, <2>1, <2>2, <3>1
  <2>3. CASE x % 2 # 0
    <3>1. IntWrittenAndRead(w, v) = w - 1 - (x \div 2)
      BY <2>1, <2>3 DEF IntWrittenAndRead, DecodeZigzag
    <3> QED BY <1>1, <2>1, <2>3, <3>1
  <2> QED BY <2>2, <2>3
<1> QED BY <1>2, <1>3

-----------------------------------------------------------------------------
(* addCapacity() and the three places                                      *)

\* Store changes the array where the message goes and nowhere else, and keeps what is written and what is there equal.
LEMMA StoreTyped ==
  ASSUME NEW m \in [Positions -> Bytes], NEW s \in Nat, NEW buf \in Seq(0..(2 * Group - 1))
  PROVE  /\ Store(m, s, buf) \in [Positions -> Bytes]
         /\ \A p \in Positions :
              Store(m, s, buf)[p] = IF p - s \in 0..(Len(buf) - 1) THEN buf[p - s + 1] ELSE m[p]
<1>1. Positions \subseteq Nat /\ Len(buf) \in Nat
  BY BoundsAssumption DEF Positions
<1>2. ASSUME NEW p \in Positions, p - s \in 0..(Len(buf) - 1)
      PROVE  buf[p - s + 1] \in Bytes
  <2>1. p - s + 1 \in 1..Len(buf)
    BY <1>1, <1>2
  <2>2. buf[p - s + 1] \in 0..(2 * Group - 1)
    BY <2>1, ElementOfSeq
  <2> QED BY <2>2 DEF Bytes
<1>3. \A p \in Positions : m[p] \in Bytes
  OBVIOUS
<1> QED BY <1>2, <1>3 DEF Store

\* With room for the call nothing grows, and the bytes fit from the cursor on.
LEMMA NoGrowth ==
  ASSUME TypeOK, ChainInv, ~failed, NEW more \in Nat \ {0}, capacity - position >= more
  PROVE  /\ Grown(more) = [nodes |-> nodes, capacity |-> capacity, cur |-> cur]
         /\ Fits(cur, nodes, more)
<1>1. /\ position \in Nat /\ capacity \in Nat /\ nodes \in Nat /\ capacity = nodes * BaseSize
      /\ cur = NodeOf(nodes, position) /\ position < nodes * BaseSize
  BY DEF TypeOK, ChainInv
<1>2. cur # 0 /\ Here(cur) = position
  BY <1>1, CursorPlace, BaseSizeAssumption
<1>3. Fits(cur, nodes, more)
  BY <1>1, <1>2 DEF Fits
<1>4. nodes + 0 = nodes /\ capacity + 0 * BaseSize = capacity
  BY <1>1, BaseSizeAssumption
<1> QED BY <1>3, <1>4 DEF Grown

\* At the end of the chain addCapacity() adds all the nodes that are asked for and moves the cursor to the first of them.
LEMMA GrowthAtEnd ==
  ASSUME TypeOK, ChainInv, ~failed, NEW more \in Nat \ {0}, capacity = position
  PROVE  \E count \in Nat \ {0} :
           /\ Grown(more) = [nodes |-> nodes + count, capacity |-> capacity + count * BaseSize, cur |-> nodes + 1]
           /\ more <= count * BaseSize
           /\ NodeOf(nodes + count, position) = nodes + 1
           /\ Fits(nodes + 1, nodes + count, more)
<1>1. /\ position \in Nat /\ capacity \in Nat /\ nodes \in Nat /\ position = nodes * BaseSize
      /\ capacity - position = 0
  BY DEF TypeOK, ChainInv
<1> DEFINE q == more \div BaseSize
           r == more % BaseSize
           count == q + (IF r > 0 THEN 1 ELSE 0)
<1>2. q \in Nat /\ r \in 0..(BaseSize - 1) /\ more = q * BaseSize + r
  BY BaseSizeAssumption, NodeAndOffset
<1>3. NewNodes(0, more) = count
  BY DEF NewNodes
<1> HIDE DEF q, r
<1>4. count \in Nat \ {0}
  BY <1>2, BaseSizeAssumption
<1>5. more <= count * BaseSize
  <2>1. CASE r > 0
    <3>1. count = q + 1 /\ (q + 1) * BaseSize = q * BaseSize + BaseSize /\ q * BaseSize \in Nat
      BY <2>1, <1>2, BaseSizeAssumption
    <3> QED BY <3>1, <1>2, BaseSizeAssumption
  <2>2. CASE ~(r > 0)
    BY <2>2, <1>2, BaseSizeAssumption
  <2> QED BY <2>1, <2>2
<1>6. Grown(more) = [nodes |-> nodes + count, capacity |-> capacity + count * BaseSize, cur |-> nodes + 1]
  <2>1. ~(0 >= more) /\ 0 < more /\ ~(0 < more /\ 0 > 0) /\ count # 0
    BY <1>4
  <2> HIDE DEF count
  <2> QED BY <1>1, <1>3, <2>1 DEF Grown
<1> HIDE DEF count
<1>7. (nodes + count) * BaseSize = nodes * BaseSize + count * BaseSize /\ count * BaseSize \in Nat
  BY <1>1, <1>4, ChainGrows, BaseSizeAssumption
<1>8. position \div BaseSize = nodes /\ position % BaseSize = 0
  BY <1>1, NodeStart, BaseSizeAssumption
<1>9. NodeOf(nodes + count, position) = nodes + 1
  BY <1>1, <1>5, <1>7, <1>8 DEF NodeOf
<1>10. Here(nodes + 1) = nodes * BaseSize
  BY <1>1, <1>8, BaseSizeAssumption DEF Here
<1>11. Fits(nodes + 1, nodes + count, more)
  BY <1>1, <1>5, <1>7, <1>10 DEF Fits
<1> QED BY <1>4, <1>5, <1>6, <1>9, <1>11

\* In the middle of the chain the cursor stays; the bytes do not fit only if a rest not larger than the room got no node.
LEMMA GrowthInside ==
  ASSUME TypeOK, ChainInv, ~failed, NEW more \in Nat \ {0}, capacity - position < more, position < capacity
  PROVE  \E count \in Nat :
           /\ Grown(more) = [nodes |-> nodes + count, capacity |-> capacity + count * BaseSize, cur |-> cur]
           /\ cur = NodeOf(nodes + count, position)
           /\ ~Fits(cur, nodes + count, more) =>
                (more - (capacity - position)) % BaseSize \in 1..(capacity - position)
<1> DEFINE old == capacity - position
<1>1. /\ position \in Nat /\ capacity \in Nat /\ nodes \in Nat /\ capacity = nodes * BaseSize
      /\ cur = NodeOf(nodes, position) /\ position < nodes * BaseSize /\ old \in Nat \ {0} /\ more - old \in Nat \ {0}
  BY DEF TypeOK, ChainInv
<1>2. cur # 0 /\ Here(cur) = position
  BY <1>1, CursorPlace, BaseSizeAssumption
<1> DEFINE q == (more - old) \div BaseSize
           r == (more - old) % BaseSize
           count == q + (IF r > old THEN 1 ELSE 0)
<1>3. q \in Nat /\ r \in 0..(BaseSize - 1) /\ more - old = q * BaseSize + r
  BY <1>1, BaseSizeAssumption, NodeAndOffset
<1>4. NewNodes(old, more) = count
  BY DEF NewNodes
<1>5. Grown(more) = [nodes |-> nodes + count, capacity |-> capacity + count * BaseSize, cur |-> cur]
  <2>1. ~(old >= more) /\ old < more /\ old > 0
    BY <1>1
  <2> HIDE DEF count, old
  <2>2. capacity - position = old
    BY DEF old
  <2> QED BY <1>4, <2>1, <2>2 DEF Grown
<1> HIDE DEF q, r
<1>6. count \in Nat
  BY <1>3
<1>7. (nodes + count) * BaseSize = nodes * BaseSize + count * BaseSize /\ count * BaseSize \in Nat
  BY <1>1, <1>6, ChainGrows, BaseSizeAssumption
<1>8. cur = NodeOf(nodes + count, position)
  BY <1>1, <1>7 DEF NodeOf
<1>9. ASSUME r = 0 \/ r > old
      PROVE  more - old <= count * BaseSize
  <2>1. CASE r = 0
    <3>1. count = q
      BY <1>1, <1>3, <2>1
    <3> HIDE DEF count, old
    <3>2. q * BaseSize \in Nat
      BY <1>3, BaseSizeAssumption
    <3> QED BY <1>3, <2>1, <3>1, <3>2
  <2>2. CASE r > old
    <3>1. count = q + 1 /\ (q + 1) * BaseSize = q * BaseSize + BaseSize /\ q * BaseSize \in Nat
      BY <1>3, <2>2, BaseSizeAssumption
    <3> HIDE DEF count, old
    <3> QED BY <3>1, <1>3, BaseSizeAssumption
  <2> QED BY <1>9, <2>1, <2>2
<1>10. (r = 0 \/ r > old) => Fits(cur, nodes + count, more)
  <2> HIDE DEF count
  <2>1. (r = 0 \/ r > old) => position + more <= nodes * BaseSize + count * BaseSize
    BY <1>1, <1>7, <1>9
  <2> QED BY <1>2, <1>7, <2>1 DEF Fits
<1>11. ~Fits(cur, nodes + count, more) => r \in 1..old
  BY <1>1, <1>3, <1>10
<1> QED BY <1>5, <1>6, <1>8, <1>11 DEF r

\* What addCapacity() leaves behind for the calls that write.
LEMMA ExtendStep ==
  ASSUME Inv, ~failed, NEW more \in Nat \ {0}, more <= MaxCall, Extend(Grown(more), more)
  PROVE  /\ nodes' \in 1..MaxCapacity /\ capacity' \in 0..MaxCapacity /\ capacity <= capacity'
         /\ nodes' = Grown(more).nodes /\ capacity' = nodes' * BaseSize
         /\ Grown(more).cur = NodeOf(nodes', position)
         /\ failed' \in BOOLEAN /\ request' \in [had : 0..MaxCapacity, asked : 0..MaxCall]
         /\ failed' <=> ~Fits(Grown(more).cur, nodes', more)
         /\ failed' => /\ request'.had < request'.asked
                       /\ (request'.asked - request'.had) % BaseSize \in 1..request'.had
<1> DEFINE g == Grown(more)
<1>1. /\ position \in Nat /\ size \in Nat /\ capacity \in 0..MaxCapacity /\ nodes \in 1..MaxCapacity
      /\ capacity = nodes * BaseSize /\ cur = NodeOf(nodes, position) /\ position <= capacity
      /\ request \in [had : 0..MaxCapacity, asked : 0..MaxCall]
  BY DEF Inv, TypeOK, ChainInv
<1>2. PICK count \in Nat :
        /\ g.nodes = nodes + count /\ g.capacity = capacity + count * BaseSize
        /\ g.cur = NodeOf(nodes + count, position)
        /\ ~Fits(g.cur, nodes + count, more) =>
             /\ capacity - position < more
             /\ (more - (capacity - position)) % BaseSize \in 1..(capacity - position)
  <2>1. CASE capacity - position >= more
    <3>1. g = [nodes |-> nodes, capacity |-> capacity, cur |-> cur] /\ Fits(cur, nodes, more)
      BY <2>1, NoGrowth DEF Inv
    <3>2. nodes + 0 = nodes /\ capacity + 0 * BaseSize = capacity
      BY <1>1, BaseSizeAssumption
    <3> HIDE DEF g
    <3>3. /\ g.nodes = nodes + 0 /\ g.capacity = capacity + 0 * BaseSize
          /\ g.cur = NodeOf(nodes + 0, position) /\ Fits(g.cur, nodes + 0, more)
      BY <1>1, <3>1, <3>2
    <3> QED BY <3>3
  <2>2. CASE capacity = position
    <3>1. PICK count \in Nat \ {0} :
            /\ g = [nodes |-> nodes + count, capacity |-> capacity + count * BaseSize, cur |-> nodes + 1]
            /\ NodeOf(nodes + count, position) = nodes + 1
            /\ Fits(nodes + 1, nodes + count, more)
      BY <2>2, GrowthAtEnd DEF Inv
    <3> HIDE DEF g
    <3>2. /\ g.nodes = nodes + count /\ g.capacity = capacity + count * BaseSize
          /\ g.cur = NodeOf(nodes + count, position) /\ Fits(g.cur, nodes + count, more)
      BY <3>1
    <3> QED BY <3>2
  <2>3. CASE capacity - position < more /\ position < capacity
    <3>1. PICK count \in Nat :
            /\ g = [nodes |-> nodes + count, capacity |-> capacity + count * BaseSize, cur |-> cur]
            /\ cur = NodeOf(nodes + count, position)
            /\ ~Fits(cur, nodes + count, more) =>
                 (more - (capacity - position)) % BaseSize \in 1..(capacity - position)
      BY <2>3, GrowthInside DEF Inv
    <3> HIDE DEF g
    <3>2. /\ g.nodes = nodes + count /\ g.capacity = capacity + count * BaseSize /\ g.cur = cur
      BY <3>1
    <3> QED BY <2>3, <3>1, <3>2
  <2> QED BY <1>1, <2>1, <2>2, <2>3
<1>3. /\ g.capacity <= MaxCapacity /\ nodes' = g.nodes /\ capacity' = g.capacity
      /\ failed' = ~Fits(g.cur, g.nodes, more)
      /\ request' = IF failed' THEN [had |-> capacity - position, asked |-> more] ELSE request
  BY DEF Extend
<1> HIDE DEF g
<1>4. (nodes + count) * BaseSize = nodes * BaseSize + count * BaseSize /\ count * BaseSize \in Nat
  BY <1>1, ChainGrows, BaseSizeAssumption
<1>5. /\ capacity' = nodes' * BaseSize /\ capacity <= capacity' /\ capacity' \in 0..MaxCapacity
      /\ nodes' \in Nat \ {0}
  BY <1>1, <1>2, <1>3, <1>4, BoundsAssumption
<1>6. nodes' <= nodes' * BaseSize
  BY <1>5, NodeStart, BaseSizeAssumption
<1>7. nodes' \in 1..MaxCapacity
  BY <1>5, <1>6, BoundsAssumption
<1>8. failed' \in BOOLEAN /\ (failed' <=> ~Fits(g.cur, nodes', more))
  BY <1>3
<1>9. capacity - position \in 0..MaxCapacity /\ more \in 0..MaxCall
  BY <1>1, BoundsAssumption
<1>10. CASE failed'
  <2>1. request' = [had |-> capacity - position, asked |-> more]
    BY <1>3, <1>10
  <2>2. request'.had = capacity - position /\ request'.asked = more /\ request' \in [had : 0..MaxCapacity, asked : 0..MaxCall]
    BY <2>1, <1>9
  <2>3. ~Fits(g.cur, nodes + count, more)
    BY <1>2, <1>3, <1>8, <1>10
  <2>4. request'.had < request'.asked /\ (request'.asked - request'.had) % BaseSize \in 1..request'.had
    BY <1>2, <2>2, <2>3
  <2> QED BY <1>2, <1>3, <1>5, <1>7, <1>8, <2>2, <2>4 DEF g
<1>11. CASE ~failed'
  <2>1. request' = request
    BY <1>3, <1>11
  <2> QED BY <1>1, <1>2, <1>3, <1>5, <1>7, <1>8, <1>11, <2>1 DEF g
<1> QED BY <1>10, <1>11

\* The bytes go to the addresses of the positions that the client writes at.
LEMMA StoreBoth ==
  ASSUME Inv, ~failed, NEW buf \in Seq(0..(2 * Group - 1)),
         mem' = Store(mem, position, buf), written' = Store(written, position, buf)
  PROVE  /\ mem' \in [Positions -> Bytes] /\ written' \in [Positions -> Bytes]
         /\ \A p \in Positions : written'[p] \in {Junk, mem'[p]}
<1>1. /\ mem \in [Positions -> Bytes] /\ written \in [Positions -> Bytes] /\ position \in Nat
      /\ \A p \in Positions : written[p] \in {Junk, mem[p]}
  BY DEF Inv, TypeOK, ChainInv
<1>2. /\ mem' \in [Positions -> Bytes]
      /\ \A p \in Positions : mem'[p] = IF p - position \in 0..(Len(buf) - 1) THEN buf[p - position + 1] ELSE mem[p]
  BY <1>1, StoreTyped
<1>3. /\ written' \in [Positions -> Bytes]
      /\ \A p \in Positions : written'[p] = IF p - position \in 0..(Len(buf) - 1) THEN buf[p - position + 1] ELSE written[p]
  BY <1>1, StoreTyped
<1> QED BY <1>1, <1>2, <1>3

\* Messages are not empty.
LEMMA MessagesTyped ==
  ASSUME NEW buf \in Messages
  PROVE  buf \in Seq(0..(2 * Group - 1)) /\ Len(buf) \in Nat \ {0}
BY EncodeTyped DEF Messages
-----------------------------------------------------------------------------
(* The steps                                                               *)

LEMMA InitInv == Init => Inv
<1> SUFFICES ASSUME Init PROVE Inv
  OBVIOUS
<1>1. TypeOK
  <2>1. mem \in [Positions -> Bytes] /\ written \in [Positions -> Bytes]
    BY DEF Init, Bytes
  <2>2. request \in [had : 0..MaxCapacity, asked : 0..MaxCall]
    BY BoundsAssumption DEF Init
  <2>3. /\ position \in 0..MaxCapacity /\ size \in 0..MaxCapacity /\ ReadSize \in 0..MaxCapacity
        /\ capacity \in 0..MaxCapacity /\ nodes \in 1..MaxCapacity /\ cur \in 0..MaxCapacity
    <3>1. position = 0 /\ size = 0 /\ capacity = BaseSize /\ nodes = 1 /\ cur = 1
      BY DEF Init
    <3> QED BY <3>1, BoundsAssumption, BaseSizeAssumption DEF ReadSize
  <2>4. failed \in BOOLEAN
    BY DEF Init
  <2> QED BY <2>1, <2>2, <2>3, <2>4 DEF TypeOK
<1>2. NodeOf(1, 0) = 1 /\ BaseSize = 1 * BaseSize
  BY BaseSizeAssumption DEF NodeOf
<1>3. ChainInv
  BY <1>2, BaseSizeAssumption DEF Init, ChainInv
<1> QED BY <1>1, <1>3 DEF Inv, Init, FailsOnlyWhenShort

LEMMA WriteInv ==
  ASSUME Inv, ~failed, NEW buf \in Messages, Len(buf) <= MaxCall, Write(buf)
  PROVE  Inv'
<1> DEFINE g == Grown(Len(buf))
           k == Len(buf)
<1>1. buf \in Seq(0..(2 * Group - 1)) /\ k \in Nat \ {0}
  BY MessagesTyped
<1>2. Extend(g, k)
  BY DEF Write
<1>3. /\ nodes' \in 1..MaxCapacity /\ capacity' \in 0..MaxCapacity /\ capacity <= capacity'
      /\ nodes' = g.nodes /\ capacity' = nodes' * BaseSize
      /\ g.cur = NodeOf(nodes', position)
      /\ failed' \in BOOLEAN /\ request' \in [had : 0..MaxCapacity, asked : 0..MaxCall]
      /\ failed' <=> ~Fits(g.cur, nodes', k)
      /\ failed' => /\ request'.had < request'.asked
                    /\ (request'.asked - request'.had) % BaseSize \in 1..request'.had
  BY <1>1, <1>2, ExtendStep
<1>4. FailsOnlyWhenShort'
  BY <1>3 DEF FailsOnlyWhenShort
<1>5. TypeOK
  BY DEF Inv
<1>6. CASE ~Fits(g.cur, g.nodes, k)
  <2>1. UNCHANGED <<mem, written, position, size, cur>>
    BY <1>6 DEF Write
  <2>2. TypeOK'
    BY <1>3, <1>5, <2>1 DEF TypeOK, ReadSize, Bytes, Positions
  <2>3. ChainInv'
    BY <1>3, <1>6 DEF ChainInv
  <2> QED BY <1>4, <2>2, <2>3 DEF Inv
<1>7. CASE Fits(g.cur, g.nodes, k)
  <2>1. /\ mem' = Store(mem, Here(g.cur), buf) /\ written' = Store(written, position, buf)
        /\ position' = position + k
        /\ size' = IF position' > size THEN position' ELSE size
        /\ cur' = NodeOf(g.nodes, Here(g.cur) + k)
    BY <1>7 DEF Write
  <2>2. /\ position \in Nat /\ size \in Nat /\ size <= capacity /\ position <= size /\ capacity \in Nat
    BY DEF Inv, TypeOK, ChainInv
  <2>3. g.cur # 0 /\ Here(g.cur) + k <= nodes' * BaseSize
    BY <1>3, <1>7 DEF Fits
  <2>4. Here(g.cur) = position
    BY <1>3, <2>2, <2>3, CursorPlace
  <2> HIDE DEF g
  <2>5. position + k <= capacity' /\ cur' = NodeOf(nodes', position + k)
    BY <1>3, <2>1, <2>3, <2>4
  <2>6. /\ mem' \in [Positions -> Bytes] /\ written' \in [Positions -> Bytes]
        /\ \A p \in Positions : written'[p] \in {Junk, mem'[p]}
    BY <1>1, <2>1, <2>4, StoreBoth
  <2> HIDE DEF k
  <2>7. /\ position' \in 0..MaxCapacity /\ size' \in 0..MaxCapacity /\ size' - position' \in 0..MaxCapacity
        /\ size' <= capacity' /\ position' <= size'
    BY <1>1, <1>3, <2>1, <2>2, <2>5, BoundsAssumption
  <2>8. cur' \in 0..nodes'
    <3>1. position + k \in Nat
      BY <1>1, <2>2 DEF k
    <3>2. nodes' \in Nat
      BY <1>3, BoundsAssumption
    <3>3. NodeOf(nodes', position + k) \in 0..nodes'
      BY <3>1, <3>2, NodeOfTyped
    <3> QED BY <2>5, <3>3 DEF k
  <2>9. TypeOK'
    <3>1. ReadSize' \in 0..MaxCapacity
      BY <2>7 DEF ReadSize
    <3>2. cur' \in 0..MaxCapacity
      BY <1>3, <2>8, BoundsAssumption
    <3> QED BY <1>3, <2>6, <2>7, <3>1, <3>2 DEF TypeOK, Bytes, Positions
  <2>10. ChainInv'
    BY <1>3, <2>1, <2>5, <2>6, <2>7 DEF ChainInv, Positions
  <2> QED BY <1>4, <2>9, <2>10 DEF Inv
<1> QED BY <1>6, <1>7

LEMMA GetWriteBuffersInv ==
  ASSUME Inv, ~failed, NEW buf \in Messages, NEW asked \in Len(buf)..MaxCall, GetWriteBuffers(asked, buf)
  PROVE  Inv'
<1> DEFINE g == Grown(asked)
<1>1. buf \in Seq(0..(2 * Group - 1)) /\ Len(buf) \in Nat \ {0} /\ asked \in Nat \ {0} /\ asked <= MaxCall
  BY MessagesTyped, BoundsAssumption
<1>2. Extend(g, asked) /\ cur' = g.cur /\ UNCHANGED <<position, size>>
  BY DEF GetWriteBuffers
<1>3. /\ nodes' \in 1..MaxCapacity /\ capacity' \in 0..MaxCapacity /\ capacity <= capacity'
      /\ nodes' = g.nodes /\ capacity' = nodes' * BaseSize
      /\ g.cur = NodeOf(nodes', position)
      /\ failed' \in BOOLEAN /\ request' \in [had : 0..MaxCapacity, asked : 0..MaxCall]
      /\ failed' <=> ~Fits(g.cur, nodes', asked)
      /\ failed' => /\ request'.had < request'.asked
                    /\ (request'.asked - request'.had) % BaseSize \in 1..request'.had
  BY <1>1, <1>2, ExtendStep
<1>4. FailsOnlyWhenShort'
  BY <1>3 DEF FailsOnlyWhenShort
<1>5. /\ position \in 0..MaxCapacity /\ size \in 0..MaxCapacity /\ ReadSize \in 0..MaxCapacity
      /\ capacity \in Nat /\ size <= capacity /\ position <= size
      /\ mem \in [Positions -> Bytes] /\ written \in [Positions -> Bytes]
  BY DEF Inv, TypeOK, ChainInv
<1>6. cur' \in 0..MaxCapacity
  <2>1. nodes' \in Nat /\ position \in Nat
    BY <1>3, <1>5, BoundsAssumption
  <2>2. NodeOf(nodes', position) \in 0..nodes'
    BY <2>1, NodeOfTyped
  <2> QED BY <1>2, <1>3, <2>2, BoundsAssumption
<1>7. CASE ~Fits(g.cur, g.nodes, asked)
  <2>1. UNCHANGED <<mem, written>>
    BY <1>7 DEF GetWriteBuffers
  <2>2. TypeOK'
    BY <1>2, <1>3, <1>5, <1>6, <2>1 DEF TypeOK, ReadSize, Bytes, Positions
  <2>3. ChainInv'
    BY <1>3, <1>7 DEF ChainInv
  <2> QED BY <1>4, <2>2, <2>3 DEF Inv
<1>8. CASE Fits(g.cur, g.nodes, asked)
  <2>1. mem' = Store(mem, Here(g.cur), buf) /\ written' = Store(written, position, buf)
    BY <1>8 DEF GetWriteBuffers
  <2>2. g.cur # 0 /\ Here(g.cur) + asked <= nodes' * BaseSize
    BY <1>3, <1>8 DEF Fits
  <2>3. position <= nodes' * BaseSize
    BY <1>3, <1>5
  <2>4. Here(g.cur) = position
    <3> HIDE DEF g
    <3> QED BY <1>3, <1>5, <2>2, <2>3, CursorPlace
  <2> HIDE DEF g
  <2>5. /\ mem' \in [Positions -> Bytes] /\ written' \in [Positions -> Bytes]
        /\ \A p \in Positions : written'[p] \in {Junk, mem'[p]}
    BY <1>1, <2>1, <2>4, StoreBoth
  <2>6. TypeOK'
    BY <1>2, <1>3, <1>5, <1>6, <2>5 DEF TypeOK, ReadSize, Bytes, Positions
  <2>7. ChainInv'
    BY <1>2, <1>3, <1>5, <2>5 DEF ChainInv, Positions
  <2> QED BY <1>4, <2>6, <2>7 DEF Inv
<1> QED BY <1>7, <1>8

LEMMA ReadInv ==
  ASSUME Inv, ~failed, NEW k \in 1..MaxCall, Read(k)
  PROVE  Inv' /\ ~failed'
<1>1. /\ position \in Nat /\ size \in 0..MaxCapacity /\ nodes \in 1..MaxCapacity /\ size <= capacity
      /\ capacity = nodes * BaseSize /\ cur = NodeOf(nodes, position) /\ capacity \in Nat /\ k \in Nat \ {0}
      /\ \A p \in Positions : written[p] \in {Junk, mem[p]}
  BY BoundsAssumption DEF Inv, TypeOK, ChainInv
<1>2. /\ position + k <= size
      /\ UNCHANGED <<size, capacity, nodes, mem, written, request>>
  BY <1>1 DEF Read, ReadSize
<1>3. cur # 0 /\ Here(cur) = position
  BY <1>1, <1>2, CursorPlace
<1>4. Fits(cur, nodes, k)
  BY <1>1, <1>2, <1>3 DEF Fits
<1>5. failed' = FALSE /\ position' = position + k /\ cur' = NodeOf(nodes, position + k)
  BY <1>3, <1>4 DEF Read
<1>6. cur' \in 0..nodes
  BY <1>1, <1>5, NodeOfTyped
<1>7. TypeOK'
  <2>1. cur' \in 0..MaxCapacity /\ position' \in 0..MaxCapacity /\ ReadSize' \in 0..MaxCapacity
    BY <1>1, <1>2, <1>5, <1>6, BoundsAssumption DEF ReadSize
  <2> QED BY <1>2, <1>5, <2>1 DEF Inv, TypeOK, Bytes, Positions
<1>8. ChainInv'
  BY <1>1, <1>2, <1>5 DEF ChainInv, Positions
<1>9. FailsOnlyWhenShort'
  BY <1>5 DEF FailsOnlyWhenShort
<1> QED BY <1>5, <1>7, <1>8, <1>9 DEF Inv

LEMMA ReadNothingInv ==
  ASSUME Inv, ~failed, ReadNothing
  PROVE  Inv'
<1>1. /\ cur = 0 /\ failed' \in BOOLEAN
      /\ UNCHANGED <<position, size, capacity, nodes, cur, mem, written, request>>
  BY DEF ReadNothing
<1>2. TypeOK'
  BY <1>1 DEF Inv, TypeOK, Bytes, Positions, ReadSize
<1>3. ChainInv'
  BY <1>1 DEF Inv, ChainInv, NodeOf, Positions
<1>4. FailsOnlyWhenShort'
  BY <1>1 DEF FailsOnlyWhenShort
<1> QED BY <1>2, <1>3, <1>4 DEF Inv

LEMMA SetPositionInv ==
  ASSUME Inv, ~failed, NEW v \in 0..MaxCapacity, SetPosition(v)
  PROVE  Inv'
<1>1. /\ size \in 0..MaxCapacity /\ nodes \in 1..MaxCapacity /\ size <= capacity /\ capacity \in Nat
      /\ capacity = nodes * BaseSize /\ \A p \in Positions : written[p] \in {Junk, mem[p]}
  BY DEF Inv, TypeOK, ChainInv
<1>2. /\ v <= capacity /\ position' = v /\ size' = (IF v > size THEN v ELSE size) /\ cur' = NodeOf(nodes, v)
      /\ UNCHANGED <<capacity, nodes, mem, written, request, failed>>
  BY DEF SetPosition
<1>3. cur' \in 0..nodes /\ v \in Nat
  BY <1>1, <1>2, NodeOfTyped, BoundsAssumption
<1>4. TypeOK'
  <2>1. /\ cur' \in 0..MaxCapacity /\ size' \in 0..MaxCapacity /\ position' \in 0..MaxCapacity
        /\ ReadSize' \in 0..MaxCapacity
    BY <1>1, <1>2, <1>3, BoundsAssumption DEF ReadSize
  <2> QED BY <1>2, <2>1 DEF Inv, TypeOK, Bytes, Positions
<1>5. ChainInv'
  BY <1>1, <1>2, <1>3 DEF ChainInv, Positions
<1>6. FailsOnlyWhenShort'
  BY <1>2 DEF FailsOnlyWhenShort
<1> QED BY <1>4, <1>5, <1>6 DEF Inv

LEMMA ClearInv ==
  ASSUME Inv, ~failed, Clear
  PROVE  Inv'
<1>1. /\ position' = 0 /\ size' = 0 /\ capacity' = BaseSize /\ nodes' = 1 /\ cur' = 1
      /\ mem' = [a \in Positions |-> IF a < BaseSize THEN mem[a] ELSE Junk]
      /\ written' = [p \in Positions |-> Junk]
      /\ UNCHANGED <<request, failed>>
  BY DEF Clear
<1>2. mem' \in [Positions -> Bytes] /\ written' \in [Positions -> Bytes]
  BY <1>1 DEF Inv, TypeOK, Bytes
<1>3. TypeOK'
  <2>1. /\ position' \in 0..MaxCapacity /\ size' \in 0..MaxCapacity /\ ReadSize' \in 0..MaxCapacity
        /\ capacity' \in 0..MaxCapacity /\ nodes' \in 1..MaxCapacity /\ cur' \in 0..MaxCapacity
    BY <1>1, BoundsAssumption, BaseSizeAssumption DEF ReadSize
  <2> QED BY <1>1, <1>2, <2>1 DEF Inv, TypeOK, Bytes, Positions
<1>4. ChainInv'
  <2>1. NodeOf(1, 0) = 1 /\ BaseSize = 1 * BaseSize
    BY BaseSizeAssumption DEF NodeOf
  <2>2. \A p \in Positions : written'[p] = Junk
    BY <1>1
  <2> QED BY <1>1, <2>1, <2>2, BaseSizeAssumption DEF ChainInv, Positions
<1>5. FailsOnlyWhenShort'
  BY <1>1 DEF FailsOnlyWhenShort
<1> QED BY <1>3, <1>4, <1>5 DEF Inv

LEMMA NextInv == Inv /\ [Next]_vars => Inv'
<1> SUFFICES ASSUME Inv, [Next]_vars PROVE Inv'
  OBVIOUS
<1>1. CASE Next
  <2>1. ~failed
    BY <1>1 DEF Next
  <2>2. ASSUME NEW buf \in Messages, Len(buf) <= MaxCall, Write(buf) PROVE Inv'
    BY <2>1, <2>2, WriteInv
  <2>3. ASSUME NEW buf \in Messages, NEW asked \in Len(buf)..MaxCall, GetWriteBuffers(asked, buf) PROVE Inv'
    BY <2>1, <2>3, GetWriteBuffersInv
  <2>4. ASSUME NEW k \in 1..MaxCall, Read(k) PROVE Inv'
    BY <2>1, <2>4, ReadInv
  <2>5. ASSUME NEW v \in 0..MaxCapacity, SetPosition(v) PROVE Inv'
    BY <2>1, <2>5, SetPositionInv
  <2>6. CASE ReadNothing
    BY <2>1, <2>6, ReadNothingInv
  <2>7. CASE Clear
    BY <2>1, <2>7, ClearInv
  <2> QED BY <1>1, <2>2, <2>3, <2>4, <2>5, <2>6, <2>7 DEF Next
<1>2. CASE UNCHANGED vars
  <2>1. TypeOK'
    BY <1>2 DEF vars, Inv, TypeOK, Bytes, Positions, ReadSize
  <2>2. ChainInv'
    BY <1>2 DEF vars, Inv, ChainInv, Positions, NodeOf
  <2>3. FailsOnlyWhenShort'
    BY <1>2 DEF vars, Inv, FailsOnlyWhenShort
  <2> QED BY <2>1, <2>2, <2>3 DEF Inv
<1> QED BY <1>1, <1>2

-----------------------------------------------------------------------------
(* What the invariant says of the calls that read                          *)

\* The readable bytes lie in the chain, the first one at the cursor.
LEMMA Readable ==
  ASSUME Inv, ~failed
  PROVE  /\ ReadSize \in Nat /\ position \in Nat
         /\ \A i \in 1..ReadSize : position + i - 1 \in Positions
         /\ ReadSize > 0 => cur \in 1..nodes /\ Here(cur) = position /\ Fits(cur, nodes, ReadSize)
<1>1. /\ position \in Nat /\ size \in 0..MaxCapacity /\ nodes \in Nat /\ position <= size /\ size <= capacity
      /\ capacity = nodes * BaseSize /\ cur = NodeOf(nodes, position) /\ capacity \in Nat
  BY DEF Inv, TypeOK, ChainInv
<1>2. ReadSize \in Nat /\ position + ReadSize = size
  BY <1>1 DEF ReadSize
<1>3. \A i \in 1..ReadSize : position + i - 1 \in Positions
  BY <1>1, <1>2, BoundsAssumption DEF Positions
<1>4. ASSUME ReadSize > 0
      PROVE  cur \in 1..nodes /\ Here(cur) = position /\ Fits(cur, nodes, ReadSize)
  <2>1. position < nodes * BaseSize
    BY <1>1, <1>2, <1>4
  <2>2. cur \in 0..nodes /\ cur # 0 /\ Here(cur) = position
    BY <1>1, <2>1, CursorPlace, BaseSizeAssumption
  <2> QED BY <1>1, <1>2, <2>2 DEF Fits
<1> QED BY <1>1, <1>2, <1>3, <1>4

LEMMA InvReadsBack == Inv => ReadsBack
<1> SUFFICES ASSUME Inv, ~failed
             PROVE  /\ ReadSize > 0 => Fits(cur, nodes, ReadSize)
                    /\ \A i \in 1..ReadSize : written[position + i - 1] \in {Junk, ReadBytes(ReadSize)[i]}
  BY DEF ReadsBack
<1>1. \A p \in Positions : written[p] \in {Junk, mem[p]}
  BY DEF Inv, ChainInv
<1>2. ASSUME NEW i \in 1..ReadSize
      PROVE  written[position + i - 1] \in {Junk, ReadBytes(ReadSize)[i]}
  <2>1. Here(cur) = position /\ position + i - 1 \in Positions
    BY Readable
  <2>2. ReadBytes(ReadSize)[i] = mem[position + i - 1]
    BY <2>1 DEF ReadBytes
  <2> QED BY <1>1, <2>1, <2>2
<1> QED BY <1>2, Readable

LEMMA InvToString == Inv => ToStringRepeatsNode
<1> DEFINE o == position % BaseSize
           k(i) == (o + i - 1) % BaseSize
           p(i) == IF o + i <= BaseSize THEN position + i - 1 ELSE (position - o) + k(i)
<1> SUFFICES ASSUME Inv, ~failed, NEW i \in 1..ReadSize
             PROVE  written[p(i)] \in {Junk, ToString[i]}
  BY DEF ToStringRepeatsNode
<1>1. /\ ReadSize \in Nat /\ position \in Nat /\ position + i - 1 \in Positions
      /\ cur \in 1..nodes /\ Here(cur) = position
  BY Readable
<1>2. o \in 0..(BaseSize - 1) /\ i \in Nat \ {0} /\ position < MaxCapacity
  BY <1>1, BaseSizeAssumption, BoundsAssumption DEF Positions
<1>3. CASE o + i <= BaseSize
  <2>1. p(i) = position + i - 1 /\ ToString[i] = mem[position + i - 1]
    BY <1>1, <1>3 DEF ToString
  <2> QED BY <1>1, <2>1 DEF Inv, ChainInv
<1>4. CASE ~(o + i <= BaseSize)
  <2>1. k(i) \in 0..(BaseSize - 1)
    <3>1. o + i - 1 \in Nat
      BY <1>2
    <3> QED BY <3>1, BaseSizeAssumption
  <2>2. ToString[i] = mem[(cur - 1) * BaseSize + k(i)]
    BY <1>4 DEF ToString
  <2> DEFINE node == (cur - 1) * BaseSize
  <2>3. node + o = position /\ node \in Int
    BY <1>1, BaseSizeAssumption DEF Here, Inv, TypeOK
  <2>4. position + i <= MaxCapacity
    <3>1. position \in Int /\ ReadSize = size - position /\ size \in 0..MaxCapacity
      BY DEF Inv, TypeOK, ReadSize
    <3>2. i \in 1..ReadSize /\ ReadSize \in Nat
      BY <1>1
    <3> QED BY <3>1, <3>2, BoundsAssumption
  <2> HIDE DEF o, k, node
  <2>5. p(i) = node + k(i)
    BY <1>1, <1>2, <1>4, <2>1, <2>3
  <2>6. node + k(i) \in Positions
    <3>1. node \in Nat
      <4>1. cur - 1 \in Nat
        BY <1>1
      <4> QED BY <4>1, BaseSizeAssumption DEF node
    <3>2. node + BaseSize < MaxCapacity
      BY <1>2, <1>4, <2>3, <2>4, <3>1, BaseSizeAssumption, BoundsAssumption
    <3> QED BY <2>1, <3>1, <3>2, BaseSizeAssumption, BoundsAssumption DEF Positions
  <2>7. written[node + k(i)] \in {Junk, mem[node + k(i)]}
    BY <2>6 DEF Inv, ChainInv
  <2>8. ToString[i] = mem[node + k(i)]
    BY <2>2 DEF node
  <2> QED BY <2>5, <2>7, <2>8
<1> QED BY <1>3, <1>4

LEMMA InvVarint == Inv => VarintRoundTrip
<1> SUFFICES ASSUME Inv, ~failed, NEW v \in 0..(Width - 1),
                    \A i \in 1..Len(Encode[v]) : i <= ReadSize /\ written[position + i - 1] = Encode[v][i]
             PROVE  Decode(ReadBytes(ReadSize)) = v
  BY DEF VarintRoundTrip
<1>1. Encode[v] \in Seq(0..(2 * Group - 1)) /\ Len(Encode[v]) \in Nat
  BY EncodeTyped
<1>2. ASSUME NEW i \in 1..Len(Encode[v])
      PROVE  ReadBytes(ReadSize)[i] = Encode[v][i]
  <2>1. i \in 1..ReadSize
    BY <1>1, Readable
  <2>2. written[position + i - 1] \in {Junk, ReadBytes(ReadSize)[i]}
    BY <2>1, InvReadsBack DEF ReadsBack
  <2>3. Encode[v][i] # Junk
    BY <1>1, ElementOfSeq, JunkAssumption
  <2> QED BY <2>2, <2>3
<1> QED BY <1>2, VarintsDecode

-----------------------------------------------------------------------------
(* writeToFile()                                                           *)

\* What the loop starts with.
FileStart == [left |-> ReadSize, pos |-> position, cur |-> cur, file |-> <<>>, bad |-> FALSE]

\* What FileRounds is for the first n rounds.
RoundsUpTo(n, f) == f = [m \in 0..n |-> IF m = 0 THEN FileStart ELSE FileRound(f[m - 1])]

LEMMA RoundsExist == \A n \in Nat : \E f : RoundsUpTo(n, f)
<1>1. \E f : RoundsUpTo(0, f)
  <2> DEFINE f == [m \in 0..0 |-> FileStart]
  <2>1. \A m \in 0..0 : m = 0
    OBVIOUS
  <2>2. RoundsUpTo(0, f)
    BY <2>1 DEF RoundsUpTo
  <2> QED BY <2>2
<1>2. ASSUME NEW n \in Nat, NEW f, RoundsUpTo(n, f)
      PROVE  \E g : RoundsUpTo(n + 1, g)
  <2> DEFINE g == [m \in 0..(n + 1) |-> IF m = n + 1 THEN FileRound(f[n]) ELSE f[m]]
  <2>1. \A m \in 0..n : f[m] = IF m = 0 THEN FileStart ELSE FileRound(f[m - 1])
    BY <1>2 DEF RoundsUpTo
  <2>2. /\ \A m \in 0..n : m \in 0..(n + 1) /\ m # n + 1
        /\ \A m \in 0..(n + 1) : m = n + 1 \/ m \in 0..n
        /\ n + 1 \in 0..(n + 1) /\ n \in 0..n /\ n + 1 # 0 /\ (n + 1) - 1 = n
        /\ \A m \in 0..n : m # 0 => m - 1 \in 0..n
    OBVIOUS
  <2>3. g[n + 1] = FileRound(f[n]) /\ \A m \in 0..n : g[m] = f[m]
    BY <2>2
  <2>4. g = [m \in 0..(n + 1) |-> g[m]]
    OBVIOUS
  <2> HIDE DEF g
  <2>5. ASSUME NEW m \in 0..(n + 1)
        PROVE  g[m] = IF m = 0 THEN FileStart ELSE FileRound(g[m - 1])
    <3>1. CASE m = n + 1
      BY <2>2, <2>3, <3>1
    <3>2. CASE m \in 0..n
      BY <2>1, <2>2, <2>3, <3>2
    <3> QED BY <2>2, <3>1, <3>2
  <2>6. g = [m \in 0..(n + 1) |-> IF m = 0 THEN FileStart ELSE FileRound(g[m - 1])]
    BY <2>4, <2>5
  <2> QED BY <2>6 DEF RoundsUpTo
<1> DEFINE Bad == {n \in Nat : ~\E f : RoundsUpTo(n, f)}
<1>3. SUFFICES ASSUME Bad # {} PROVE FALSE
  OBVIOUS
<1>4. PICK n \in Bad : \A m \in Bad : n <= m
  BY <1>3, SmallestNumber
<1>5. n \in Nat \ {0}
  BY <1>1, <1>4
<1>6. n - 1 \in Nat /\ n - 1 \notin Bad /\ (n - 1) + 1 = n
  BY <1>4, <1>5
<1>7. PICK f : RoundsUpTo(n - 1, f)
  BY <1>6
<1>8. \E g : RoundsUpTo((n - 1) + 1, g)
  BY <1>2, <1>6, <1>7
<1> QED BY <1>4, <1>6, <1>8

\* FileRounds satisfies its equation.
LEMMA FileRoundsStep ==
  ASSUME nodes \in Nat
  PROVE  FileRounds[0] = FileStart /\ \A n \in 1..(nodes + 1) : FileRounds[n] = FileRound(FileRounds[n - 1])
<1> DEFINE P(f) == f = [m \in 0..(nodes + 1) |-> IF m = 0 THEN FileStart ELSE FileRound(f[m - 1])]
<1>1. FileRounds = CHOOSE f : P(f)
  BY DEF FileRounds, FileStart
<1>2. \E f : P(f)
  BY RoundsExist DEF RoundsUpTo
<1> HIDE DEF P
<1>3. P(FileRounds)
  BY <1>1, <1>2
<1>4. FileRounds = [m \in 0..(nodes + 1) |-> IF m = 0 THEN FileStart ELSE FileRound(FileRounds[m - 1])]
  BY <1>3 DEF P
<1>5. /\ 0 \in 0..(nodes + 1)
      /\ \A n \in 1..(nodes + 1) : n \in 0..(nodes + 1) /\ n # 0
  OBVIOUS
<1> QED BY <1>4, <1>5

\* After n rounds the file holds the first bytes; what is left starts at a later node, and at the start of it or with at least a node to come.
RoundInv(n, r) ==
  /\ r.left \in Nat /\ r.pos \in Nat /\ r.cur \in Nat /\ r.file \in Seq(Bytes) /\ ~r.bad
  /\ r.left + Len(r.file) = ReadSize /\ r.pos = position + Len(r.file)
  /\ \A i \in 1..Len(r.file) : r.file[i] = mem[position + i - 1]
  /\ r.left > 0 => /\ r.cur \in (n + 1)..nodes
                   /\ (r.cur - 1) * BaseSize + (r.pos % BaseSize) = r.pos
                   /\ r.pos % BaseSize = 0 \/ r.left >= BaseSize

LEMMA RoundStep ==
  ASSUME Inv, ~failed, NEW n \in Nat, NEW r, RoundInv(n, r)
  PROVE  RoundInv(n + 1, FileRound(r))
<1>1. /\ r.left \in Nat /\ r.pos \in Nat /\ r.cur \in Nat /\ r.file \in Seq(Bytes)
      /\ r.left + Len(r.file) = ReadSize /\ r.pos = position + Len(r.file)
  BY DEF RoundInv
<1>2. Len(r.file) \in Nat
  BY <1>1, LenProperties
<1>3. CASE r.left <= 0 \/ r.cur = 0
  <2>1. r.left = 0
    BY <1>1, <1>2, <1>3 DEF RoundInv
  <2>2. FileRound(r) = r
    BY <2>1 DEF FileRound
  <2> QED BY <2>1, <2>2 DEF RoundInv
<1>4. CASE ~(r.left <= 0 \/ r.cur = 0)
  <2> DEFINE diff == r.pos % BaseSize
             len  == Piece(r.left, diff)
             node == (r.cur - 1) * BaseSize
             part == [i \in 1..len |-> mem[node + diff + i - 1]]
             s    == FileRound(r)
  <2>1. /\ s = [left |-> r.left - len, pos |-> r.pos + len, cur |-> NodeOf(nodes, r.cur * BaseSize),
                 file |-> r.file \o part, bad |-> r.bad \/ len < 0]
        /\ ~r.bad
    BY <1>4 DEF FileRound, RoundInv
  <2>2. /\ diff \in 0..(BaseSize - 1) /\ node + diff = r.pos /\ r.left \in Nat \ {0}
        /\ r.cur \in (n + 1)..nodes /\ r.cur \in Nat \ {0} /\ (diff = 0 \/ r.left >= BaseSize)
    BY <1>1, <1>2, <1>4, BaseSizeAssumption DEF RoundInv
  <2>3. /\ position \in Nat /\ size \in 0..MaxCapacity /\ size <= nodes * BaseSize /\ position + ReadSize = size
        /\ nodes \in Nat /\ mem \in [Positions -> Bytes]
    BY DEF Inv, TypeOK, ChainInv, ReadSize
  <2> HIDE DEF diff, node
  <2>4. len = IF r.left >= BaseSize THEN BaseSize - diff ELSE r.left
    BY <2>2, BaseSizeAssumption DEF Piece
  <2> HIDE DEF len
  <2>5. len \in 1..r.left
    BY <2>2, <2>4, BaseSizeAssumption
  <2>6. r.left - len \in Nat /\ r.pos + len \in Nat /\ ~(len < 0)
    BY <1>1, <1>2, <2>5
  <2>7. r.pos + r.left = size
    BY <1>1, <1>2, <2>3
  <2>8. ASSUME NEW i \in 1..len
        PROVE  part[i] = mem[r.pos + i - 1] /\ part[i] \in Bytes
    <3>1. r.pos + i - 1 \in Positions
      BY <1>1, <1>2, <2>3, <2>5, <2>7, BoundsAssumption DEF Positions
    <3>2. part[i] = mem[r.pos + i - 1]
      BY <2>2
    <3> QED BY <2>3, <3>1, <3>2
  <2>9. part \in Seq(Bytes) /\ Len(part) = len
    <3>1. len \in Nat /\ part = [i \in 1..len |-> part[i]]
      BY <2>5
    <3>2. part \in [1..len -> Bytes]
      BY <2>8
    <3> HIDE DEF part
    <3> QED BY <3>1, <3>2
  <2> HIDE DEF part
  <2>10. /\ r.file \o part \in Seq(Bytes) /\ Len(r.file \o part) = Len(r.file) + len
         /\ \A i \in 1..(Len(r.file) + len) :
              (r.file \o part)[i] = IF i <= Len(r.file) THEN r.file[i] ELSE part[i - Len(r.file)]
    <3>1. r.file \in Seq(Bytes)
      BY <1>1
    <3> QED BY <2>9, <3>1, ConcatProperties
  <2>11. NodeOf(nodes, r.cur * BaseSize) \in Nat
    <3>1. r.cur * BaseSize \in Nat
      BY <2>2, BaseSizeAssumption
    <3>2. nodes \in Nat
      BY <2>3
    <3>3. NodeOf(nodes, r.cur * BaseSize) \in 0..nodes
      BY <3>1, <3>2, NodeOfTyped
    <3> QED BY <3>2, <3>3
  <2>12. /\ s.left = r.left - len /\ s.pos = r.pos + len /\ s.file = r.file \o part
         /\ s.cur = NodeOf(nodes, r.cur * BaseSize) /\ s.bad = (r.bad \/ len < 0)
    <3> HIDE DEF s
    <3> QED BY <2>1
  <2>13. s.left \in Nat /\ s.pos \in Nat /\ s.cur \in Nat /\ s.file \in Seq(Bytes) /\ ~s.bad
    <3> HIDE DEF s
    <3>1. s.left \in Nat /\ s.pos \in Nat /\ s.cur \in Nat /\ s.file \in Seq(Bytes)
      BY <2>6, <2>10, <2>11, <2>12
    <3>2. ~s.bad
      BY <2>1, <2>6, <2>12
    <3> QED BY <3>1, <3>2
  <2> HIDE DEF s
  <2>14. s.left + Len(s.file) = ReadSize /\ s.pos = position + Len(s.file)
    <3>1. Len(s.file) = Len(r.file) + len /\ s.left = r.left - len /\ s.pos = r.pos + len
      BY <2>10, <2>12
    <3>2. len \in Int /\ position \in Int
      BY <2>3, <2>5
    <3> QED BY <1>1, <1>2, <3>1, <3>2
  <2>15. ASSUME NEW i \in 1..Len(s.file)
         PROVE  s.file[i] = mem[position + i - 1]
    <3>1. CASE i <= Len(r.file)
      <4>1. i \in 1..Len(r.file) /\ i \in 1..(Len(r.file) + len)
        BY <1>1, <1>2, <2>5, <3>1
      <4> QED BY <2>10, <2>12, <3>1, <4>1 DEF RoundInv
    <3>2. CASE ~(i <= Len(r.file))
      <4>1. i - Len(r.file) \in 1..len /\ i \in 1..(Len(r.file) + len)
        BY <1>1, <1>2, <2>5, <2>10, <2>12, <3>2
      <4>2. s.file[i] = part[i - Len(r.file)]
        BY <2>10, <2>12, <3>2, <4>1
      <4>3. part[i - Len(r.file)] = mem[r.pos + (i - Len(r.file)) - 1]
        BY <2>8, <4>1
      <4> DEFINE l == Len(r.file)
                 p == r.pos
      <4>4. position \in Int /\ i \in Int /\ l \in Int /\ p \in Int /\ p = position + l
        BY <1>1, <1>2, <2>3
      <4> HIDE DEF l, p
      <4>5. p + (i - l) - 1 = position + i - 1
        BY <4>4
      <4> QED BY <4>2, <4>3, <4>5 DEF l, p
    <3> QED BY <3>1, <3>2
  <2>16. ASSUME s.left > 0
         PROVE  /\ s.cur \in (n + 2)..nodes
                /\ (s.cur - 1) * BaseSize + (s.pos % BaseSize) = s.pos
                /\ s.pos % BaseSize = 0
    <3>1. r.left >= BaseSize /\ len = BaseSize - diff
      BY <2>2, <2>4, <2>12, <2>16
    <3>2. node + BaseSize = r.cur * BaseSize /\ node \in Int
      <4>1. (r.cur - 1) * BaseSize + BaseSize = r.cur * BaseSize /\ (r.cur - 1) * BaseSize \in Int
        BY <2>2, BaseSizeAssumption
      <4> QED BY <4>1 DEF node
    <3>3. s.pos = r.cur * BaseSize
      BY <2>2, <2>12, <3>1, <3>2, BaseSizeAssumption
    <3>4. s.pos < nodes * BaseSize
      <4>1. s.pos + s.left = size /\ s.pos \in Int
        BY <1>1, <2>5, <2>7, <2>12
      <4>2. size <= nodes * BaseSize /\ size \in Int /\ nodes * BaseSize \in Int
        BY <2>3, BaseSizeAssumption
      <4> QED BY <4>1, <4>2, <2>13, <2>16
    <3>5. (r.cur * BaseSize) \div BaseSize = r.cur /\ (r.cur * BaseSize) % BaseSize = 0
      BY <2>2, NodeStart, BaseSizeAssumption
    <3>6. s.cur = r.cur + 1
      BY <2>12, <3>3, <3>4, <3>5 DEF NodeOf
    <3>7. r.cur < nodes
      BY <2>2, <2>3, <3>3, <3>4, BaseSizeAssumption
    <3>8. r.cur \in (n + 1)..nodes /\ r.cur \in Nat /\ nodes \in Nat
      BY <2>2, <2>3
    <3>9. s.cur \in (n + 2)..nodes /\ s.cur - 1 = r.cur
      BY <3>6, <3>7, <3>8
    <3>10. r.cur * BaseSize \in Nat
      BY <3>8, BaseSizeAssumption
    <3> QED BY <3>3, <3>5, <3>9, <3>10
  <2>17. (n + 1) + 1 = n + 2
    OBVIOUS
  <2> QED BY <2>13, <2>14, <2>15, <2>16, <2>17 DEF RoundInv, s
<1> QED BY <1>3, <1>4

\* From inside a node with less than a node to come: a piece is short, the next is of no or of less than no bytes.
ShortInv(r) ==
  /\ r.file \in Seq(Bytes) /\ Len(r.file) < ReadSize
  /\ ~r.bad => \/ r.left = ReadSize /\ r.pos = position /\ r.cur = cur /\ Len(r.file) = 0
               \/ /\ r.left = position % BaseSize /\ r.left <= ReadSize
                  /\ r.pos = position + ReadSize - r.left

\* The place in the node after the first, short piece.
LEMMA PlaceAfterPiece ==
  ASSUME NEW B \in Nat \ {0}, NEW p \in Nat, NEW l \in Nat, l < B
  PROVE  (p + l - (p % B)) % B = l
<1> DEFINE d == p % B
           q == p \div B
<1>1. p = q * B + d /\ q \in Nat /\ d \in 0..(B - 1)
  BY Z3
<1> HIDE DEF d, q
<1>2. q * B \in Nat /\ p + l - d = q * B + l
  BY <1>1
<1>3. (q * B + l) % B = l
  BY <1>1, NodeAndOffset
<1> QED BY <1>2, <1>3 DEF d

LEMMA ShortStep ==
  ASSUME Inv, ~failed, NEW r, ShortInv(r),
         position % BaseSize # 0, ReadSize > 0, ReadSize < BaseSize
  PROVE  ShortInv(FileRound(r))
<1> DEFINE L    == ReadSize
           d    == position % BaseSize
           diff == r.pos % BaseSize
           len  == Piece(r.left, diff)
           node == (r.cur - 1) * BaseSize
           part == [i \in 1..len |-> mem[node + diff + i - 1]]
           s    == FileRound(r)
<1>1. /\ L \in 1..(BaseSize - 1) /\ position \in Nat /\ d \in 1..(BaseSize - 1)
      /\ \A i \in 1..L : position + i - 1 \in Positions
      /\ Here(cur) = position /\ mem \in [Positions -> Bytes]
  <2>1. ReadSize \in Nat /\ position \in Nat /\ Here(cur) = position /\ mem \in [Positions -> Bytes]
        /\ \A i \in 1..ReadSize : position + i - 1 \in Positions
    BY Readable DEF Inv, TypeOK
  <2>2. position % BaseSize \in 0..(BaseSize - 1)
    BY <2>1, BaseSizeAssumption
  <2> QED BY <2>1, <2>2, BaseSizeAssumption
<1>2. CASE r.left <= 0 \/ r.cur = 0
  BY <1>2 DEF FileRound
<1>3. CASE ~(r.left <= 0 \/ r.cur = 0) /\ r.bad
  <2>1. s.file = r.file /\ s.bad
    BY <1>3 DEF FileRound
  <2> QED BY <2>1 DEF ShortInv
<1>4. CASE ~(r.left <= 0 \/ r.cur = 0) /\ ~r.bad
  <2>1. /\ s.left = r.left - len /\ s.pos = r.pos + len
        /\ s.file = r.file \o part /\ (s.bad <=> len < 0)
    <3>1. s = [left |-> r.left - len, pos |-> r.pos + len, cur |-> NodeOf(nodes, r.cur * BaseSize),
               file |-> r.file \o part, bad |-> r.bad \/ len < 0]
      BY <1>4 DEF FileRound
    <3> HIDE DEF s, len, part
    <3> QED BY <1>4, <3>1
  <2>2. r.file \in Seq(Bytes) /\ Len(r.file) \in Nat /\ Len(r.file) < L
    BY LenProperties DEF ShortInv
  <2> HIDE DEF s
  <2>3. ASSUME len \in Nat, \A i \in 1..len : part[i] \in Bytes
        PROVE  s.file \in Seq(Bytes) /\ Len(s.file) = Len(r.file) + len
    <3> HIDE DEF len
    <3>1. len \in Nat /\ part = [i \in 1..len |-> part[i]]
      BY <2>3
    <3>2. part \in [1..len -> Bytes]
      BY <2>3
    <3> HIDE DEF part
    <3>3. part \in Seq(Bytes) /\ Len(part) = len
      BY <3>1, <3>2
    <3>4. r.file \in Seq(Bytes)
      BY <2>2
    <3>5. r.file \o part \in Seq(Bytes) /\ Len(r.file \o part) = Len(r.file) + Len(part)
      BY <3>3, <3>4, ConcatProperties
    <3> QED BY <2>1, <3>3, <3>5
  <2>4. ASSUME len \in Int, len <= 0
        PROVE  s.file \in Seq(Bytes) /\ Len(s.file) = Len(r.file)
    <3> HIDE DEF len
    <3>1. 1..len = 1..0
      BY <2>4
    <3>2. part = [i \in 1..0 |-> mem[node + diff + i - 1]]
      BY <3>1
    <3>3. part \in [1..0 -> Bytes]
      BY <3>2
    <3> HIDE DEF part
    <3>4. part = [i \in 1..0 |-> part[i]]
      BY <3>3
    <3>5. part \in Seq(Bytes) /\ Len(part) = 0
      BY <3>3, <3>4
    <3> QED BY <2>1, <2>2, <3>5, ConcatProperties
  <2>5. CASE r.left = L /\ r.pos = position /\ r.cur = cur /\ Len(r.file) = 0
    <3>1. diff = d /\ len = L - d
      <4>1. diff = d
        BY <2>5
      <4> HIDE DEF diff, d
      <4> QED BY <1>1, <2>5, <4>1, BaseSizeAssumption DEF Piece
    <3>2. CASE L < d
      <4> HIDE DEF len, d
      <4>1. len \in Int /\ len < 0
        BY <1>1, <3>1, <3>2
      <4>2. s.bad
        BY <2>1, <4>1
      <4>3. s.file \in Seq(Bytes) /\ Len(s.file) < L
        BY <2>2, <2>4, <4>1
      <4> QED BY <4>2, <4>3 DEF ShortInv, s
    <3>3. CASE ~(L < d)
      <4>1. node + diff = position
        BY <1>1, <2>5, <3>1 DEF Here
      <4>2. s.left = d /\ s.pos = position + L - d
        BY <1>1, <2>1, <2>5, <3>1
      <4> HIDE DEF diff, node, d
      <4>3. len \in Nat /\ len < L
        BY <1>1, <3>1, <3>3
      <4> HIDE DEF len
      <4>4. \A i \in 1..len : part[i] \in Bytes
        BY <1>1, <4>1, <4>3
      <4>5. s.file \in Seq(Bytes) /\ Len(s.file) = Len(r.file) + len
        BY <2>3, <4>3, <4>4
      <4>6. Len(s.file) < L /\ d <= L
        BY <1>1, <2>5, <3>3, <4>3, <4>5
      <4> QED BY <4>2, <4>5, <4>6 DEF ShortInv, s, d
    <3> QED BY <3>2, <3>3
  <2>6. CASE r.left = d /\ d <= L /\ r.pos = position + L - d
    <3>1. diff = L
      BY <1>1, <2>6, PlaceAfterPiece, BaseSizeAssumption
    <3>2. len = d - L
      <4> HIDE DEF diff, d
      <4> QED BY <1>1, <2>6, <3>1, BaseSizeAssumption DEF Piece
    <3>3. s.file \in Seq(Bytes) /\ Len(s.file) < L
      BY <1>1, <2>2, <2>4, <2>6, <3>2
    <3>4. ~s.bad => s.left = d /\ s.pos = position + L - d
      BY <1>1, <2>1, <2>6, <3>2
    <3> QED BY <2>6, <3>3, <3>4 DEF ShortInv, s
  <2> QED BY <1>4, <2>5, <2>6 DEF ShortInv
<1> QED BY <1>2, <1>3, <1>4

LEMMA FileShort ==
  ASSUME Inv, ~failed, position % BaseSize # 0, ReadSize > 0, ReadSize < BaseSize
  PROVE  Len(ToFile.file) < ReadSize
<1>1. nodes \in Nat
  BY DEF Inv, TypeOK
<1>2. /\ FileRounds[0] = FileStart
      /\ \A n \in 1..(nodes + 1) : FileRounds[n] = FileRound(FileRounds[n - 1])
  BY <1>1, FileRoundsStep
<1>3. ShortInv(FileRounds[0])
  <2>1. /\ FileStart.left = ReadSize /\ FileStart.pos = position /\ FileStart.cur = cur
        /\ FileStart.file = <<>> /\ Len(FileStart.file) = 0 /\ FileStart.file \in Seq(Bytes)
    BY DEF FileStart
  <2> QED BY <1>2, <2>1 DEF ShortInv
<1>4. \A n \in 0..(nodes + 1) : ShortInv(FileRounds[n])
  <2> DEFINE Bad == {n \in 0..(nodes + 1) : ~ShortInv(FileRounds[n])}
  <2>1. SUFFICES ASSUME Bad # {} PROVE FALSE
    OBVIOUS
  <2>2. Bad \in SUBSET Nat
    BY <1>1
  <2>3. PICK n \in Bad : \A m \in Bad : n <= m
    BY <2>1, <2>2, SmallestNumber
  <2>4. n \in 1..(nodes + 1)
    BY <1>1, <1>3, <2>3
  <2>5. n - 1 \in 0..(nodes + 1) /\ n - 1 \notin Bad
    BY <1>1, <2>3, <2>4
  <2>6. ShortInv(FileRounds[n - 1])
    BY <2>5
  <2>7. ShortInv(FileRound(FileRounds[n - 1]))
    BY <2>6, ShortStep
  <2> QED BY <1>2, <2>3, <2>4, <2>7
<1> QED BY <1>1, <1>4 DEF ToFile, ShortInv

LEMMA InvFile == Inv => FileHolds
<1> DEFINE right == position % BaseSize = 0 \/ ReadSize = 0 \/ ReadSize >= BaseSize
           whole == ToFile.left = 0 /\ Len(ToFile.file) = ReadSize
<1> SUFFICES ASSUME Inv, ~failed
             PROVE  /\ ~right => ~whole
                    /\ right => /\ whole
                                /\ \A i \in 1..ReadSize : written[position + i - 1] \in {Junk, ToFile.file[i]}
  BY DEF FileHolds
<1>a. ASSUME ~right PROVE ~whole
  <2>1. ReadSize \in Nat /\ position % BaseSize # 0 /\ ReadSize > 0 /\ ReadSize < BaseSize
    BY <1>a, Readable, BaseSizeAssumption
  <2> QED BY <2>1, FileShort
<1>b. SUFFICES ASSUME right
               PROVE  /\ ToFile.left = 0 /\ Len(ToFile.file) = ReadSize
                      /\ \A i \in 1..ReadSize : written[position + i - 1] \in {Junk, ToFile.file[i]}
  BY <1>a
<1>1. nodes \in Nat /\ cur \in Nat /\ ReadSize \in Nat /\ position \in Nat
  BY Readable DEF Inv, TypeOK
<1>2. /\ FileRounds[0] = FileStart
      /\ \A n \in 1..(nodes + 1) : FileRounds[n] = FileRound(FileRounds[n - 1])
  BY <1>1, FileRoundsStep
<1>3. RoundInv(0, FileRounds[0])
  <2>1. FileStart.file \in Seq(Bytes) /\ ~FileStart.bad
    BY DEF FileStart
  <2>2. /\ FileStart.left = ReadSize /\ FileStart.pos = position /\ FileStart.cur = cur
        /\ FileStart.file = <<>> /\ Len(FileStart.file) = 0
    BY DEF FileStart
  <2>3. ReadSize > 0 => cur \in 1..nodes /\ (cur - 1) * BaseSize + (position % BaseSize) = position
    BY Readable DEF Here
  <2>4. RoundInv(0, FileStart)
    BY <1>1, <1>b, <2>1, <2>2, <2>3 DEF RoundInv
  <2> QED BY <1>2, <2>4
<1>4. \A n \in 0..(nodes + 1) : RoundInv(n, FileRounds[n])
  <2> DEFINE Bad == {n \in 0..(nodes + 1) : ~RoundInv(n, FileRounds[n])}
  <2>1. SUFFICES ASSUME Bad # {} PROVE FALSE
    OBVIOUS
  <2>2. Bad \in SUBSET Nat
    BY <1>1
  <2>3. PICK n \in Bad : \A m \in Bad : n <= m
    BY <2>1, <2>2, SmallestNumber
  <2>4. n \in 1..(nodes + 1)
    BY <1>1, <1>3, <2>3
  <2>5. n - 1 \in 0..(nodes + 1) /\ n - 1 \in Nat /\ (n - 1) + 1 = n /\ n - 1 \notin Bad
    BY <1>1, <2>3, <2>4
  <2>6. RoundInv(n - 1, FileRounds[n - 1])
    BY <2>5
  <2>7. RoundInv((n - 1) + 1, FileRound(FileRounds[n - 1]))
    BY <2>5, <2>6, RoundStep
  <2> QED BY <1>2, <2>3, <2>4, <2>5, <2>7
<1>5. RoundInv(nodes + 1, ToFile)
  BY <1>1, <1>4 DEF ToFile
<1>6. /\ ToFile.left \in Nat /\ ToFile.left + Len(ToFile.file) = ReadSize /\ Len(ToFile.file) \in Nat
      /\ \A i \in 1..Len(ToFile.file) : ToFile.file[i] = mem[position + i - 1]
      /\ ToFile.left > 0 => ToFile.cur \in ((nodes + 1) + 1)..nodes
  BY <1>5 DEF RoundInv
<1>7. ToFile.left = 0 /\ Len(ToFile.file) = ReadSize
  BY <1>1, <1>6
<1>8. ASSUME NEW i \in 1..ReadSize
      PROVE  written[position + i - 1] \in {Junk, ToFile.file[i]}
  <2>1. position + i - 1 \in Positions /\ ToFile.file[i] = mem[position + i - 1]
    BY <1>6, <1>7, Readable
  <2> QED BY <2>1 DEF Inv, ChainInv
<1> QED BY <1>7, <1>8

-----------------------------------------------------------------------------
(* The theorems                                                            *)

\* (Safety) The inductive invariant: position, cursor and chain agree as long as the process runs.
THEOREM Invariance == Spec => []Inv
BY InitInv, NextInv, PTL DEF Spec

\* (Type) The variables keep their types, and getReadSize() never wraps below zero.
THEOREM TypeCorrect == Spec => []TypeOK
<1>1. Inv => TypeOK
  BY DEF Inv
<1> QED BY <1>1, Invariance, PTL

\* (Safety) Whatever calls were made, m_cur is the node of m_position and m_capacity the length of the chain.
THEOREM CursorStaysWithPosition == Spec => []CursorFollows
<1>1. Inv => CursorFollows
  BY DEF Inv, ChainInv, CursorFollows
<1> QED BY <1>1, Invariance, PTL

\* (Safety) read() finds all the readable bytes in the chain, and those that were written are what was written.
THEOREM ReadsWhatWasWritten == Spec => []ReadsBack
BY InvReadsBack, Invariance, PTL

\* (Safety) Only the node that addCapacity() leaves out, or an empty read at the end of the chain, stops the process.
THEOREM StopsOnlyWhenShort == Spec => []FailsOnlyWhenShort
<1>1. Inv => FailsOnlyWhenShort
  BY DEF Inv
<1> QED BY <1>1, Invariance, PTL

\* (Safety) toString() shows the readable bytes of the first node, and that node over and over from its end on.
THEOREM ToStringShows == Spec => []ToStringRepeatsNode
BY InvToString, Invariance, PTL

\* (Safety) writeToFile() writes all readable bytes exactly from the start of a node, or for nothing or at least a node.
THEOREM FileHoldsReadable == Spec => []FileHolds
BY InvFile, Invariance, PTL

\* (Safety) A varint that was written at the position is read there as the same number.
THEOREM VarintsReadBack == Spec => []VarintRoundTrip
BY InvVarint, Invariance, PTL
=============================================================================
