------------------------------- MODULE Address -------------------------------
(***************************************************************************)
(* The addresses of src/tw/address.cc: pure functions.  A word is the set  *)
(* of its bits that are 1, bit 0 the lowest; or, and, not are union,       *)
(* intersection, complement.  An IPv4 address is one word of 32 bits, an   *)
(* IPv6 address 16 bytes, numbered from 0.  htonl() and ntohl() permute    *)
(* the bytes of both sides alike and drop out.                             *)
(***************************************************************************)
EXTENDS Integers, Sequences, FiniteSets

Bits(width) == 0..(width - 1)

\* 2 ** n - 1.
LowBits(n) == 0..(n - 1)

(***************************************************************************)
(* CreateMask<T>(bit), T of the given width: 1 << (width - bit) is of type *)
(* int, and shifting it by 32 is not defined: the processor shifts by      *)
(* nothing, the compiler may have folded it to 0.                          *)
(***************************************************************************)
CreateMask(width, bit) == IF width - bit = 32 THEN {{}, Bits(32)} ELSE {LowBits(width - bit) \cap Bits(width)}

\* CountBytes() counts the bits that are 1.
CountBytes(word) == Cardinality(word)

-----------------------------------------------------------------------------
Null == "nullptr"

\* What broadcastAddress(), networkAddress() and subnetMask() may return; subnetMask() does not look at the length.
Broadcast4(word, prefix) == IF prefix > 32 THEN {Null} ELSE {word \cup m : m \in CreateMask(32, prefix)}
Network4(word, prefix)   == IF prefix > 32 THEN {Null} ELSE {word \cap (Bits(32) \ m) : m \in CreateMask(32, prefix)}
SubnetMask4(prefix)      == {Bits(32) \ m : m \in CreateMask(32, prefix)}

\* The byte in which the prefix ends, and the mask for what is left of it.
ByteOf(prefix)   == prefix \div 8
HostBits(prefix) == LowBits(8 - (prefix % 8)) \cap Bits(8)

\* For prefixes below 128: from there on the byte is behind the address.
Broadcast6(bytes, prefix) ==
  [i \in 0..15 |-> IF i = ByteOf(prefix) THEN bytes[i] \cup HostBits(prefix)
                   ELSE IF i > ByteOf(prefix) THEN Bits(8) ELSE bytes[i]]
Network6(bytes, prefix) ==
  [i \in 0..15 |-> IF i = ByteOf(prefix) THEN bytes[i] \cap (Bits(8) \ HostBits(prefix))
                   ELSE IF i > ByteOf(prefix) THEN {} ELSE bytes[i]]
SubnetMask6(prefix) ==
  [i \in 0..15 |-> IF i = ByteOf(prefix) THEN Bits(8) \ HostBits(prefix)
                   ELSE IF i < ByteOf(prefix) THEN Bits(8) ELSE {}]

\* The length that GetInterfaceAddresses() finds in a mask.
PrefixOf6(mask) == LET sum[i \in 0..16] == IF i = 0 THEN 0 ELSE sum[i - 1] + CountBytes(mask[i - 1]) IN sum[16]

-----------------------------------------------------------------------------
(***************************************************************************)
(* IPv6Address::insert(), between the brackets: a sequence of colons and   *)
(* groups.  `elided' is used_zeros.                                        *)
(***************************************************************************)
Colon == -1 \* told apart from every group

Written6(groups) ==
  LET Group(w, i) ==
        IF groups[i] = 0 /\ ~w.elided THEN w
        ELSE LET elides == i > 0 /\ groups[i - 1] = 0 /\ ~w.elided
             IN [text   |-> w.text \o (IF elides THEN <<Colon>> ELSE <<>>)
                                   \o (IF i > 0 THEN <<Colon, groups[i]>> ELSE <<groups[i]>>),
                 elided |-> w.elided \/ elides]
      upTo[i \in 0..8] == IF i = 0 THEN [text |-> <<>>, elided |-> FALSE] ELSE Group(upTo[i - 1], i - 1)
  IN IF ~upTo[8].elided /\ groups[7] = 0 THEN upTo[8].text \o <<Colon, Colon>> ELSE upTo[8].text

\* The groups that such a text stands for, as inet_pton() reads it: :: is one or more groups of zeros, and occurs once.
Reads6(text) ==
  {groups \in [0..7 -> {0} \cup {text[i] : i \in {j \in 1..Len(text) : text[j] # Colon}}] :
     LET Fits(part, from) ==
           /\ Len(part) % 2 = 1 /\ from + Len(part) \div 2 \in 0..7
           /\ \A i \in 1..Len(part) : IF i % 2 = 0 THEN part[i] = Colon ELSE part[i] = groups[from + i \div 2]
     IN \/ Len(text) = 15 /\ Fits(text, 0)
        \/ \E k \in 1..(Len(text) - 1) :
             LET before == SubSeq(text, 1, k - 1)
                 after  == SubSeq(text, k + 2, Len(text))
                 first  == (Len(before) + 1) \div 2
                 last   == 8 - (Len(after) + 1) \div 2
             IN /\ text[k] = Colon /\ text[k + 1] = Colon /\ first < last
                /\ before = <<>> \/ Fits(before, 0)
                /\ after = <<>> \/ Fits(after, last)
                /\ \A g \in first..(last - 1) : groups[g] = 0}

-----------------------------------------------------------------------------
\* operator== and operator<: memcmp() of what both have, which is an order on sequences of bytes.
Differ(a, b, i) == a[i] # b[i] /\ \A j \in 1..(i - 1) : a[j] = b[j]
Common(a, b)    == 1..(IF Len(a) < Len(b) THEN Len(a) ELSE Len(b))
SameAddress(a, b) == Len(a) = Len(b) /\ ~ \E i \in Common(a, b) : Differ(a, b, i)

\* Both signs of the comparison give false.
LessAddress(a, b) == IF \E i \in Common(a, b) : Differ(a, b, i) THEN FALSE ELSE Len(a) < Len(b)

\* UnixAddress(path): the length with the family's two bytes in front, and none for a path that is too long.
UnixLength(path) ==
  LET n == IF path # <<>> /\ path[1] = "NUL" THEN Len(path) ELSE Len(path) + 1
  IN IF n > 108 THEN {} ELSE {2 + n}
==============================================================================
