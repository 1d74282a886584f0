------------------------------ MODULE MCTcpServer ------------------------------
(***************************************************************************)
(* The server, and what its addresses are worth: the functions of Address  *)
(* against what they are for, on all lengths and on some addresses.        *)
(***************************************************************************)
EXTENDS TcpServer, Address

\* Every second bit, no bit, all bits, the first and the last one.
Words == {{b \in Bits(32) : b % 2 = 0}, {}, Bits(32), {31}, {0}}
Sixteens == {[i \in 0..15 |-> {b \in Bits(8) : (b + i) % 3 = 0}], [i \in 0..15 |-> {}], [i \in 0..15 |-> Bits(8)]}

\* A length beyond the address is refused, a length of 1 to 32 separates network and host, that of 0 need not.
ASSUME Masks4 ==
  /\ \A w \in Words : Broadcast4(w, 33) = {Null} /\ Network4(w, 33) = {Null}
  /\ \A w \in Words, p \in 1..32 :
       /\ Network4(w, p)   = {{b \in w : b >= 32 - p}}
       /\ Broadcast4(w, p) = {{b \in Bits(32) : b \in w \/ b < 32 - p}}
  /\ \A w \in Words : {} \in Network4(w, 0) /\ w \in Network4(w, 0)

\* Bit b of byte i is number 8 * i + 7 - b of the address.
ASSUME Masks6 ==
  \A a \in Sixteens, p \in 0..127, i \in 0..15, b \in Bits(8) :
    LET inPrefix == 8 * i + 7 - b < p
    IN /\ b \in Network6(a, p)[i]   <=> inPrefix /\ b \in a[i]
       /\ b \in Broadcast6(a, p)[i] <=> ~inPrefix \/ b \in a[i]

\* The length of a mask is found again in it.
ASSUME Lengths ==
  /\ \A p \in 1..32 : {CountBytes(m) : m \in SubnetMask4(p)} = {p}
  /\ \A p \in 0..127 : PrefixOf6(SubnetMask6(p)) = p

\* Each address is written so that it and no other is read again, whichever groups are zero.
ASSUME Texts6 == \A g \in [0..7 -> {0, 1}] : Reads6(Written6(g)) = {g}

\* Addresses of one length are never in order, so operator< tells no two of them apart.
ASSUME Unordered ==
  \A a, b \in [1..2 -> {0, 1}] : ~LessAddress(a, b) /\ (SameAddress(a, b) <=> a = b)

\* The longest path that fits has 107 bytes, or 108 when it begins with a NUL.
ASSUME Paths ==
  LET Path(first, n) == [i \in 1..n |-> IF i = 1 THEN first ELSE "a"]
  IN /\ UnixLength(Path("a", 107)) = {110} /\ UnixLength(Path("a", 108)) = {}
     /\ UnixLength(Path("NUL", 108)) = {110} /\ UnixLength(Path("NUL", 109)) = {} /\ UnixLength(<<>>) = {3}
==============================================================================
