------------------------------- MODULE HttpBytes -------------------------------
(***************************************************************************)
(* What the two generated parsers share: bytes, classes of bytes, and how  *)
(* a table of edges is run.  A byte is a string: the character itself, or  *)
(* "^B" for the byte 2 (and so on to 6), "CTL" for any other control byte  *)
(* that is not told apart, "VT" for 11 and 12, "NUL", "DEL", "GRAVE" for   *)
(* the grave accent, and "HIGH" for a byte that is negative as a char.     *)
(* Names, values and messages are sequences of bytes.                      *)
(***************************************************************************)
EXTENDS Integers, Sequences, FiniteSets, TLC

CONSTANT Junk \* a byte of a buffer that was never filled

\* The bytes of a text, and the set of its characters.
Bytes(text) == [i \in 1..Len(text) |-> SubSeq(text, i, i)]
Chars(text) == {SubSeq(text, i, i) : i \in 1..Len(text)}

Capitals == "ABCDEFGHIJKLMNOPQRSTUVWXYZ"
Smalls   == "abcdefghijklmnopqrstuvwxyz"
Digit    == Chars("0123456789")
Upper    == Chars(Capitals)
Letter   == Upper \cup Chars(Smalls)
AtoF     == Chars("ABCDEFabcdef")
Hex      == Digit \cup AtoF

\* A byte that never comes: it stands for the three that `uri_relaxed' admits.
Relaxed      == "relaxed"
RelaxedBytes == Chars("^{}")

Unreserved == Letter \cup Digit \cup Chars("!$&'()*+,-.;=_~") \cup {Relaxed}
Word       == Letter \cup Digit \cup Chars("!#$%&'*+-.^_|~") \cup {"GRAVE"}
Low        == {"^B", "^C", "^D", "^E", "^F"}
Control    == Low \cup {"CTL", "VT"}
AnyByte    == Letter \cup Digit \cup Word \cup Chars("\"(),/:;<=>?@[\\]{} ")
              \cup Control \cup {"\t", "\n", "\r", "NUL", "DEL", "HIGH"}
Blank      == {"\t", " ", "VT"}

\* Case is ignored as strcasecmp() ignores it.
Small[c \in AnyByte] ==
  IF c \in Upper THEN LET i == CHOOSE j \in 1..26 : SubSeq(Capitals, j, j) = c IN SubSeq(Smalls, i, i) ELSE c
SameName(a, b)  == Len(a) = Len(b) /\ \A i \in 1..Len(a) : Small[a[i]] = Small[b[i]]
EitherCase(c) == {b \in AnyByte : Small[b] = c}

\* An edge: from a state, by a byte of a class, to a state, with actions on the way.
On(from, class, to, actions) == [from |-> from, class |-> class, to |-> to, actions |-> actions]
Go(from, class, to)          == On(from, class, to, <<>>)

\* A table of edges as a function of the state; TLC works out the left side of @@ once.
ByState(edges, states) == [s \in states |-> {e \in edges : e.from = s}] @@ <<>>

\* The edge for byte c, none when the automaton has no way on.
EdgesFor(table, s, c, relaxed) ==
  LET own == {e \in table[s] : c \in e.class}
  IN IF own = {} /\ relaxed /\ c \in RelaxedBytes THEN {e \in table[s] : Relaxed \in e.class} ELSE own

\* `first' after the steps 1 to n; a step is taken from the members of a set so that TLC works it out once.
After(step(_, _), first, n) ==
  LET run[i \in 0..n] == IF i = 0 THEN {first} ELSE {step(r, i) : r \in run[i - 1]}
  IN CHOOSE r \in run[n] : TRUE

\* n bytes of a buffer from an offset on.
Text(buf, from, n) == [i \in 1..n |-> IF from + i \in DOMAIN buf THEN buf[from + i] ELSE Junk]

\* strtol() of the digits at the front of s in the given base.
DigitValue(c) == CHOOSE v \in 0..15 : Small[c] = SubSeq("0123456789abcdef", v + 1, v + 1)
Strtol(s, base) ==
  LET ofBase == {c \in Hex : DigitValue(c) < base}
      front[i \in 0..Len(s)] == IF i < Len(s) /\ s[i + 1] \in ofBase THEN front[i + 1] ELSE i
      value[i \in 0..Len(s)] == IF i = 0 THEN 0 ELSE value[i - 1] * base + DigitValue(s[i])
  IN value[front[0]]
==============================================================================
