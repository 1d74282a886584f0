-------------------------- MODULE HttpSession_proofs --------------------------
(***************************************************************************)
(* Proofs of the invariants of HttpSession for any messages that the       *)
(* parsers understand, any buffer that holds a head and any pieces in      *)
(* which bodies and answers go: whatever is read, and in whatever pieces,  *)
(* a request is served when its last byte is in, as it was sent, and the   *)
(* peer receives the answer to it.                                         *)
(***************************************************************************)
EXTENDS HttpSession, SequenceTheorems, NaturalsInduction, WellFoundedInduction, TLAPS

\* A peer that sends heads whole and waits for answers, and messages that the parsers understand or refuse.
Orderly ==
  Whole /\ Waits /\ \A s \in Scripts : \A i \in 1..Len(s) : s[i].head <= BufferSize /\ Understood(s[i])

\* The message that the session is reading or answering, and what its answer has to be.
Now == script[answered + 1]
GoodAnswer(m) == Answer(m.expected) \in Seq(AnyByte) /\ ClientUnderstands(Answer(m.expected), m.expected)

\* What has been sent, read, served and answered is counted along one stream.
Counts ==
  /\ script \in Scripts
  /\ sent \in 0..Len(Stream) /\ May(sent) /\ taken \in 0..sent
  /\ answered \in 0..Len(script) /\ fails \in Nat
  /\ served \in Seq(Range(served)) /\ Len(served) <= Len(script)
  /\ taken >= EndOf(Len(served))

\* Without a failed read what was served is what was sent, and its answer is a good one.
Served == fails = 0 => \A i \in 1..Len(served) : served[i] = script[i].expected /\ GoodAnswer(script[i])

\* Between two requests the session stands at the beginning of a message, with nothing in its buffer.
HeadInv ==
  pc = "head" => /\ Len(served) = answered /\ taken = EndOf(answered)
                 /\ data = <<>> /\ parser \in {NewParser(b) : b \in BOOLEAN}

\* In a body, at least what is missing is still wanted; without a failed read exactly that.
BodyInv ==
  pc = "body" => /\ answered < Len(script) /\ Len(served) = answered /\ left \in Nat \ {0}
                 /\ taken >= EndOf(answered) + Now.head /\ taken + left >= EndOf(answered + 1)
                 /\ [parser.data EXCEPT !.body = SubSeq(Now.bytes, Now.head + 1, Len(Now.bytes))] = Now.expected
                 /\ GoodAnswer(Now)
                 /\ fails = 0 => /\ taken + left = EndOf(answered + 1)
                                 /\ body = SubSeq(Now.bytes, Now.head + 1, taken - EndOf(answered))

\* While it answers, what has gone out is the beginning of the answer, up to where writeFixSize() is.
RespondInv ==
  pc = "respond" => /\ answered < Len(script) /\ Len(served) = answered + 1 /\ taken = EndOf(answered + 1)
                    /\ fails = 0 => /\ out = Answer(Now.expected)
                                    /\ offset \in 0..Len(out) /\ wire = SubSeq(out, 1, offset)

AnsweredInv ==
  pc = "answered" => /\ Len(served) = answered /\ answered >= 1 /\ taken = EndOf(answered)
                     /\ fails = 0 => wire = Answer(script[answered].expected)

Inv == Counts /\ Served /\ HeadInv /\ BodyInv /\ RespondInv /\ AnsweredInv

-----------------------------------------------------------------------------
(* The stream: one message after the other.  FlattenSeq is defined by a    *)
(* recursive function, which exists on every domain: a smallest one on     *)
(* which it did not would be one value longer than one on which it does.   *)

\* A set of numbers has a lowest one.
LEMMA LowestNumber ==
  ASSUME NEW S \in SUBSET Nat, S # {}
  PROVE  \E n \in S : \A m \in S : n <= m
<1>1. PICK n \in S : \A m \in S : ~(<<m, n>> \in OpToRel(<, Nat))
  BY NatLessThanWellFounded, WFMin
<1>2. \A m \in S : ~(m < n)
  BY <1>1 DEF OpToRel
<1> QED BY <1>2

\* The first n messages of a script in one piece, and how FlattenSeq builds that up.
Joined(s, n) == FlattenSeq([i \in 1..n |-> s[i].bytes])
JoinedUpTo(s, n, f) == f = [i \in 1..n |-> IF i = 1 THEN s[i].bytes ELSE f[i - 1] \o s[i].bytes]

\* There is such a function for any number of messages.
LEMMA JoinedExists == \A s : \A n \in Nat : \E f : JoinedUpTo(s, n, f)
<1> SUFFICES ASSUME NEW s PROVE \A n \in Nat : \E f : JoinedUpTo(s, n, f)
  OBVIOUS
<1>1. \E f : JoinedUpTo(s, 0, f)
  <2>1. JoinedUpTo(s, 0, [i \in 1..0 |-> 0])
    BY DEF JoinedUpTo
  <2> QED BY <2>1
<1>2. ASSUME NEW n \in Nat, NEW f, JoinedUpTo(s, n, f)
      PROVE  \E g : JoinedUpTo(s, n + 1, g)
  <2> DEFINE last == IF n + 1 = 1 THEN s[n + 1].bytes ELSE f[n] \o s[n + 1].bytes
             g    == [i \in 1..(n + 1) |-> IF i = n + 1 THEN last ELSE f[i]]
  <2>1. \A i \in 1..n : f[i] = IF i = 1 THEN s[i].bytes ELSE f[i - 1] \o s[i].bytes
    BY <1>2 DEF JoinedUpTo
  <2>2. \A i \in 1..(n + 1) : i # n + 1 => i \in 1..n
    OBVIOUS
  <2>3. \A i \in 1..n : g[i] = f[i]
    OBVIOUS
  <2>4. g[n + 1] = last
    OBVIOUS
  <2>5. \A i \in 1..(n + 1) : i # 1 => i - 1 \in 1..n
    OBVIOUS
  <2>6. n + 1 # 1 => g[n] = f[n] /\ (n + 1) - 1 = n
    BY <2>3
  <2> HIDE DEF last
  <2>7. \A i \in 1..(n + 1) : g[i] = IF i = 1 THEN s[i].bytes ELSE g[i - 1] \o s[i].bytes
    <3> SUFFICES ASSUME NEW i \in 1..(n + 1) PROVE g[i] = IF i = 1 THEN s[i].bytes ELSE g[i - 1] \o s[i].bytes
      OBVIOUS
    <3>1. CASE i = n + 1
      BY <3>1, <2>4, <2>6 DEF last
    <3>2. CASE i # n + 1
      <4>1. i \in 1..n /\ (i # 1 => i - 1 \in 1..n)
        BY <3>2
      <4> QED BY <4>1, <2>1, <2>3
    <3> QED BY <3>1, <3>2
  <2>8. g = [i \in 1..(n + 1) |-> IF i = 1 THEN s[i].bytes ELSE g[i - 1] \o s[i].bytes]
    <3>1. g = [i \in 1..(n + 1) |-> g[i]]
      OBVIOUS
    <3> HIDE DEF g
    <3> QED BY <2>7, <3>1
  <2> QED BY <2>8 DEF JoinedUpTo
<1> DEFINE Missing == {n \in Nat : ~\E f : JoinedUpTo(s, n, f)}
<1>3. ASSUME Missing # {} PROVE FALSE
  <2>1. PICK n \in Missing : \A m \in Missing : n <= m
    BY <1>3, LowestNumber
  <2>2. n # 0
    BY <2>1, <1>1
  <2>3. n - 1 \in Nat /\ n - 1 \notin Missing
    BY <2>1, <2>2
  <2>4. PICK f : JoinedUpTo(s, n - 1, f)
    BY <2>3
  <2>5. \E g : JoinedUpTo(s, (n - 1) + 1, g)
    BY <2>3, <2>4, <1>2
  <2> QED BY <2>1, <2>3, <2>5
<1> QED BY <1>3

\* Two of these functions agree wherever both are defined.
LEMMA JoinedAgree ==
  ASSUME NEW s, NEW n \in Nat, NEW m \in Nat, n <= m, NEW f, NEW g, JoinedUpTo(s, n, f), JoinedUpTo(s, m, g)
  PROVE  \A i \in 1..n : f[i] = g[i]
<1>1. \A i \in 1..n : f[i] = IF i = 1 THEN s[i].bytes ELSE f[i - 1] \o s[i].bytes
  BY DEF JoinedUpTo
<1>2. \A i \in 1..n : g[i] = IF i = 1 THEN s[i].bytes ELSE g[i - 1] \o s[i].bytes
  <2>1. \A i \in 1..m : g[i] = IF i = 1 THEN s[i].bytes ELSE g[i - 1] \o s[i].bytes
    BY DEF JoinedUpTo
  <2> QED BY <2>1
<1> DEFINE Differ == {i \in 1..n : f[i] # g[i]}
<1>3. ASSUME Differ # {} PROVE FALSE
  <2>0. Differ \in SUBSET Nat
    OBVIOUS
  <2>1. PICK i \in Differ : \A j \in Differ : i <= j
    BY <1>3, <2>0, LowestNumber
  <2>2. i # 1
    BY <2>1, <1>1, <1>2
  <2>3. i - 1 \in 1..n /\ i - 1 \notin Differ
    BY <2>1, <2>2
  <2>4. f[i - 1] = g[i - 1]
    BY <2>3
  <2> QED BY <2>1, <2>2, <2>4, <1>1, <1>2
<1> QED BY <1>3

\* FlattenSeq is such a function at its last place.
LEMMA JoinedIs ==
  ASSUME NEW s, NEW n \in Nat \ {0}
  PROVE  \E f : JoinedUpTo(s, n, f) /\ Joined(s, n) = f[n]
<1> DEFINE b == [i \in 1..n |-> s[i].bytes]
           F(f) == f = [i \in 1..n |-> IF i = 1 THEN b[i] ELSE f[i - 1] \o b[i]]
<1>1. Len(b) = n
  OBVIOUS
<1>2. ASSUME NEW f PROVE F(f) <=> JoinedUpTo(s, n, f)
  <2>1. \A i \in 1..n : b[i] = s[i].bytes
    OBVIOUS
  <2> HIDE DEF b
  <2>2. [i \in 1..n |-> IF i = 1 THEN b[i] ELSE f[i - 1] \o b[i]]
          = [i \in 1..n |-> IF i = 1 THEN s[i].bytes ELSE f[i - 1] \o s[i].bytes]
    BY <2>1
  <2> QED BY <2>2 DEF JoinedUpTo
<1>3. FlattenSeq(b) = (CHOOSE f : F(f))[n]
  <2> HIDE DEF b
  <2> QED BY <1>1 DEF FlattenSeq
<1>4. PICK f : JoinedUpTo(s, n, f)
  BY JoinedExists
<1>5. F(f)
  BY <1>2, <1>4
<1>6. F(CHOOSE h : F(h))
  <2> HIDE DEF F
  <2> QED BY <1>5
<1>7. JoinedUpTo(s, n, CHOOSE h : F(h))
  BY <1>2, <1>6
<1>8. Joined(s, n) = FlattenSeq(b)
  BY DEF Joined
<1> HIDE DEF F, b
<1> QED BY <1>3, <1>7, <1>8

\* No messages make nothing.
LEMMA NoneJoined == ASSUME NEW s PROVE Joined(s, 0) = <<>>
<1>1. [i \in 1..0 |-> s[i].bytes] = <<>>
  OBVIOUS
<1> QED BY <1>1 DEF Joined, FlattenSeq

\* Each message comes behind those before it.
LEMMA JoinedSteps ==
  ASSUME NEW s, NEW S, NEW n \in Nat, \A i \in 1..(n + 1) : s[i].bytes \in Seq(S)
  PROVE  Joined(s, n + 1) = Joined(s, n) \o s[n + 1].bytes
<1>1. Joined(s, 0) = <<>>
  BY NoneJoined
<1>2. PICK g : JoinedUpTo(s, n + 1, g) /\ Joined(s, n + 1) = g[n + 1]
  BY JoinedIs
<1>3. g[n + 1] = IF n + 1 = 1 THEN s[n + 1].bytes ELSE g[n] \o s[n + 1].bytes
  <2>1. \A i \in 1..(n + 1) : g[i] = IF i = 1 THEN s[i].bytes ELSE g[i - 1] \o s[i].bytes
    BY <1>2 DEF JoinedUpTo
  <2>2. n + 1 \in 1..(n + 1) /\ (n + 1) - 1 = n
    OBVIOUS
  <2> QED BY <2>1, <2>2
<1>4. CASE n = 0
  <2>1. s[n + 1].bytes \in Seq(S)
    OBVIOUS
  <2>2. <<>> \o s[n + 1].bytes = s[n + 1].bytes
    BY <2>1, ConcatEmptySeq
  <2>3. g[n + 1] = s[n + 1].bytes
    BY <1>3, <1>4
  <2>4. Joined(s, n) = <<>>
    BY <1>1, <1>4
  <2> QED BY <1>1, <1>2, <2>2, <2>3, <2>4
<1>5. CASE n # 0
  <2>1. PICK f : JoinedUpTo(s, n, f) /\ Joined(s, n) = f[n]
    BY <1>5, JoinedIs
  <2>2. f[n] = g[n]
    BY <1>2, <1>5, <2>1, JoinedAgree
  <2>3. g[n + 1] = g[n] \o s[n + 1].bytes
    <3>1. n + 1 # 1
      BY <1>5
    <3> QED BY <1>3, <3>1, Zenon
  <2> QED BY <1>1, <1>2, <2>1, <2>2, <2>3
<1> QED BY <1>4, <1>5

\* It is a sequence of bytes.
LEMMA JoinedTyped ==
  ASSUME NEW s, NEW S, NEW N \in Nat, \A i \in 1..N : s[i].bytes \in Seq(S)
  PROVE  \A n \in 0..N : Joined(s, n) \in Seq(S)
<1> DEFINE Bad == {n \in 0..N : Joined(s, n) \notin Seq(S)}
<1>1. ASSUME Bad # {} PROVE FALSE
  <2>0. Bad \in SUBSET Nat
    OBVIOUS
  <2>1. PICK n \in Bad : \A m \in Bad : n <= m
    BY <1>1, <2>0, LowestNumber
  <2>2. CASE n = 0
    <3>1. Joined(s, 0) = <<>>
      BY NoneJoined
    <3>2. Joined(s, n) \in Seq(S)
      BY <2>2, <3>1, EmptySeq
    <3> QED BY <2>1, <3>2
  <2>3. CASE n # 0
    <3>1. n - 1 \in Nat /\ n - 1 \in 0..N /\ n - 1 \notin Bad /\ (n - 1) + 1 = n /\ n \in 1..N
      BY <2>1, <2>3
    <3>2. Joined(s, n - 1) \in Seq(S) /\ s[n].bytes \in Seq(S)
      BY <3>1
    <3>3. \A i \in 1..((n - 1) + 1) : s[i].bytes \in Seq(S)
      BY <3>1
    <3>4. Joined(s, n) = Joined(s, n - 1) \o s[n].bytes
      BY <3>1, <3>3, JoinedSteps
    <3>5. Joined(s, n) \in Seq(S)
      BY <3>2, <3>4, ConcatProperties
    <3> QED BY <2>1, <3>5
  <2> QED BY <2>2, <2>3
<1> QED BY <1>1

\* More messages are longer, and begin with the fewer ones.
LEMMA JoinedPrefix ==
  ASSUME NEW s, NEW S, NEW N \in Nat, \A i \in 1..N : s[i].bytes \in Seq(S), NEW n \in 0..N
  PROVE  \A m \in n..N : /\ Len(Joined(s, n)) <= Len(Joined(s, m))
                         /\ \A j \in 1..Len(Joined(s, n)) : Joined(s, m)[j] = Joined(s, n)[j]
<1> DEFINE P(m) == /\ Len(Joined(s, n)) <= Len(Joined(s, m))
                   /\ \A j \in 1..Len(Joined(s, n)) : Joined(s, m)[j] = Joined(s, n)[j]
           Bad == {m \in n..N : ~P(m)}
<1>0. \A m \in 0..N : Joined(s, m) \in Seq(S) /\ Len(Joined(s, m)) \in Nat
  <2>1. \A m \in 0..N : Joined(s, m) \in Seq(S)
    BY JoinedTyped
  <2> QED BY <2>1, LenProperties
<1>1. ASSUME Bad # {} PROVE FALSE
  <2>0. Bad \in SUBSET Nat
    OBVIOUS
  <2>1. PICK m \in Bad : \A k \in Bad : m <= k
    BY <1>1, <2>0, LowestNumber
  <2>2. CASE m = n
    <3>1. P(n)
      BY <1>0
    <3> QED BY <2>1, <2>2, <3>1
  <2>3. CASE m # n
    <3>1. m - 1 \in Nat /\ m - 1 \in n..N /\ m - 1 \notin Bad /\ (m - 1) + 1 = m /\ m \in 1..N /\ m - 1 \in 0..N
      BY <2>1, <2>3
    <3>2. P(m - 1)
      BY <3>1
    <3>3. \A i \in 1..((m - 1) + 1) : s[i].bytes \in Seq(S)
      BY <3>1
    <3>4. Joined(s, m) = Joined(s, m - 1) \o s[m].bytes
      BY <3>1, <3>3, JoinedSteps
    <3> DEFINE a == Joined(s, n)
               b == Joined(s, m - 1)
               c == s[m].bytes
    <3>5. a \in Seq(S) /\ b \in Seq(S) /\ c \in Seq(S) /\ Len(a) \in Nat /\ Len(b) \in Nat /\ Len(c) \in Nat
      BY <1>0, <3>1, LenProperties
    <3>6. Len(a) <= Len(b) /\ \A j \in 1..Len(a) : b[j] = a[j]
      BY <3>2
    <3>9. Joined(s, m) = b \o c
      BY <3>4
    <3> HIDE DEF a, b, c
    <3>7. Len(b \o c) = Len(b) + Len(c) /\ \A j \in 1..Len(b) + Len(c) : (b \o c)[j] = IF j <= Len(b) THEN b[j] ELSE c[j - Len(b)]
      BY <3>5, ConcatProperties
    <3>8. Len(a) <= Len(b \o c) /\ \A j \in 1..Len(a) : (b \o c)[j] = a[j]
      BY <3>5, <3>6, <3>7
    <3>10. P(m)
      BY <3>8, <3>9 DEF a
    <3> QED BY <2>1, <3>10
  <2> QED BY <2>2, <2>3
<1>2. \A m \in n..N : P(m)
  BY <1>1
<1> QED BY <1>2

\* The stream of a script, and where its messages end in it.
LEMMA StreamFacts ==
  ASSUME script \in Scripts
  PROVE  /\ Len(script) \in Nat /\ Stream \in Seq(AnyByte) /\ Len(Stream) \in Nat /\ Len(Stream) = EndOf(Len(script))
         /\ EndOf(0) = 0
         /\ \A i \in 0..Len(script) : EndOf(i) \in Nat /\ EndOf(i) <= Len(Stream)
         /\ \A i \in 0..Len(script) : \A j \in i..Len(script) : EndOf(i) <= EndOf(j)
         /\ \A i \in 1..Len(script) :
              /\ script[i].bytes \in Seq(AnyByte) /\ Len(script[i].bytes) \in Nat /\ script[i].head \in 1..Len(script[i].bytes)
              /\ EndOf(i) = EndOf(i - 1) + Len(script[i].bytes)
              /\ \A j \in 1..Len(script[i].bytes) : Stream[EndOf(i - 1) + j] = script[i].bytes[j]
<1> DEFINE N == Len(script)
<1>1. N \in Nat /\ \A i \in 1..N : script[i].bytes \in Seq(AnyByte) /\ script[i].head \in 1..Len(script[i].bytes)
  BY ScriptsAssumption
<1>2. Stream = Joined(script, N) /\ \A n : EndOf(n) = Len(Joined(script, n))
  BY DEF Stream, EndOf, Joined
<1> HIDE DEF N
<1>3. \A n \in 0..N : Joined(script, n) \in Seq(AnyByte) /\ Len(Joined(script, n)) \in Nat
  <2>1. \A n \in 0..N : Joined(script, n) \in Seq(AnyByte)
    BY <1>1, JoinedTyped
  <2> QED BY <2>1, LenProperties
<1>4. \A i \in 0..N : \A j \in i..N : EndOf(i) <= EndOf(j)
  BY <1>1, <1>2, JoinedPrefix
<1>5. Stream \in Seq(AnyByte) /\ Len(Stream) \in Nat /\ Len(Stream) = EndOf(N)
  BY <1>1, <1>2, <1>3
<1>6. \A i \in 0..N : EndOf(i) \in Nat /\ EndOf(i) <= Len(Stream)
  BY <1>1, <1>2, <1>3, <1>4, <1>5
<1>7. EndOf(0) = 0
  BY <1>2, NoneJoined
<1>8. ASSUME NEW i \in 1..N
      PROVE  /\ Len(script[i].bytes) \in Nat
             /\ EndOf(i) = EndOf(i - 1) + Len(script[i].bytes)
             /\ \A j \in 1..Len(script[i].bytes) : Stream[EndOf(i - 1) + j] = script[i].bytes[j]
  <2> DEFINE b == Joined(script, i - 1)
             c == script[i].bytes
             d == Joined(script, i)
  <2>1. i - 1 \in Nat /\ i - 1 \in 0..N /\ i \in 0..N /\ (i - 1) + 1 = i /\ N \in i..N
    BY <1>1
  <2>2. \A k \in 1..((i - 1) + 1) : script[k].bytes \in Seq(AnyByte)
    BY <1>1, <2>1
  <2>3. d = b \o c
    BY <2>1, <2>2, JoinedSteps
  <2>4. b \in Seq(AnyByte) /\ c \in Seq(AnyByte) /\ Len(b) \in Nat /\ Len(c) \in Nat
    BY <1>1, <1>3, <2>1, LenProperties
  <2>5. \A j \in 1..Len(d) : Stream[j] = d[j]
    BY <1>1, <1>2, <2>1, JoinedPrefix
  <2>6. EndOf(i - 1) = Len(b) /\ EndOf(i) = Len(d)
    BY <1>2
  <2> HIDE DEF b, c, d
  <2>7. Len(d) = Len(b) + Len(c) /\ \A j \in 1..Len(b) + Len(c) : d[j] = IF j <= Len(b) THEN b[j] ELSE c[j - Len(b)]
    BY <2>3, <2>4, ConcatProperties
  <2>8. ASSUME NEW j \in 1..Len(c) PROVE Stream[Len(b) + j] = c[j]
    <3> DEFINE k == Len(b) + j
    <3>1. k \in 1..Len(b) + Len(c) /\ ~(k <= Len(b)) /\ k - Len(b) = j
      BY <2>4
    <3> HIDE DEF k
    <3>2. Stream[k] = d[k] /\ d[k] = c[j]
      BY <3>1, <2>5, <2>7
    <3> QED BY <3>2 DEF k
  <2> QED BY <2>4, <2>6, <2>7, <2>8 DEF c
<1> QED BY <1>1, <1>4, <1>5, <1>6, <1>7, <1>8 DEF N

\* A piece of a message, cut out of the stream.
LEMMA Piece ==
  ASSUME script \in Scripts, NEW i \in 1..Len(script), NEW k \in Nat, NEW l \in k..Len(script[i].bytes)
  PROVE  /\ SubSeq(Stream, EndOf(i - 1) + k + 1, EndOf(i - 1) + l) = SubSeq(script[i].bytes, k + 1, l)
         /\ SubSeq(script[i].bytes, k + 1, l) \in Seq(AnyByte)
         /\ Len(SubSeq(script[i].bytes, k + 1, l)) = l - k
<1> DEFINE e == EndOf(i - 1)
           b == script[i].bytes
           s == Stream
<1>1. /\ e \in Nat /\ b \in Seq(AnyByte) /\ Len(b) \in Nat
      /\ \A j \in 1..Len(b) : s[e + j] = b[j]
  <2>1. i - 1 \in 0..Len(script)
    BY StreamFacts
  <2> QED BY <2>1, StreamFacts
<1>2. \A j \in 1..Len(b) : b[j] \in AnyByte
  BY <1>1, ElementOfSeq
<1>3. l \in Nat /\ k <= l /\ l <= Len(b)
  BY <1>1
<1> HIDE DEF e, b, s
<1>4. \A j \in (k + 1)..l : b[j] \in AnyByte
  BY <1>1, <1>2, <1>3
<1>5. /\ SubSeq(b, k + 1, l) \in Seq(AnyByte) /\ Len(SubSeq(b, k + 1, l)) = l - k
      /\ \A j \in 1..(l - k) : SubSeq(b, k + 1, l)[j] = b[k + j]
  <2>1. /\ SubSeq(b, k + 1, l) \in Seq(AnyByte)
        /\ Len(SubSeq(b, k + 1, l)) = IF k + 1 <= l THEN l - (k + 1) + 1 ELSE 0
        /\ \A j \in 1..l - (k + 1) + 1 : SubSeq(b, k + 1, l)[j] = b[(k + 1) + j - 1]
    BY <1>3, <1>4, SubSeqProperties
  <2>2. l - (k + 1) + 1 = l - k /\ \A j \in 1..(l - k) : (k + 1) + j - 1 = k + j
    BY <1>3
  <2> QED BY <1>3, <2>1, <2>2
<1>6. \A j \in (e + k + 1)..(e + l) : s[j] \in AnyByte
  <2>1. ASSUME NEW j \in (e + k + 1)..(e + l) PROVE s[j] \in AnyByte
    <3>1. j - e \in 1..Len(b) /\ e + (j - e) = j
      BY <1>1, <1>3
    <3> QED BY <1>1, <1>2, <3>1
  <2> QED BY <2>1
<1>7. /\ SubSeq(s, e + k + 1, e + l) \in Seq(AnyByte) /\ Len(SubSeq(s, e + k + 1, e + l)) = l - k
      /\ \A j \in 1..(l - k) : SubSeq(s, e + k + 1, e + l)[j] = s[e + (k + j)]
  <2>1. /\ SubSeq(s, e + k + 1, e + l) \in Seq(AnyByte)
        /\ Len(SubSeq(s, e + k + 1, e + l)) = IF e + k + 1 <= e + l THEN (e + l) - (e + k + 1) + 1 ELSE 0
        /\ \A j \in 1..(e + l) - (e + k + 1) + 1 : SubSeq(s, e + k + 1, e + l)[j] = s[(e + k + 1) + j - 1]
    <3>1. e + k + 1 \in Int /\ e + l \in Int
      BY <1>1, <1>3
    <3> QED BY <1>6, <3>1, SubSeqProperties
  <2>2. (e + l) - (e + k + 1) + 1 = l - k /\ \A j \in 1..(l - k) : (e + k + 1) + j - 1 = e + (k + j)
    BY <1>1, <1>3
  <2>3. e + k + 1 <= e + l <=> k < l
    BY <1>1, <1>3
  <2> QED BY <1>3, <2>1, <2>2, <2>3
<1>8. \A j \in 1..(l - k) : s[e + (k + j)] = b[k + j]
  BY <1>1, <1>3
<1>9. SubSeq(s, e + k + 1, e + l) = SubSeq(b, k + 1, l)
  BY <1>5, <1>7, <1>8, SeqEqual
<1> QED BY <1>5, <1>9 DEF e, b, s

\* The stream does not change.
LEMMA SameStream ==
  ASSUME script' = script
  PROVE  Stream' = Stream /\ \A n : EndOf(n)' = EndOf(n)
BY DEF Stream, EndOf

\* What the peer may have sent it may have sent when more has been answered.
LEMMA MayStill ==
  ASSUME Counts, script' = script, answered' \in Nat, answered <= answered', NEW n \in Nat, May(n)
  PROVE  May(n)'
<1>1. InsideHead(n)' <=> InsideHead(n)
  BY SameStream DEF InsideHead
<1>2. \A i \in 1..Len(script) : (n > EndOf(i - 1))' <=> n > EndOf(i - 1)
  BY SameStream
<1>3. answered \in Nat
  BY StreamFacts DEF Counts
<1> QED BY <1>1, <1>2, <1>3 DEF May

\* The peer is not ahead of the message that is being answered, and has not stopped within its head.
LEMMA PeerKeepsOrder ==
  ASSUME Orderly, Counts
  PROVE  /\ answered < Len(script) => sent <= EndOf(answered + 1)
         /\ answered < Len(script) /\ sent > EndOf(answered) => sent >= EndOf(answered) + Now.head
         /\ answered = Len(script) => sent <= EndOf(answered)
<1>1. script \in Scripts /\ sent \in 0..Len(Stream) /\ answered \in 0..Len(script) /\ May(sent) /\ Whole /\ Waits
  BY DEF Counts, Orderly
<1>2. Len(script) \in Nat /\ Len(Stream) \in Nat /\ Len(Stream) = EndOf(Len(script)) /\ \A i \in 0..Len(script) : EndOf(i) \in Nat
  BY <1>1, StreamFacts
<1>3. ~InsideHead(sent) /\ \A i \in 1..Len(script) : sent > EndOf(i - 1) => answered >= i - 1
  BY <1>1 DEF May
<1>4. ASSUME answered < Len(script) PROVE sent <= EndOf(answered + 1)
  <2>1. CASE answered + 1 = Len(script)
    BY <1>1, <1>2, <2>1
  <2>2. CASE answered + 1 # Len(script)
    <3>1. answered + 2 \in 1..Len(script) /\ (answered + 2) - 1 = answered + 1 /\ answered + 1 \in 0..Len(script)
      BY <1>1, <1>2, <1>4, <2>2
    <3>2. ~(sent > EndOf(answered + 1))
      BY <1>1, <1>2, <1>3, <3>1
    <3> QED BY <1>1, <1>2, <3>1, <3>2
  <2> QED BY <2>1, <2>2
<1>5. ASSUME answered < Len(script), sent > EndOf(answered) PROVE sent >= EndOf(answered) + Now.head
  <2>1. answered + 1 \in 1..Len(script) /\ (answered + 1) - 1 = answered /\ answered \in 0..Len(script)
    BY <1>1, <1>2, <1>5
  <2>2. ~(sent < EndOf(answered) + script[answered + 1].head)
    BY <1>3, <1>5, <2>1 DEF InsideHead
  <2>3. script[answered + 1].head \in Nat
    <3>1. script[answered + 1].head \in 1..Len(script[answered + 1].bytes) /\ Len(script[answered + 1].bytes) \in Nat
      BY <1>1, <2>1, StreamFacts
    <3> QED BY <3>1
  <2> QED BY <1>1, <1>2, <2>1, <2>2, <2>3 DEF Now
<1>6. answered = Len(script) => sent <= EndOf(answered)
  BY <1>1, <1>2
<1> QED BY <1>4, <1>5, <1>6

-----------------------------------------------------------------------------
(* What the steps have in common                                           *)

\* Reading on, and answering, with nothing new served.
LEMMA CountsKept ==
  ASSUME Counts, Served, script' = script, sent' = sent, served' = served, taken' \in taken..sent,
         answered' \in answered..Len(script), fails' \in {fails, fails + 1}
  PROVE  Counts' /\ Served'
<1>1. /\ script \in Scripts /\ sent \in 0..Len(Stream) /\ May(sent) /\ taken \in 0..sent
      /\ answered \in 0..Len(script) /\ fails \in Nat
      /\ served \in Seq(Range(served)) /\ Len(served) <= Len(script) /\ taken >= EndOf(Len(served))
  BY DEF Counts
<1>2. /\ Len(script) \in Nat /\ Len(Stream) \in Nat /\ Len(served) \in Nat
      /\ \A i \in 0..Len(script) : EndOf(i) \in Nat
  BY <1>1, StreamFacts, LenProperties
<1>3. Stream' = Stream /\ EndOf(Len(served))' = EndOf(Len(served))
  BY SameStream
<1>4. May(sent)'
  <2>1. answered' \in Nat /\ answered <= answered' /\ sent \in Nat
    BY <1>1, <1>2
  <2> QED BY <1>1, <2>1, MayStill
<1>5. taken' >= EndOf(Len(served))
  <2>1. EndOf(Len(served)) \in Nat
    BY <1>1, <1>2
  <2> QED BY <1>1, <1>2, <2>1
<1>6. taken' \in 0..sent /\ answered' \in 0..Len(script) /\ fails' \in Nat
  BY <1>1, <1>2
<1>7. Counts'
  BY <1>1, <1>3, <1>4, <1>5, <1>6 DEF Counts
<1>8. Served'
  <2>1. fails' = 0 => fails = 0
    BY <1>1
  <2> QED BY <2>1 DEF Served, GoodAnswer
<1> QED BY <1>7, <1>8

\* A session that is over.
LEMMA OverKept ==
  ASSUME Inv, script' = script, sent' = sent, served' = served, taken' \in taken..sent,
         answered' = answered, fails' \in {fails, fails + 1}, pc' \in {"closed", "aborted", "corrupted"}
  PROVE  Inv'
<1>1. answered' \in answered..Len(script)
  BY StreamFacts DEF Inv, Counts
<1>2. Counts' /\ Served'
  BY <1>1, CountsKept DEF Inv
<1> QED BY <1>2 DEF Inv, HeadInv, BodyInv, RespondInv, AnsweredInv

\* A request is handed over when its last byte has been read.
LEMMA ServeKept ==
  ASSUME Inv, script' = script, sent' = sent, answered' = answered, fails' = fails,
         answered < Len(script), Len(served) = answered, taken' = EndOf(answered + 1), taken' \in taken..sent,
         NEW q, Serve(q), fails = 0 => q = Now.expected, GoodAnswer(Now)
  PROVE  Inv'
<1>1. /\ script \in Scripts /\ sent \in 0..Len(Stream) /\ May(sent) /\ taken \in 0..sent
      /\ answered \in 0..Len(script) /\ fails \in Nat /\ served \in Seq(Range(served))
  BY DEF Inv, Counts
<1>2. Len(script) \in Nat /\ Len(Stream) \in Nat
  BY <1>1, StreamFacts
<1>3. pc' = "respond" /\ served' = Append(served, q) /\ out' = Answer(q) /\ offset' = 0 /\ wire' = <<>>
  BY DEF Serve
<1>4. /\ served' \in Seq(Range(served')) /\ Len(served') = answered + 1
      /\ \A i \in 1..answered : served'[i] = served[i]
      /\ served'[answered + 1] = q
  <2> DEFINE S == Range(served) \cup {q}
  <2>1. served \in Seq(S) /\ q \in S
    BY <1>1, SeqMonotonic
  <2>2. /\ Append(served, q) \in Seq(S) /\ Len(Append(served, q)) = Len(served) + 1
        /\ \A i \in 1..Len(served) : Append(served, q)[i] = served[i]
        /\ Append(served, q)[Len(served) + 1] = q
    BY <2>1, AppendProperties
  <2>3. served' \in Seq(Range(served'))
    BY <1>3, <2>2, SeqOfRange
  <2> QED BY <1>3, <2>2, <2>3
<1>5. Stream' = Stream /\ EndOf(answered + 1)' = EndOf(answered + 1)
  BY SameStream
<1>6. May(sent)'
  BY <1>1, <1>2, MayStill DEF Inv
<1>7. taken' \in 0..sent /\ answered + 1 <= Len(script) /\ taken' >= EndOf(answered + 1)
  <2>1. EndOf(answered + 1) \in Nat
    BY <1>1, <1>2, StreamFacts
  <2> QED BY <1>1, <1>2, <2>1
<1>8. EndOf(Len(served))' = EndOf(answered + 1)
  BY <1>4, SameStream DEF EndOf
<1>9. Counts'
  BY <1>1, <1>4, <1>5, <1>6, <1>7, <1>8 DEF Counts
<1>10. Served'
  <2> SUFFICES ASSUME fails = 0, NEW i \in 1..(answered + 1)
               PROVE  served'[i] = script[i].expected /\ GoodAnswer(script[i])
    BY <1>4 DEF Served, GoodAnswer
  <2>1. CASE i = answered + 1
    BY <1>4, <2>1 DEF Now
  <2>2. CASE i # answered + 1
    <3>1. i \in 1..answered
      BY <1>1, <1>2, <2>2
    <3> QED BY <1>4, <3>1 DEF Inv, Served
  <2> QED BY <2>1, <2>2
<1>11. RespondInv'
  <2>1. Now' = Now
    BY DEF Now
  <2>2. ASSUME fails = 0 PROVE out' = Answer(Now.expected) /\ 0 \in 0..Len(out') /\ <<>> = SubSeq(out', 1, 0)
    <3>1. out' = Answer(Now.expected)
      BY <1>3, <2>2
    <3>2. out' \in Seq(AnyByte)
      BY <3>1 DEF GoodAnswer
    <3>3. SubSeq(out', 1, 0) = <<>>
      BY SubSeqEmpty
    <3>4. Len(out') \in Nat
      BY <3>2, LenProperties
    <3> QED BY <3>1, <3>3, <3>4
  <2> QED BY <1>3, <1>4, <1>5, <2>1, <2>2 DEF RespondInv
<1> QED BY <1>3, <1>9, <1>10, <1>11 DEF Inv, HeadInv, BodyInv, AnsweredInv

-----------------------------------------------------------------------------
(* The steps, one by one                                                   *)

\* At the beginning nothing is sent, read or served.
LEMMA InitKeeps == Init => Inv
<1> SUFFICES ASSUME Init PROVE Inv
  OBVIOUS
<1>1. script \in Scripts /\ sent = 0 /\ taken = 0 /\ pc = "head" /\ data = <<>> /\ answered = 0 /\ fails = 0 /\ served = <<>>
      /\ parser \in {NewParser(b) : b \in BOOLEAN}
  BY DEF Init
<1>2. Len(script) \in Nat /\ Len(Stream) \in Nat /\ EndOf(0) = 0 /\ \A i \in 0..Len(script) : EndOf(i) \in Nat
  BY <1>1, StreamFacts
<1>3. served \in Seq(Range(served)) /\ Len(served) = 0
  BY <1>1, EmptySeq
<1>4. May(0)
  <2>1. \A i \in 1..Len(script) : ~(0 > EndOf(i - 1))
    <3>1. ASSUME NEW i \in 1..Len(script) PROVE ~(0 > EndOf(i - 1))
      <4>1. i - 1 \in 0..Len(script)
        BY <1>2
      <4>2. EndOf(i - 1) \in Nat
        BY <1>2, <4>1
      <4> QED BY <4>2
    <3> QED BY <3>1
  <2> QED BY <2>1 DEF May, InsideHead
<1>5. Counts
  BY <1>1, <1>2, <1>3, <1>4 DEF Counts
<1>6. Served
  BY <1>3 DEF Served
<1>7. HeadInv
  BY <1>1, <1>2, <1>3 DEF HeadInv
<1> QED BY <1>1, <1>5, <1>6, <1>7 DEF Inv, BodyInv, RespondInv, AnsweredInv

\* The peer sends or closes its side.
LEMMA PeerKeeps == Inv /\ (PeerSends \/ PeerEnds) => Inv'
<1> SUFFICES ASSUME Inv, PeerSends \/ PeerEnds PROVE Inv'
  OBVIOUS
<1>1. script' = script /\ UNCHANGED sessionVars
  BY DEF PeerSends, PeerEnds
<1>2. UNCHANGED <<taken, pc, data, parser, body, left, fails, served, out, offset, wire, answered>>
  BY <1>1 DEF sessionVars
<1>3. sent' = sent \/ sent' \in {n \in (sent + 1)..Len(Stream) : May(n)}
  BY DEF PeerSends, PeerEnds
<1>4. sent \in 0..Len(Stream) /\ May(sent) /\ taken \in 0..sent /\ script \in Scripts
  BY DEF Inv, Counts
<1>5. Len(Stream) \in Nat
  BY <1>4, StreamFacts
<1>6. sent' \in 0..Len(Stream) /\ taken \in 0..(sent') /\ May(sent')
  BY <1>3, <1>4, <1>5
<1>7. Stream' = Stream /\ \A n : EndOf(n)' = EndOf(n)
  BY <1>1, SameStream
<1>8. May(sent)'
  <2>1. answered \in Nat
    BY <1>4, StreamFacts DEF Inv, Counts
  <2>2. script' = script /\ answered' = answered
    BY <1>1, <1>2
  <2> HIDE DEF Inv
  <2>3. \A n : InsideHead(n)' <=> InsideHead(n)
    BY <2>2, <1>7 DEF InsideHead
  <2> QED BY <1>6, <1>7, <2>2 DEF May, InsideHead
<1>9. Counts'
  BY <1>1, <1>2, <1>4, <1>6, <1>7, <1>8 DEF Inv, Counts
<1>10. Served' /\ Now' = Now
  BY <1>1, <1>2 DEF Inv, Served, GoodAnswer, Now
<1>11. HeadInv' /\ RespondInv' /\ AnsweredInv'
  BY <1>1, <1>2, <1>7, <1>10 DEF Inv, HeadInv, RespondInv, AnsweredInv
<1>12. BodyInv'
  BY <1>1, <1>2, <1>7, <1>10 DEF Inv, BodyInv, GoodAnswer
<1> QED BY <1>9, <1>10, <1>11, <1>12 DEF Inv

\* The end of the stream before the request is whole, and a failed read of a head.
LEMMA EndsKeep == Inv /\ (HeadEnds \/ BodyEnds \/ HeadFails) /\ UNCHANGED peerVars => Inv'
<1> SUFFICES ASSUME Inv, HeadEnds \/ BodyEnds \/ HeadFails, UNCHANGED peerVars PROVE Inv'
  OBVIOUS
<1>1. script' = script /\ sent' = sent
  BY DEF peerVars
<1>2. served' = served /\ taken' = taken /\ answered' = answered /\ pc' = "closed" /\ fails' \in {fails, fails + 1}
  BY DEF HeadEnds, BodyEnds, HeadFails
<1>3. taken \in taken..sent
  BY StreamFacts DEF Inv, Counts
<1> QED BY <1>1, <1>2, <1>3, OverKept

\* A failed read in a body, after which one byte more is wanted than the message has.
LEMMA BodyFailsKeeps == Inv /\ BodyFails /\ UNCHANGED peerVars => Inv'
<1> SUFFICES ASSUME Inv, BodyFails, UNCHANGED peerVars PROVE Inv'
  OBVIOUS
<1>1. script' = script /\ sent' = sent
  BY DEF peerVars
<1>2. served' = served /\ taken' = taken /\ answered' = answered /\ fails' = fails + 1 /\ parser' = parser /\ pc = "body"
  BY DEF BodyFails
<1>3. taken \in taken..sent /\ answered \in answered..Len(script) /\ fails \in Nat /\ taken \in Nat
  BY StreamFacts DEF Inv, Counts
<1>4. CASE body = <<>>
  <2>1. pc' = "corrupted"
    BY <1>4 DEF BodyFails
  <2> QED BY <1>1, <1>2, <1>3, <2>1, OverKept
<1>5. CASE body # <<>>
  <2>1. left' = left + 1 /\ pc' = "body"
    BY <1>2, <1>5 DEF BodyFails
  <2>2. Counts' /\ Served'
    BY <1>1, <1>2, <1>3, CountsKept DEF Inv
  <2>3. Now' = Now /\ \A n : EndOf(n)' = EndOf(n)
    BY <1>1, <1>2, SameStream DEF Now
  <2>4. fails' # 0
    BY <1>2, <1>3
  <2>5. answered < Len(script) /\ left \in Nat \ {0} /\ taken + left >= EndOf(answered + 1) /\ EndOf(answered + 1) \in Nat
    <3>1. answered < Len(script) /\ left \in Nat \ {0} /\ taken + left >= EndOf(answered + 1)
      BY <1>2 DEF Inv, BodyInv
    <3>2. answered + 1 \in 0..Len(script) /\ script \in Scripts
      BY <3>1, StreamFacts DEF Inv, Counts
    <3> QED BY <3>1, <3>2, StreamFacts
  <2>6. left' \in Nat \ {0} /\ taken + left' >= EndOf(answered + 1)
    BY <1>3, <2>1, <2>5
  <2>7. BodyInv'
    BY <1>1, <1>2, <2>3, <2>4, <2>6 DEF Inv, BodyInv, GoodAnswer
  <2> QED BY <2>1, <2>2, <2>7 DEF Inv, HeadInv, RespondInv, AnsweredInv
<1> QED BY <1>4, <1>5

\* A piece of the body comes in.
LEMMA RecvBodyKeeps == Orderly /\ Inv /\ RecvBody /\ UNCHANGED peerVars => Inv'
<1> SUFFICES ASSUME Orderly, Inv, RecvBody, UNCHANGED peerVars PROVE Inv'
  OBVIOUS
<1> DEFINE n == Received(left)
           a == answered
           m == script[a + 1]
           b == m.bytes
           e == EndOf(a)
<1>1. script' = script /\ sent' = sent
  BY DEF peerVars
<1>2. /\ pc = "body" /\ n > 0 /\ taken' = taken + n /\ body' = body \o New(n) /\ left' = left - n
      /\ answered' = answered /\ fails' = fails /\ parser' = parser /\ data' = data
  BY DEF RecvBody
<1>3. /\ a < Len(script) /\ Len(served) = a /\ left \in Nat \ {0}
      /\ taken >= e + m.head /\ taken + left >= EndOf(a + 1)
      /\ [parser.data EXCEPT !.body = SubSeq(b, m.head + 1, Len(b))] = m.expected
      /\ GoodAnswer(m)
      /\ fails = 0 => taken + left = EndOf(a + 1) /\ body = SubSeq(b, m.head + 1, taken - e)
  BY <1>2 DEF Inv, BodyInv, Now
<1>4. /\ script \in Scripts /\ a \in 0..Len(script) /\ sent \in 0..Len(Stream) /\ taken \in 0..sent /\ Len(script) \in Nat
      /\ Len(Stream) \in Nat
  BY StreamFacts DEF Inv, Counts
<1>5. a \in 0..Len(script) /\ a + 1 \in 1..Len(script) /\ a + 1 \in 0..Len(script) /\ (a + 1) - 1 = a /\ a \in a..Len(script)
  BY <1>3, <1>4
<1>6. /\ b \in Seq(AnyByte) /\ Len(b) \in Nat /\ m.head \in 1..Len(b) /\ e \in Nat /\ EndOf(a + 1) = e + Len(b)
  BY <1>4, <1>5, StreamFacts
<1>7. sent <= EndOf(a + 1)
  BY <1>3, PeerKeepsOrder DEF Inv
<1>8. n = (IF sent - taken < left THEN sent - taken ELSE left)
  BY DEF Received
<1>9. n \in Nat \ {0} /\ n <= left /\ n <= sent - taken
  <2> HIDE DEF n
  <2> QED BY <1>2, <1>3, <1>4, <1>8
<1>10. taken' \in taken..sent
  <2> HIDE DEF n
  <2> QED BY <1>2, <1>4, <1>9
<1>11. left' # 0 => Counts' /\ Served'
  BY <1>1, <1>2, <1>5, <1>10, CountsKept DEF Inv, RecvBody
<1> DEFINE k == taken - e
<1>12. k \in Nat /\ k >= m.head /\ taken = e + k /\ n + k <= Len(b) /\ taken + n = e + (k + n)
  <2> DEFINE h == m.head
             l == Len(b)
             r == EndOf(a + 1)
  <2>1. h \in Nat /\ l \in Nat /\ e \in Nat /\ taken >= e + h /\ taken \in Nat /\ r = e + l
    BY <1>3, <1>4, <1>6
  <2>2. sent <= r /\ sent \in Nat
    BY <1>4, <1>7
  <2> HIDE DEF h, l, r, n, e
  <2>3. taken - e \in Nat /\ taken - e >= h /\ taken = e + (taken - e) /\ n + (taken - e) <= l /\ taken + n = e + ((taken - e) + n)
    BY <1>9, <2>1, <2>2
  <2> QED BY <2>3 DEF h, l
<1>13. fails = 0 => body' = SubSeq(b, m.head + 1, k + n)
  <2> SUFFICES ASSUME fails = 0 PROVE body' = SubSeq(b, m.head + 1, k + n)
    OBVIOUS
  <2>1. body = SubSeq(b, m.head + 1, k)
    BY <1>3
  <2>2. New(n) = SubSeq(Stream, e + k + 1, e + (k + n))
    BY <1>12 DEF New
  <2> HIDE DEF n, k
  <2>3. k + n \in k..Len(b)
    BY <1>6, <1>9, <1>12
  <2>4. New(n) = SubSeq(b, k + 1, k + n)
    BY <1>4, <1>5, <1>12, <2>2, <2>3, Piece
  <2>5. m.head + 1 \in 1..Len(b) + 1 /\ k \in (m.head + 1) - 1..Len(b)
    <3> DEFINE h == m.head
               l == Len(b)
    <3>1. h \in 1..l /\ l \in Nat /\ k \in Nat /\ k >= h /\ n + k <= l /\ n \in Nat
      BY <1>6, <1>9, <1>12
    <3> HIDE DEF h, l
    <3>2. h + 1 \in 1..l + 1 /\ k \in (h + 1) - 1..l
      BY <3>1
    <3> QED BY <3>2 DEF h, l
  <2>6. SubSeq(b, m.head + 1, k) \o SubSeq(b, k + 1, k + n) = SubSeq(b, m.head + 1, k + n)
    <3>1. b \in Seq(AnyByte)
      BY <1>6
    <3> HIDE DEF b
    <3> QED BY <3>1, <2>3, <2>5, ConcatAdjacentSubSeq
  <2> QED BY <1>2, <2>1, <2>4, <2>6
<1>14. left' \in Nat
  <2> HIDE DEF n
  <2> QED BY <1>2, <1>3, <1>9
<1>15. CASE left' = 0
  <2>1. Serve([parser.data EXCEPT !.body = body'])
    BY <1>15 DEF RecvBody
  <2>2. n = left
    <3> HIDE DEF n
    <3> QED BY <1>2, <1>3, <1>9, <1>15
  <2>3. taken' = EndOf(a + 1)
    <3> DEFINE r == EndOf(a + 1)
    <3>1. r \in Nat /\ taken + left >= r /\ sent <= r /\ sent \in Nat /\ taken \in Nat
      BY <1>3, <1>4, <1>6, <1>7
    <3>3. left \in Nat /\ left <= sent - taken /\ taken' = taken + left
      BY <1>2, <1>3, <1>9, <2>2
    <3> HIDE DEF r, n
    <3>2. taken' = r
      BY <3>1, <3>3
    <3> QED BY <3>2 DEF r
  <2>4. ASSUME fails = 0 PROVE [parser.data EXCEPT !.body = body'] = m.expected
    <3>1. taken + n = e + Len(b)
      BY <1>2, <1>6, <2>3
    <3>2. k + n = Len(b)
      <4> DEFINE l == Len(b)
      <4>1. l \in Nat /\ e \in Nat /\ k \in Nat /\ n \in Nat /\ taken + n = e + (k + n) /\ taken + n = e + l
        BY <1>6, <1>9, <1>12, <3>1
      <4> HIDE DEF k, n, l, e
      <4>2. k + n = l
        BY <4>1
      <4> QED BY <4>2 DEF l
    <3> QED BY <1>3, <1>13, <2>4, <3>2
  <2> HIDE DEF n, m
  <2> QED BY <1>1, <1>2, <1>3, <1>10, <2>1, <2>3, <2>4, ServeKept DEF Now, m
<1>16. CASE left' # 0
  <2>1. UNCHANGED <<pc, served, out, offset, wire>>
    BY <1>16 DEF RecvBody
  <2>2. Now' = Now /\ \A i : EndOf(i)' = EndOf(i)
    BY <1>1, <1>2, SameStream DEF Now
  <2>3. taken' >= e + m.head /\ taken' + left' >= EndOf(a + 1) /\ (fails = 0 => taken' + left' = EndOf(a + 1))
    <3> DEFINE r == EndOf(a + 1)
               h == m.head
    <3>1. r \in Nat /\ taken + left >= r /\ taken \in Nat /\ taken >= e + h /\ e \in Nat /\ h \in Nat
          /\ (fails = 0 => taken + left = r)
      BY <1>3, <1>4, <1>6
    <3> HIDE DEF r, h, n, e
    <3>2. taken' >= e + h /\ taken' + left' >= r /\ (fails = 0 => taken' + left' = r)
      BY <1>2, <1>3, <1>9, <3>1
    <3> QED BY <3>2 DEF r, h
  <2>4. fails = 0 => body' = SubSeq(b, m.head + 1, taken' - e)
    <3>1. taken' - e = k + n
      <4> HIDE DEF n, k
      <4> QED BY <1>2, <1>6, <1>9, <1>12
    <3> QED BY <1>13, <3>1
  <2>5. BodyInv'
    <3>1. m = Now
      BY DEF Now
    <3>2. /\ a < Len(script) /\ Len(served) = a /\ left' \in Nat \ {0}
          /\ taken' >= EndOf(a) + Now.head /\ taken' + left' >= EndOf(a + 1)
          /\ [parser.data EXCEPT !.body = SubSeq(Now.bytes, Now.head + 1, Len(Now.bytes))] = Now.expected
          /\ GoodAnswer(Now)
          /\ fails = 0 => taken' + left' = EndOf(a + 1) /\ body' = SubSeq(Now.bytes, Now.head + 1, taken' - EndOf(a))
      BY <1>3, <1>14, <1>16, <2>3, <2>4, <3>1
    <3> HIDE DEF m, b, e, n, k
    <3> QED BY <1>1, <1>2, <2>1, <2>2, <3>2 DEF BodyInv, GoodAnswer
  <2> QED BY <1>2, <1>11, <1>16, <2>1, <2>5 DEF Inv, HeadInv, RespondInv, AnsweredInv
<1> QED BY <1>15, <1>16

\* What becomes of a head that execute() has gone through, in a buffer that it does not fill.
LEMMA HeadOutcomes ==
  ASSUME NEW all, NEW r, HeadResult(all, r), NEW rest, rest = SubSeq(all, r.parser.nread + 1, Len(all))
  PROVE  \/ pc' \in {"closed", "aborted"} /\ served' = served
         \/ ~Refuses(r) /\ IsFinished(r.parser) /\ HeadDone(r.parser, rest)
         \/ ~Refuses(r) /\ ~IsFinished(r.parser)
<1>1. CASE r.thrown
  <2>1. Closes
    BY <1>1 DEF HeadResult
  <2> QED BY <2>1 DEF Closes
<1>2. CASE ~r.thrown /\ r.failed
  <2>1. pc' = "aborted" /\ UNCHANGED <<data, body, left, served, out, offset, wire>>
    BY <1>2 DEF HeadResult
  <2> QED BY <2>1
<1>3. CASE ~r.thrown /\ ~r.failed
  <2>1. (CASE HasError(r.parser) \/ Len(rest) = BufferSize -> Closes
             [] ~(HasError(r.parser) \/ Len(rest) = BufferSize) /\ IsFinished(r.parser) -> HeadDone(r.parser, rest)
             [] OTHER -> UNCHANGED <<pc, body, left, served, out, offset, wire>>)
    BY <1>3 DEF HeadResult
  <2>2. CASE HasError(r.parser) \/ Len(rest) = BufferSize
    <3>1. Closes
      BY <2>1, <2>2
    <3> QED BY <3>1 DEF Closes
  <2>3. CASE ~(HasError(r.parser) \/ Len(rest) = BufferSize) /\ IsFinished(r.parser)
    <3>1. HeadDone(r.parser, rest)
      BY <2>1, <2>3
    <3> QED BY <1>3, <2>3, <3>1 DEF Refuses
  <2>4. CASE ~(HasError(r.parser) \/ Len(rest) = BufferSize) /\ ~IsFinished(r.parser)
    BY <1>3, <2>4 DEF Refuses
  <2> QED BY <2>2, <2>3, <2>4
<1> QED BY <1>1, <1>2, <1>3

\* What one read finds at the beginning of a message: its whole head and the beginning of its body.
LEMMA HeadRead ==
  ASSUME Orderly, Inv, pc = "head", Received(BufferSize - Len(data)) > 0
  PROVE  LET n == Received(BufferSize - Len(data))
         IN /\ answered < Len(script) /\ n \in Nat /\ taken + n <= sent
            /\ n \in Now.head..Len(Now.bytes) /\ data \o New(n) = SubSeq(Now.bytes, 1, n)
<1> DEFINE n == Received(BufferSize - Len(data))
           a == answered
           m == script[a + 1]
           b == m.bytes
           e == EndOf(a)
           z == BufferSize
<1>1. Len(served) = a /\ taken = e /\ data = <<>>
  BY DEF Inv, HeadInv
<1>2. /\ script \in Scripts /\ a \in 0..Len(script) /\ sent \in 0..Len(Stream) /\ taken \in 0..sent /\ Len(script) \in Nat
      /\ Len(Stream) \in Nat
  BY StreamFacts DEF Inv, Counts
<1>3. e \in Nat /\ sent \in Nat /\ taken \in Nat
  BY <1>2, StreamFacts
<1>4. z \in Nat /\ BufferSize - Len(data) = z
  <2>1. Len(data) = 0
    BY <1>1
  <2> QED BY <2>1, SizesAssumption
<1>5. n = (IF sent - taken < z THEN sent - taken ELSE z) /\ n > 0
  BY <1>4 DEF Received
<1>6. n \in Nat \ {0} /\ n <= z /\ n <= sent - taken /\ (n = z \/ n = sent - taken)
  <2> HIDE DEF n, z
  <2> QED BY <1>3, <1>4, <1>5
<1>7. a < Len(script)
  <2>1. ASSUME a = Len(script) PROVE FALSE
    <3>1. sent <= e
      BY <2>1, PeerKeepsOrder DEF Inv
    <3> HIDE DEF n, e
    <3> QED BY <1>1, <1>3, <1>6, <3>1
  <2> QED BY <1>2, <2>1
<1>8. a + 1 \in 1..Len(script) /\ (a + 1) - 1 = a
  BY <1>2, <1>7
<1>9. /\ b \in Seq(AnyByte) /\ Len(b) \in Nat /\ m.head \in 1..Len(b) /\ EndOf(a + 1) = e + Len(b)
      /\ m.head <= z
  <2>1. m.head <= z
    BY <1>2, <1>8 DEF Orderly
  <2> QED BY <1>2, <1>8, <2>1, StreamFacts
<1>10. sent <= EndOf(a + 1) /\ sent >= e + m.head
  <2>1. sent > e
    <3> HIDE DEF n, e
    <3> QED BY <1>1, <1>3, <1>6
  <2> QED BY <1>7, <2>1, PeerKeepsOrder DEF Inv, Now
<1>11. n \in m.head..Len(b) /\ taken + n <= sent /\ taken + 0 + 1 = taken + 1
  <2> DEFINE h == m.head
             l == Len(b)
             r == EndOf(a + 1)
  <2>1. h \in Nat /\ l \in Nat /\ r = e + l /\ sent <= r /\ sent >= e + h /\ h <= z
    BY <1>9, <1>10
  <2> HIDE DEF h, l, r, e, n, z
  <2>2. n \in h..l /\ taken + n <= sent /\ taken + 0 + 1 = taken + 1
    BY <1>1, <1>3, <1>4, <1>6, <2>1
  <2> QED BY <2>2 DEF h, l
<1>12. New(n) = SubSeq(b, 1, n) /\ New(n) \in Seq(AnyByte)
  <2>1. n \in 0..Len(b)
    BY <1>6, <1>9, <1>11
  <2>2. New(n) = SubSeq(Stream, e + 0 + 1, e + n)
    BY <1>1, <1>11 DEF New
  <2> HIDE DEF n
  <2>3. 0 \in Nat /\ 0 + 1 = 1
    OBVIOUS
  <2>4. SubSeq(Stream, EndOf((a + 1) - 1) + 0 + 1, EndOf((a + 1) - 1) + n) = SubSeq(b, 0 + 1, n)
        /\ SubSeq(b, 0 + 1, n) \in Seq(AnyByte)
    BY <1>2, <1>8, <2>1, <2>3, Piece
  <2> QED BY <1>8, <2>2, <2>3, <2>4
<1>13. data \o New(n) = SubSeq(b, 1, n)
  BY <1>1, <1>12, ConcatEmptySeq
<1> HIDE DEF n
<1>14. answered < Len(script) /\ n \in Nat /\ taken + n <= sent /\ n \in Now.head..Len(Now.bytes)
       /\ data \o New(n) = SubSeq(Now.bytes, 1, n)
  BY <1>6, <1>7, <1>11, <1>13 DEF Now
<1> QED BY <1>14 DEF n

\* A read of a head, which is served at once when its body is there, or left at once when it is refused.
LEMMA RecvHeadKeeps == Orderly /\ Inv /\ RecvHead /\ UNCHANGED peerVars => Inv'
<1> SUFFICES ASSUME Orderly, Inv, RecvHead, UNCHANGED peerVars PROVE Inv'
  OBVIOUS
<1> DEFINE n == Received(BufferSize - Len(data))
           a == answered
           e == EndOf(a)
           b == Now.bytes
           h == Now.head
           l == Len(b)
<1>1. script' = script /\ sent' = sent
  BY DEF peerVars
<1>2. pc = "head" /\ n > 0 /\ taken' = taken + n /\ fails' = fails /\ answered' = answered
  BY DEF RecvHead
<1>3. a < Len(script) /\ n \in Nat /\ taken + n <= sent /\ n \in h..l /\ data \o New(n) = SubSeq(b, 1, n)
  BY <1>2, HeadRead
<1>4. PICK r : r = Execute(parser, SubSeq(b, 1, n)) /\ parser' = r.parser /\ HeadResult(SubSeq(b, 1, n), r)
  BY <1>3 DEF RecvHead
<1>5. /\ script \in Scripts /\ a \in 0..Len(script) /\ sent \in 0..Len(Stream) /\ taken \in 0..sent /\ Len(script) \in Nat
      /\ Len(Stream) \in Nat
  BY StreamFacts DEF Inv, Counts
<1>6. a + 1 \in 1..Len(script) /\ (a + 1) - 1 = a
  BY <1>3, <1>5
<1>7. b \in Seq(AnyByte) /\ l \in Nat /\ h \in 1..l /\ e \in Nat /\ EndOf(a + 1) = e + l
  BY <1>5, <1>6, StreamFacts DEF Now
<1>8. Len(served) = a /\ taken = e
  BY <1>2 DEF Inv, HeadInv
<1>9. taken' \in taken..sent
  <2> HIDE DEF n
  <2> QED BY <1>2, <1>3, <1>5
<1>10. Refuses(r) \/ Parses(r, Now)
  <2>1. PICK relaxed \in BOOLEAN : parser = NewParser(relaxed)
    BY <1>2 DEF Inv, HeadInv
  <2>2. Understood(Now)
    BY <1>5, <1>6 DEF Orderly, Now
  <2> HIDE DEF n
  <2> QED BY <1>3, <1>4, <2>1, <2>2 DEF Understood
<1> DEFINE rest == SubSeq(SubSeq(b, 1, n), r.parser.nread + 1, Len(SubSeq(b, 1, n)))
<1>11. \/ pc' \in {"closed", "aborted"} /\ served' = served
       \/ ~Refuses(r) /\ IsFinished(r.parser) /\ HeadDone(r.parser, rest)
       \/ ~Refuses(r) /\ ~IsFinished(r.parser)
  <2> HIDE DEF n, b
  <2> QED BY <1>4, HeadOutcomes
<1>12. CASE pc' \in {"closed", "aborted"} /\ served' = served
  BY <1>1, <1>2, <1>9, <1>12, OverKept
<1>13. CASE ~Refuses(r) /\ ~IsFinished(r.parser)
  BY <1>10, <1>13 DEF Parses
<1>14. CASE ~Refuses(r) /\ IsFinished(r.parser) /\ HeadDone(r.parser, rest)
  <2>1. /\ r.parser.nread = h /\ ContentLength(r.parser) = l - h
        /\ [r.parser.data EXCEPT !.body = SubSeq(b, h + 1, l)] = Now.expected
        /\ GoodAnswer(Now)
    BY <1>10, <1>14 DEF Parses, GoodAnswer
  <2>2. rest = SubSeq(b, h + 1, n) /\ rest \in Seq(AnyByte) /\ Len(rest) = n - h
    <3> HIDE DEF n, h
    <3>1. /\ SubSeq(b, 0 + 1, n) \in Seq(AnyByte) /\ Len(SubSeq(b, 0 + 1, n)) = n - 0
          /\ SubSeq(b, h + 1, n) \in Seq(AnyByte) /\ Len(SubSeq(b, h + 1, n)) = n - h
      <4>1. 0 \in Nat /\ h \in Nat /\ n \in 0..Len(b) /\ n \in h..Len(b)
        BY <1>3, <1>7
      <4> QED BY <1>5, <1>6, <4>1, Piece DEF Now
    <3>2. Len(SubSeq(b, 1, n)) = n /\ SubSeq(b, 1, n) \in Seq(AnyByte)
      BY <1>3, <3>1
    <3>3. rest = SubSeq(SubSeq(b, 1, n), h + 1, n)
      BY <2>1, <3>2
    <3>4. SubSeq(SubSeq(b, 1, n), h + 1, n) = SubSeq(b, h + 1, n)
      <4>1. CASE h = n
        <5>1. h + 1 \in Int /\ n \in Int /\ n < h + 1
          BY <1>3, <1>7, <4>1
        <5> QED BY <5>1, SubSeqEmpty
      <4>2. CASE h # n
        <5>1. 1 \in 1..Len(b) /\ n \in 1..Len(b) /\ h + 1 \in 1..n - 1 + 1 /\ n \in 1..n - 1 + 1
              /\ 1 + (h + 1) - 1 = h + 1 /\ 1 + n - 1 = n
          BY <1>3, <1>7, <4>2
        <5>2. b \in Seq(AnyByte)
          BY <1>7
        <5> HIDE DEF b
        <5>3. SubSeq(SubSeq(b, 1, n), h + 1, n) = SubSeq(b, 1 + (h + 1) - 1, 1 + n - 1)
          BY <5>1, <5>2, SubSeqOfSubSeq
        <5> QED BY <5>1, <5>3
      <4> QED BY <4>1, <4>2
    <3> QED BY <3>1, <3>3, <3>4
  <2> HIDE DEF rest
  <2>3. body' = rest /\ left' = l - n
    <3>1. /\ body' = SubSeq(rest, 1, IF l - h < Len(rest) THEN l - h ELSE Len(rest))
          /\ left' = (l - h) - Len(rest)
      BY <1>14, <2>1 DEF HeadDone
    <3> HIDE DEF n, h, l
    <3>2. ~(l - h < n - h) /\ (l - h) - (n - h) = l - n
      BY <1>3, <1>7
    <3>3. SubSeq(rest, 1, Len(rest)) = rest
      BY <2>2, SubSeqFull
    <3> QED BY <2>2, <3>1, <3>2, <3>3
  <2>4. IF left' > 0 THEN pc' = "body" /\ UNCHANGED <<served, out, offset, wire>>
                     ELSE Serve([r.parser.data EXCEPT !.body = body'])
    BY <1>14 DEF HeadDone
  <2>5. n <= l /\ h <= n /\ taken' = e + n
    <3> HIDE DEF n, h, l, e
    <3> QED BY <1>2, <1>3, <1>7, <1>8
  <2>6. CASE n = l
    <3>1. ~(left' > 0) /\ taken' = EndOf(a + 1)
      <4> HIDE DEF n, l, e
      <4> QED BY <1>7, <2>3, <2>5, <2>6
    <3>2. Serve([r.parser.data EXCEPT !.body = body'])
      BY <2>4, <3>1
    <3>3. [r.parser.data EXCEPT !.body = body'] = Now.expected
      BY <2>1, <2>2, <2>3, <2>6
    <3> HIDE DEF n, b, l, h, e
    <3> QED BY <1>1, <1>2, <1>3, <1>8, <1>9, <2>1, <3>1, <3>2, <3>3, ServeKept
  <2>7. CASE n # l
    <3>1. left' \in Nat \ {0} /\ left' > 0 /\ taken' + left' = EndOf(a + 1) /\ taken' >= e + h /\ taken' - e = n
          /\ taken' + left' >= EndOf(a + 1)
      <4> HIDE DEF n, l, e, h
      <4> QED BY <1>3, <1>7, <2>3, <2>5, <2>7
    <3>2. pc' = "body" /\ UNCHANGED <<served, out, offset, wire>>
      BY <2>4, <3>1
    <3>3. Counts' /\ Served'
      <4>1. a \in a..Len(script)
        BY <1>5
      <4> QED BY <1>1, <1>2, <1>9, <3>2, <4>1, CountsKept DEF Inv
    <3>4. Now' = Now /\ \A i : EndOf(i)' = EndOf(i)
      BY <1>1, <1>2, SameStream DEF Now
    <3>5. /\ a < Len(script) /\ Len(served) = a /\ left' \in Nat \ {0}
          /\ taken' >= EndOf(a) + Now.head /\ taken' + left' >= EndOf(a + 1)
          /\ [r.parser.data EXCEPT !.body = SubSeq(Now.bytes, Now.head + 1, Len(Now.bytes))] = Now.expected
          /\ GoodAnswer(Now)
          /\ taken' + left' = EndOf(a + 1) /\ body' = SubSeq(Now.bytes, Now.head + 1, taken' - EndOf(a))
      <4>1. body' = SubSeq(b, h + 1, taken' - e)
        BY <2>2, <2>3, <3>1
      <4> HIDE DEF n
      <4> QED BY <1>3, <1>8, <2>1, <3>1, <4>1
    <3> HIDE DEF n, b, l, h, e
    <3>6. BodyInv'
      BY <1>1, <1>2, <1>4, <3>2, <3>4, <3>5 DEF BodyInv, GoodAnswer
    <3> QED BY <3>2, <3>3, <3>6 DEF Inv, HeadInv, RespondInv, AnsweredInv
  <2> QED BY <2>6, <2>7
<1> QED BY <1>11, <1>12, <1>13, <1>14

\* send() takes the next bytes of the answer.
LEMMA SendTakes ==
  ASSUME NEW s \in Seq(AnyByte), NEW at \in 0..Len(s), NEW n \in Nat, at + n <= Len(s)
  PROVE  SubSeq(s, 1, at) \o Text(s, at, n) = SubSeq(s, 1, at + n)
<1>1. Len(s) \in Nat /\ DOMAIN s = 1..Len(s) /\ \A j \in 1..Len(s) : s[j] \in AnyByte
  BY LenProperties, ElementOfSeq
<1> DEFINE l == Len(s)
<1>2. Text(s, at, n) = [i \in 1..n |-> s[at + i]]
  <2>1. \A i \in 1..n : at + i \in 1..l
    <3>1. l \in Nat /\ at \in 0..l /\ at + n <= l
      BY <1>1
    <3> HIDE DEF l
    <3> QED BY <3>1
  <2> QED BY <1>1, <2>1 DEF Text
<1>3. SubSeq(s, at + 1, at + n) = [i \in 1..n |-> s[at + i]]
  <2>1. SubSeq(s, at + 1, at + n) = [i \in 1..((at + n) - (at + 1) + 1) |-> s[(at + 1) + i - 1]]
    BY DEF SubSeq
  <2>2. (at + n) - (at + 1) + 1 = n /\ \A i \in 1..n : (at + 1) + i - 1 = at + i
    BY <1>1
  <2> QED BY <2>1, <2>2
<1>4. 1 \in 1..Len(s) + 1 /\ at \in 1 - 1..Len(s) /\ at + n \in at..Len(s)
  <2>1. l \in Nat /\ at \in 0..l /\ at + n <= l
    BY <1>1
  <2> HIDE DEF l
  <2>2. 1 \in 1..l + 1 /\ at \in 1 - 1..l /\ at + n \in at..l
    BY <2>1
  <2> QED BY <2>2 DEF l
<1> QED BY <1>2, <1>3, <1>4, ConcatAdjacentSubSeq

\* send() takes some of the answer; when that was the rest of it the request is answered.
LEMMA SendRespondKeeps == Inv /\ SendRespond /\ UNCHANGED peerVars => Inv'
<1> SUFFICES ASSUME Inv, SendRespond, UNCHANGED peerVars PROVE Inv'
  OBVIOUS
<1> DEFINE a == answered
<1>1. script' = script /\ sent' = sent
  BY DEF peerVars
<1>2. /\ pc = "respond" /\ taken' = taken /\ fails' = fails /\ served' = served /\ out' = out
      /\ IF offset' = Len(out) THEN pc' = "answered" /\ answered' = a + 1 ELSE UNCHANGED <<pc, answered>>
  BY DEF SendRespond
<1>3. PICK n \in Taken : wire' = wire \o Text(out, offset, n) /\ offset' = offset + n
  BY DEF SendRespond
<1>4. /\ a < Len(script) /\ Len(served) = a + 1 /\ taken = EndOf(a + 1)
      /\ fails = 0 => out = Answer(Now.expected) /\ offset \in 0..Len(out) /\ wire = SubSeq(out, 1, offset)
  BY <1>2 DEF Inv, RespondInv
<1>5. script \in Scripts /\ a \in 0..Len(script) /\ Len(script) \in Nat /\ taken \in taken..sent /\ fails \in Nat
  BY StreamFacts DEF Inv, Counts
<1>6. answered' \in a..Len(script)
  BY <1>2, <1>4, <1>5
<1>7. Counts' /\ Served'
  BY <1>1, <1>2, <1>5, <1>6, CountsKept DEF Inv
<1>8. ASSUME fails = 0
      PROVE  out \in Seq(AnyByte) /\ offset' \in 0..Len(out) /\ wire' = SubSeq(out, 1, offset')
  <2>1. out \in Seq(AnyByte)
    <3>1. a + 1 \in 1..Len(served)
      BY <1>4, <1>5
    <3>2. GoodAnswer(script[a + 1])
      BY <1>8, <3>1 DEF Inv, Served
    <3> QED BY <1>4, <1>8, <3>2 DEF GoodAnswer, Now
  <2>2. Len(out) \in Nat /\ offset \in 0..Len(out)
    BY <1>4, <1>8, <2>1, LenProperties
  <2>3. n \in Nat /\ offset + n <= Len(out)
    <3> DEFINE l == Len(out)
    <3>1. PICK k \in Nat : n = IF k < l - offset THEN k ELSE l - offset
      BY <1>3, SizesAssumption DEF Taken
    <3>2. l \in Nat /\ offset \in 0..l
      BY <2>2
    <3> HIDE DEF l
    <3>3. n \in Nat /\ offset + n <= l
      BY <3>1, <3>2
    <3> QED BY <3>3 DEF l
  <2>4. offset + n \in 0..Len(out)
    <3> DEFINE l == Len(out)
    <3>1. l \in Nat /\ offset \in 0..l /\ offset + n <= l
      BY <2>2, <2>3
    <3> HIDE DEF l
    <3>2. offset + n \in 0..l
      BY <2>3, <3>1
    <3> QED BY <3>2 DEF l
  <2> QED BY <1>3, <1>4, <1>8, <2>1, <2>2, <2>3, <2>4, SendTakes
<1>9. CASE offset' = Len(out)
  <2>1. pc' = "answered" /\ answered' = a + 1
    BY <1>2, <1>9
  <2>2. (fails = 0) => wire' = Answer(script[a + 1].expected)
    BY <1>4, <1>8, <1>9, SubSeqFull DEF Now
  <2>3. a + 1 >= 1
    BY <1>5
  <2>4. EndOf(answered)' = EndOf(a + 1)
    BY <1>1, <2>1 DEF EndOf
  <2>5. AnsweredInv'
    BY <1>1, <1>2, <1>4, <2>1, <2>2, <2>3, <2>4 DEF AnsweredInv
  <2> QED BY <1>7, <2>1, <2>5 DEF Inv, HeadInv, BodyInv, RespondInv
<1>10. CASE offset' # Len(out)
  <2>1. pc' = "respond" /\ answered' = a
    BY <1>2, <1>10
  <2>2. Now' = Now /\ EndOf(a + 1)' = EndOf(a + 1)
    BY <1>1, <2>1, SameStream DEF Now
  <2>3. EndOf(answered + 1)' = EndOf(a + 1)
    BY <1>1, <2>1 DEF EndOf
  <2>4. RespondInv'
    BY <1>1, <1>2, <1>4, <1>8, <2>1, <2>2, <2>3 DEF RespondInv
  <2> QED BY <1>7, <2>1, <2>4 DEF Inv, HeadInv, BodyInv, AnsweredInv
<1> QED BY <1>9, <1>10

\* A failed write.
LEMMA SendFailsKeeps == Inv /\ SendFails /\ UNCHANGED peerVars => Inv'
<1> SUFFICES ASSUME Inv, SendFails, UNCHANGED peerVars PROVE Inv'
  OBVIOUS
<1>1. script' = script /\ sent' = sent
  BY DEF peerVars
<1>2. /\ pc = "respond" /\ pc' = "respond" /\ taken' = taken /\ fails' = fails + 1 /\ served' = served
      /\ answered' = answered
  BY DEF SendFails
<1>3. taken \in taken..sent /\ answered \in answered..Len(script) /\ fails \in Nat
  BY StreamFacts DEF Inv, Counts
<1>4. Counts' /\ Served'
  BY <1>1, <1>2, <1>3, CountsKept DEF Inv
<1>5. fails' # 0
  BY <1>2, <1>3
<1>6. EndOf(answered + 1)' = EndOf(answered + 1)
  BY <1>1, <1>2 DEF EndOf
<1>7. RespondInv'
  BY <1>1, <1>2, <1>5, <1>6 DEF Inv, RespondInv
<1> QED BY <1>2, <1>4, <1>7 DEF Inv, HeadInv, BodyInv, AnsweredInv

\* The next request, with a new parser and a new buffer, or the end.
LEMMA GoesRoundKeeps == Inv /\ GoesRound /\ UNCHANGED peerVars => Inv'
<1> SUFFICES ASSUME Inv, GoesRound, UNCHANGED peerVars PROVE Inv'
  OBVIOUS
<1>1. script' = script /\ sent' = sent
  BY DEF peerVars
<1>2. /\ pc = "answered" /\ pc' \in {"head", "closed"} /\ taken' = taken /\ fails' = fails /\ served' = served
      /\ answered' = answered /\ data' = <<>> /\ parser' \in {NewParser(b) : b \in BOOLEAN}
  BY DEF GoesRound
<1>3. taken \in taken..sent /\ answered \in answered..Len(script)
  BY StreamFacts DEF Inv, Counts
<1>4. Counts' /\ Served'
  BY <1>1, <1>2, <1>3, CountsKept DEF Inv
<1>5. EndOf(answered)' = EndOf(answered)
  BY <1>1, <1>2 DEF EndOf
<1>6. HeadInv'
  BY <1>1, <1>2, <1>5 DEF Inv, AnsweredInv, HeadInv
<1> QED BY <1>2, <1>4, <1>6 DEF Inv, BodyInv, RespondInv, AnsweredInv

\* Every step of the peer and of the session.
LEMMA StepKeeps == Orderly /\ Inv /\ [Next]_vars => Inv'
<1> SUFFICES ASSUME Orderly, Inv, [Next]_vars PROVE Inv'
  OBVIOUS
<1>1. CASE PeerSends \/ PeerEnds
  BY <1>1, PeerKeeps
<1>2. CASE Session
  <2>1. UNCHANGED peerVars
    BY <1>2 DEF Session
  <2>2. CASE RecvHead
    BY <2>1, <2>2, RecvHeadKeeps
  <2>3. CASE RecvBody
    BY <2>1, <2>3, RecvBodyKeeps
  <2>4. CASE HeadEnds \/ BodyEnds \/ HeadFails
    BY <2>1, <2>4, EndsKeep
  <2>5. CASE BodyFails
    BY <2>1, <2>5, BodyFailsKeeps
  <2>6. CASE SendRespond
    BY <2>1, <2>6, SendRespondKeeps
  <2>7. CASE SendFails
    BY <2>1, <2>7, SendFailsKeeps
  <2>8. CASE GoesRound
    BY <2>1, <2>8, GoesRoundKeeps
  <2> QED BY <1>2, <2>2, <2>3, <2>4, <2>5, <2>6, <2>7, <2>8 DEF Session
<1>3. CASE UNCHANGED vars
  <2>1. /\ script' = script /\ sent' = sent /\ ended' = ended
        /\ UNCHANGED <<taken, pc, data, parser, body, left, fails, served, out, offset, wire, answered>>
    BY <1>3 DEF vars, peerVars, sessionVars
  <2>2. taken \in taken..sent /\ answered \in answered..Len(script)
    BY StreamFacts DEF Inv, Counts
  <2>3. Counts' /\ Served'
    BY <2>1, <2>2, CountsKept DEF Inv
  <2>4. Now' = Now /\ \A n : EndOf(n)' = EndOf(n)
    BY <2>1, SameStream DEF Now
  <2>5. HeadInv' /\ RespondInv' /\ AnsweredInv'
    BY <2>1, <2>4 DEF Inv, HeadInv, RespondInv, AnsweredInv
  <2>6. BodyInv'
    BY <2>1, <2>4 DEF Inv, BodyInv, GoodAnswer
  <2> QED BY <2>3, <2>5, <2>6 DEF Inv
<1> QED BY <1>1, <1>2, <1>3 DEF Next

-----------------------------------------------------------------------------
(***************************************************************************)
(* What handleClient() does when the peer is orderly: from the first read  *)
(* to the end of the session the reading, the serving and the answering    *)
(* stand in the same message.                                              *)
(***************************************************************************)
THEOREM SessionInStep == Orderly => (Spec => []Inv)
<1> SUFFICES ASSUME Orderly PROVE Spec => []Inv
  OBVIOUS
<1>1. Init => Inv
  BY InitKeeps
<1>2. Inv /\ [Next]_vars => Inv'
  BY StepKeeps
<1> QED BY <1>1, <1>2, PTL DEF Spec

(***************************************************************************)
(* ServedWhole: no request is handed to handleClient() before its last     *)
(* byte has been read, failed reads or not, for bodies of any length that  *)
(* come in any pieces.                                                     *)
(***************************************************************************)
THEOREM ServesWhole == Orderly => (Spec => []ServedWhole)
<1> SUFFICES ASSUME Orderly PROVE Spec => []ServedWhole
  OBVIOUS
<1>1. Inv => ServedWhole
  <2> SUFFICES ASSUME Inv, NEW i \in 1..Len(served) PROVE taken >= EndOf(i)
    BY DEF ServedWhole
  <2>1. /\ script \in Scripts /\ served \in Seq(Range(served)) /\ Len(served) <= Len(script)
        /\ taken >= EndOf(Len(served)) /\ taken \in 0..sent /\ sent \in 0..Len(Stream)
    BY DEF Inv, Counts
  <2>2. Len(served) \in Nat /\ Len(script) \in Nat /\ Len(Stream) \in Nat
    BY <2>1, StreamFacts, LenProperties
  <2>3. i \in 0..Len(script) /\ Len(served) \in i..Len(script) /\ Len(served) \in 0..Len(script)
    BY <2>1, <2>2
  <2>4. EndOf(i) <= EndOf(Len(served)) /\ EndOf(i) \in Nat /\ EndOf(Len(served)) \in Nat
    BY <2>1, <2>3, StreamFacts
  <2> QED BY <2>1, <2>2, <2>4
<1>2. Spec => []Inv
  BY SessionInStep
<1> QED BY <1>1, <1>2, PTL

(***************************************************************************)
(* ServedAsSent: as long as no read and no write has failed, the n-th      *)
(* request that handleClient() gets is the n-th that was sent, however     *)
(* recv() cuts the bodies, behind the head or in the middle.               *)
(***************************************************************************)
THEOREM ServesAsSent == Orderly => (Spec => []ServedAsSent)
<1> SUFFICES ASSUME Orderly PROVE Spec => []ServedAsSent
  OBVIOUS
<1>1. Inv => ServedAsSent
  BY DEF Inv, Served, ServedAsSent
<1>2. Spec => []Inv
  BY SessionInStep
<1> QED BY <1>1, <1>2, PTL

(***************************************************************************)
(* AnswerUnderstood: when sendRespond() is through, what the peer has      *)
(* received is one whole answer that the client parser takes, in whatever  *)
(* pieces send() took it, as long as no write has failed.                  *)
(***************************************************************************)
THEOREM AnswersUnderstood == Orderly => (Spec => []AnswerUnderstood)
<1> SUFFICES ASSUME Orderly PROVE Spec => []AnswerUnderstood
  OBVIOUS
<1>1. Inv => AnswerUnderstood
  <2> SUFFICES ASSUME Inv, pc = "answered", fails = 0 PROVE ClientUnderstands(wire, served[Len(served)])
    BY DEF AnswerUnderstood
  <2>1. Len(served) = answered /\ answered >= 1 /\ wire = Answer(script[answered].expected) /\ answered \in 0..Len(script)
        /\ Len(script) \in Nat
    BY StreamFacts DEF Inv, AnsweredInv, Counts
  <2>2. answered \in 1..Len(served)
    BY <2>1
  <2>3. served[answered] = script[answered].expected /\ GoodAnswer(script[answered])
    BY <2>2 DEF Inv, Served
  <2> QED BY <2>1, <2>3 DEF GoodAnswer
<1>2. Spec => []Inv
  BY SessionInStep
<1> QED BY <1>1, <1>2, PTL
==============================================================================
