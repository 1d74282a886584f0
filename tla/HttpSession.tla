----------------------------- MODULE HttpSession -----------------------------
(***************************************************************************)
(* One connection of the HTTP server: HttpServer::handleClient(), which    *)
(* calls recvRequest() and sendRespond() of http_session.cc, over the      *)
(* streams of stream.cc and socket_stream.cc and the parsers.              *)
(*                                                                         *)
(* The peer sends the messages of a script in pieces.  A read hands over   *)
(* what has arrived, 0 at the end of the stream, or -1.  The bytes that    *)
(* reach the peer are in `wire'.                                           *)
(***************************************************************************)
EXTENDS RequestParser, RespondParser

CONSTANTS Scripts,    \* what a peer may send: sequences of messages [bytes, head, expected]
          BufferSize, \* HttpRequestParser::GetHttpRequestBufferSize()
          KeepAlive,  \* m_isKeepalive
          Whole,      \* the head of a message arrives in one piece
          Waits,      \* the peer waits for the answer before it sends on
          Takes,      \* how many bytes send() takes at most: one of these
          MaxFails    \* bound: reads and writes that return -1

\* A script is a list of messages: bytes, how many of them are the head, and the request they stand for.
ASSUME ScriptsAssumption ==
  \A s \in Scripts : /\ Len(s) \in Nat
                     /\ \A i \in 1..Len(s) : s[i].bytes \in Seq(AnyByte) /\ s[i].head \in 1..Len(s[i].bytes)
ASSUME SizesAssumption ==
  BufferSize \in Nat \ {0} /\ KeepAlive \in BOOLEAN /\ Takes \subseteq Nat /\ MaxFails \in Nat

VARIABLES script,   \* the messages that this peer sends
          sent,     \* how many bytes have arrived at the socket
          ended,    \* the peer has closed its side
          taken,    \* bytes read from the socket
          pc,       \* where handleClient() is
          data,     \* the bytes in the buffer of recvRequest(): `offset' of them
          parser,   \* the HttpRequestParser
          body,     \* the bytes stored in the body so far
          left,     \* how many readFixSize() still wants
          fails,    \* reads and writes that have returned -1
          served,   \* the requests handed to handleClient()
          out,      \* the answer written out
          offset,   \* where writeFixSize() is in it
          wire,     \* what the peer has received of it
          answered  \* answers sent

peerVars    == <<script, sent, ended>>
sessionVars == <<taken, pc, data, parser, body, left, fails, served, out, offset, wire, answered>>
vars        == <<peerVars, sessionVars>>

Stream   == FlattenSeq([i \in 1..Len(script) |-> script[i].bytes])
EndOf(n) == Len(FlattenSeq([i \in 1..n |-> script[i].bytes]))

Point == {"head", "body", "respond", "answered", "closed", "aborted", "corrupted"}

Init ==
  /\ script \in Scripts /\ sent = 0 /\ ended = FALSE /\ taken = 0
  /\ pc = "head" /\ data = <<>> /\ parser \in {NewParser(b) : b \in BOOLEAN}
  /\ body = <<>> /\ left = 0 /\ fails = 0 /\ served = <<>>
  /\ out = <<>> /\ offset = 0 /\ wire = <<>> /\ answered = 0

-----------------------------------------------------------------------------
\* The peer.  A place in its stream is inside a head when a message has begun and its head has not ended.
InsideHead(n) == \E i \in 1..Len(script) : n > EndOf(i - 1) /\ n < EndOf(i - 1) + script[i].head
May(n) ==
  /\ Whole => ~InsideHead(n)
  /\ Waits => \A i \in 1..Len(script) : n > EndOf(i - 1) => answered >= i - 1

PeerSends ==
  /\ ~ended
  /\ sent' \in {n \in (sent + 1)..Len(Stream) : May(n)}
  /\ UNCHANGED <<script, ended, sessionVars>>

PeerEnds == ~ended /\ ended' = TRUE /\ UNCHANGED <<script, sent, sessionVars>>

-----------------------------------------------------------------------------
\* recv(): what is there, up to the room given.
Received(room) == IF sent - taken < room THEN sent - taken ELSE room
New(n)         == SubSeq(Stream, taken + 1, taken + n)

\* The answer that handleClient() builds for a request.
Answer(request) ==
  RespondDump([NewRespond(request.version, request.close \/ ~KeepAlive) EXCEPT !.body = Bytes("hello tw")])

\* handleClient() has its request.
Serve(request) ==
  /\ pc' = "respond"
  /\ served' = Append(served, request)
  /\ out' = Answer(request)
  /\ offset' = 0 /\ wire' = <<>>

Closes == pc' = "closed" /\ UNCHANGED <<body, left, served, out, offset, wire>>

\* Mutant: what is in the buffer behind the head is not counted.
HeadDoneForgets(q, rest) ==
  LET length == ContentLength(q)
  IN /\ body' = SubSeq(rest, 1, IF length < Len(rest) THEN length ELSE Len(rest))
     /\ left' = length
     /\ IF left' > 0 THEN pc' = "body" /\ UNCHANGED <<served, out, offset, wire>>
                     ELSE Serve([q.data EXCEPT !.body = body'])

\* The head is complete: the body begins with what else is in the buffer, and more than that is dropped.
HeadDone(q, rest) ==
  LET length == ContentLength(q)
  IN /\ body' = SubSeq(rest, 1, IF length < Len(rest) THEN length ELSE Len(rest))
     /\ left' = length - Len(rest)
     /\ IF left' > 0 THEN pc' = "body" /\ UNCHANGED <<served, out, offset, wire>>
                     ELSE Serve([q.data EXCEPT !.body = body'])

\* What becomes of the bytes in the buffer when execute() has gone through them.
HeadResult(all, r) ==
  LET rest == SubSeq(all, r.parser.nread + 1, Len(all))
  IN CASE r.thrown                   -> data' = data /\ Closes
       [] ~r.thrown /\ r.failed      -> pc' = "aborted" /\ UNCHANGED <<data, body, left, served, out, offset, wire>>
       [] ~r.thrown /\ ~r.failed     ->
            /\ data' = rest
            /\ CASE HasError(r.parser) \/ Len(rest) = BufferSize                       -> Closes
                 [] ~(HasError(r.parser) \/ Len(rest) = BufferSize) /\ IsFinished(r.parser) -> HeadDone(r.parser, rest)
                 [] OTHER -> UNCHANGED <<pc, body, left, served, out, offset, wire>>

(***************************************************************************)
(* One round of the loop of recvRequest(): read() after the `offset' bytes *)
(* in the buffer, execute() from the buffer's start, memmove() by what     *)
(* execute() returned, which is nread and not what this call matched.      *)
(***************************************************************************)
RecvHead ==
  LET n == Received(BufferSize - Len(data))
  IN /\ pc = "head"
     /\ n > 0
     /\ taken' = taken + n
     /\ \E all \in {data \o New(n)} : \E r \in {Execute(parser, all)} :
          parser' = r.parser /\ HeadResult(all, r)
     /\ UNCHANGED <<fails, answered>>

\* read() returned 0 or -1: close() and nullptr.
HeadEnds ==
  /\ pc = "head" /\ taken = sent /\ ended
  /\ pc' = "closed"
  /\ UNCHANGED <<taken, data, parser, body, left, fails, served, out, offset, wire, answered>>
HeadFails ==
  /\ pc = "head" /\ taken = sent /\ fails < MaxFails
  /\ pc' = "closed" /\ fails' = fails + 1
  /\ UNCHANGED <<taken, data, parser, body, left, served, out, offset, wire, answered>>

\* Mutant: a short read passes for a whole one.
RecvBodyOnce ==
  LET n == Received(left)
  IN /\ pc = "body" /\ n > 0
     /\ taken' = taken + n
     /\ body' = body \o New(n)
     /\ left' = 0
     /\ Serve([parser.data EXCEPT !.body = body'])
     /\ UNCHANGED <<data, parser, fails, answered>>

\* Mutant: each piece goes to the front of the buffer.
RecvBodyFront ==
  LET n == Received(left)
  IN /\ pc = "body" /\ n > 0
     /\ taken' = taken + n
     /\ body' = New(n) \o body
     /\ left' = left - n
     /\ IF left' = 0 THEN Serve([parser.data EXCEPT !.body = body'])
                     ELSE UNCHANGED <<pc, served, out, offset, wire>>
     /\ UNCHANGED <<data, parser, fails, answered>>

\* One round of readFixSize().
RecvBody ==
  LET n == Received(left)
  IN /\ pc = "body" /\ n > 0
     /\ taken' = taken + n
     /\ body' = body \o New(n)
     /\ left' = left - n
     /\ IF left' = 0 THEN Serve([parser.data EXCEPT !.body = body'])
                     ELSE UNCHANGED <<pc, served, out, offset, wire>>
     /\ UNCHANGED <<data, parser, fails, answered>>

BodyEnds ==
  /\ pc = "body" /\ ended /\ taken = sent
  /\ pc' = "closed"
  /\ UNCHANGED <<taken, data, parser, body, left, fails, served, out, offset, wire, answered>>

(***************************************************************************)
(* read() returned -1, which readFixSize() keeps in a size_t: not <= 0, so *)
(* it counts as -1 byte.  Before the first byte of the body that is a      *)
(* place outside the string.                                               *)
(***************************************************************************)
BodyFails ==
  /\ pc = "body" /\ taken = sent /\ fails < MaxFails
  /\ fails' = fails + 1
  /\ IF body = <<>> THEN pc' = "corrupted" /\ UNCHANGED <<body, left>>
                    ELSE body' = Front(body) /\ left' = left + 1 /\ UNCHANGED pc
  /\ UNCHANGED <<taken, data, parser, served, out, offset, wire, answered>>

\* send(): what it takes of what is still to be sent.
Taken == {IF k < Len(out) - offset THEN k ELSE Len(out) - offset : k \in Takes}

\* Mutant: a round sends what the one before has sent.
SendRespondAgain ==
  /\ pc = "respond"
  /\ \E n \in Taken :
       /\ wire' = wire \o SubSeq(out, 1, n)
       /\ offset' = offset + n
  /\ IF offset' = Len(out) THEN pc' = "answered" /\ answered' = answered + 1 ELSE UNCHANGED <<pc, answered>>
  /\ UNCHANGED <<taken, data, parser, body, left, fails, served, out>>

\* One round of writeFixSize(): send() takes some of the bytes, or fails and counts as -1 byte.
SendRespond ==
  /\ pc = "respond"
  /\ \E n \in Taken :
       /\ wire' = wire \o Text(out, offset, n)
       /\ offset' = offset + n
  /\ IF offset' = Len(out) THEN pc' = "answered" /\ answered' = answered + 1 ELSE UNCHANGED <<pc, answered>>
  /\ UNCHANGED <<taken, data, parser, body, left, fails, served, out>>

SendFails ==
  /\ pc = "respond" /\ fails < MaxFails
  /\ offset' = offset - 1
  /\ fails' = fails + 1
  /\ UNCHANGED <<taken, pc, data, parser, body, left, served, out, wire, answered>>

\* handleClient() goes round, with a new parser and a new buffer, or closes.
GoesRound ==
  /\ pc = "answered"
  /\ pc' = IF KeepAlive THEN "head" ELSE "closed"
  /\ \E relaxed \in BOOLEAN : parser' = NewParser(relaxed)
  /\ data' = <<>> /\ body' = <<>> /\ left' = 0
  /\ UNCHANGED <<taken, fails, served, out, offset, wire, answered>>

Session ==
  /\ \/ RecvHead \/ RecvBody \/ HeadEnds \/ BodyEnds
     \/ HeadFails \/ BodyFails \/ SendRespond \/ SendFails \/ GoesRound
  /\ UNCHANGED peerVars

Next == PeerSends \/ PeerEnds \/ Session

(***************************************************************************)
(* The fiber runs whenever its socket is ready; nothing makes a read or a  *)
(* write fail.  Its steps are told from the peer's by what they change.    *)
(***************************************************************************)
Ready == pc \in {"respond", "answered"} \/ (pc \in {"head", "body"} /\ (taken < sent \/ ended))
FiberRuns ==
  /\ Ready
  /\ \E p \in Point, t \in taken..sent, o \in 0..Len(out) : pc' = p /\ taken' = t /\ offset' = o
Fairness == WF_<<pc, taken, offset>>(FiberRuns)

Spec == Init /\ [][Next]_vars /\ Fairness

-----------------------------------------------------------------------------
(***************************************************************************)
(* The parser's own assertion, 'nread longer than length': what it has     *)
(* read is within the buffer it was given.  nread is added up over the     *)
(* calls of execute() for one request, the length is that of this call.    *)
(***************************************************************************)
NreadWithinLength == pc # "aborted"

(***************************************************************************)
(* As long as no read and no write has failed, the n-th request that       *)
(* handleClient() gets is the n-th that was sent, with its method, path,   *)
(* query, fragment, fields and body, wherever its body was cut and         *)
(* whatever uri_relaxed holds; one the parser has to refuse never gets     *)
(* there (recvRequest() in http_session.cc with its parser).               *)
(***************************************************************************)
ServedAsSent == fails = 0 => \A i \in 1..Len(served) : served[i] = script[i].expected

(***************************************************************************)
(* No request is handed over before its last byte has been read, failed    *)
(* reads or not: a body that is short never passes for a whole one.        *)
(***************************************************************************)
ServedWhole == \A i \in 1..Len(served) : taken >= EndOf(i)

\* What the project's own client parser makes of a text: one whole answer to the request, and nothing else.
ClientUnderstands(answer, request) ==
  \A r \in {ClientExecute(NewClient, answer)} :
  \A text \in {SubSeq(answer, r.parser.nread + 1, Len(answer))} :
     /\ ClientIsFinished(r.parser) /\ ~ClientHasError(r.parser) /\ ~r.failed /\ ~r.refused
     /\ r.parser.data.status = 200 /\ r.parser.data.reason = Bytes("OK")
     /\ r.parser.data.version = request.version
     /\ r.parser.close /\ r.parser.content_len = Len(text)
     /\ ClientContentLength(r.parser) = Len(text)
     /\ text = Bytes("hello tw")

(***************************************************************************)
(* What the peer has received when sendRespond() is through is one whole   *)
(* answer, for the project's own client parser too: 200 OK in the version  *)
(* of the request, the body's length and body, and that the connection is  *)
(* to be closed, as long as no write has failed.                           *)
(***************************************************************************)
AnswerUnderstood == pc = "answered" /\ fails = 0 => ClientUnderstands(wire, served[Len(served)])

(***************************************************************************)
(* A request that has arrived whole is answered, or the connection is      *)
(* closed; the peer need not send anything more (handleClient() gets all   *)
(* that it waits for), unless a read has failed.                           *)
(***************************************************************************)
AnswerComes ==
  \A i \in 1..2 : (i <= Len(script) /\ sent >= EndOf(i)) ~> (answered >= i \/ pc = "closed" \/ fails > 0)

-----------------------------------------------------------------------------
(***************************************************************************)
(* The messages on which the parsers do their part: when the head has come *)
(* in one piece, with some of the body behind it, the parser refuses it or *)
(* ends at the end of the head with the request that the message stands    *)
(* for, and the answer to that is understood.  It says nothing of reading, *)
(* writing and waiting.                                                    *)
(***************************************************************************)
Refuses(r) == r.thrown \/ r.failed \/ HasError(r.parser)
Parses(r, m) ==
  /\ IsFinished(r.parser) /\ r.parser.nread = m.head
  /\ ContentLength(r.parser) = Len(m.bytes) - m.head
  /\ [r.parser.data EXCEPT !.body = SubSeq(m.bytes, m.head + 1, Len(m.bytes))] = m.expected
  /\ Answer(m.expected) \in Seq(AnyByte) /\ ClientUnderstands(Answer(m.expected), m.expected)
Understood(m) ==
  \A relaxed \in BOOLEAN : \A n \in m.head..Len(m.bytes) :
    \A r \in {Execute(NewParser(relaxed), SubSeq(m.bytes, 1, n))} : Refuses(r) \/ Parses(r, m)
==============================================================================
