----------------------------- MODULE RespondParser -----------------------------
(***************************************************************************)
(* The answer parser of src/tw/http/httpclient_parser.rl.cc, which Ragel   *)
(* has generated: its automaton by groups of states, with the numbers of   *)
(* the generated code, and httpclient_parser_execute().  The fields        *)
(* connection, transfer-encoding and content-length are recognised in the  *)
(* automaton, while every name may still turn out to be another one.       *)
(***************************************************************************)
EXTENDS HttpMessage

ClientStart      == 1
ClientFirstFinal == 120
ClientError      == 0
ClientStates     == 0..123

LineFeed(s, actions) == On(s, {"\n"}, 120, actions \o <<"done">>)

\* A chunk: its size, and extensions name=value; the line feed ends the head.
ChunkStates ==
  LET size == <<"chunk_size">>
      name == <<"write_field", "start_value", "write_value">>
  IN {On(1, Hex, 2, <<"mark">>), Go(2, Hex, 2), LineFeed(2, size), On(2, {"\r"}, 3, size), On(2, {";"}, 4, size),
      LineFeed(3, <<>>), On(4, Word, 5, <<"start_field">>), Go(5, Word, 5),
      LineFeed(5, name), On(5, {"\r"}, 3, name), On(5, {";"}, 4, name), On(5, {"="}, 6, <<"write_field", "start_value">>),
      On(6, Word, 7, <<"start_value">>), Go(7, Word, 7),
      LineFeed(7, <<"write_value">>), On(7, {"\r"}, 3, <<"write_value">>), On(7, {";"}, 4, <<"write_value">>)}

\* HTTP/digits.digits code reason
StatusStates ==
  {On(1, {"H"}, 8, <<"mark">>), Go(8, {"T"}, 9), Go(9, {"T"}, 10), Go(10, {"P"}, 11), Go(11, {"/"}, 12),
   Go(12, Digit, 13), Go(13, Digit, 13), Go(13, {"."}, 14), Go(14, Digit, 15), Go(15, Digit, 15),
   On(15, {" "}, 16, <<"http_version">>), On(16, Digit, 17, <<"mark">>), Go(17, Digit, 17),
   On(17, {" "}, 18, <<"status_code">>), On(18, AnyByte \ {"\n"}, 19, <<"mark">>), Go(19, AnyByte \ {"\n", "\r"}, 19),
   On(19, {"\n"}, 20, <<"reason_phrase">>), On(19, {"\r"}, 24, <<"reason_phrase">>)}

\* The beginning of a line: the end of the head, or a name, of which c and t may begin one of the three.
LineStates(s, first, c, actions) ==
  {On(s, Word \ (EitherCase("c") \cup EitherCase("t") \cup first), 21, actions \o <<"start_field">>),
   On(s, EitherCase("t"), 44, actions \o <<"start_field">>)}
  \cup {On(s, EitherCase("c"), c, actions \o <<"start_field">>)}

FieldStates ==
  LineStates(20, {}, 25, <<>>)
  \cup {LineFeed(20, <<>>), Go(20, {"\r"}, 3), Go(24, {"\n"}, 20), Go(21, Word, 21), On(21, {":"}, 22, <<"write_field">>),
        On(22, Blank, 22, <<"start_value">>), On(22, AnyByte \ (Blank \cup {"\n", "\r"}), 23, <<"start_value">>),
        On(22, {"\n"}, 20, <<"start_value", "write_value">>), On(22, {"\r"}, 24, <<"start_value", "write_value">>),
        Go(23, AnyByte \ {"\n", "\r"}, 23), On(23, {"\n"}, 20, <<"write_value">>), On(23, {"\r"}, 24, <<"write_value">>)}

\* Reading a known name: state s + i - 1 has the i-th letter of `rest' to come, any other makes it another name.
NameStates(s, rest) ==
  UNION {{Go(s + i - 1, EitherCase(SubSeq(rest, i, i)), s + i),
          Go(s + i - 1, Word \ EitherCase(SubSeq(rest, i, i)), 21),
          On(s + i - 1, {":"}, 22, <<"write_field">>)} : i \in 1..Len(rest)}

\* From con- either name may follow.
ConnectionNameStates ==
  {e \in NameStates(25, "onnection") : e.from # 27 \/ e.to # 21}
  \cup {Go(27, EitherCase("t"), 101), Go(27, Word \ (EitherCase("n") \cup EitherCase("t")), 21),
        Go(34, Word, 21), On(34, {":"}, 35, <<"write_field">>)}
TransferNameStates ==
  NameStates(44, "ransfer-encoding") \cup {Go(60, Word, 21), On(60, {":"}, 61, <<"write_field">>)}
LengthNameStates ==
  NameStates(101, "ent-length") \cup {Go(111, Word, 21), On(111, {":"}, 112, <<"write_field">>)}

-----------------------------------------------------------------------------
\* The first byte of a value that may be a known one, which then begins in state `known'.
ValueStart(s, first, known, feed, return) ==
  LET both == <<"start_value", "write_value">>
  IN {On(s, Blank, s, <<"start_value">>), On(s, first, known, <<"start_value">>),
      On(s, AnyByte \ (Blank \cup first \cup {"\n", "\r"}), 23, <<"start_value">>),
      On(s, {"\n"}, feed, both), On(s, {"\r"}, return, both)}

\* Reading a known value, any other byte makes it another one.
ValueStates(s, rest) ==
  UNION {{Go(s + i - 1, EitherCase(SubSeq(rest, i, i)), s + i),
          Go(s + i - 1, AnyByte \ (EitherCase(SubSeq(rest, i, i)) \cup {"\n", "\r"}), 23),
          On(s + i - 1, {"\n"}, 20, <<"write_value">>), On(s + i - 1, {"\r"}, 24, <<"write_value">>)} : i \in 1..Len(rest)}

\* The same on a line of its own, where nothing else may follow; and as a name that is still open.
LoneStates(s, rest) == {Go(s + i - 1, EitherCase(SubSeq(rest, i, i)), s + i) : i \in 1..Len(rest)}

CloseValueStates ==
  ValueStart(35, EitherCase("c"), 96, 36, 95) \cup ValueStates(96, "lose")
  \cup {Go(100, AnyByte \ {"\n", "\r"}, 23), On(100, {"\n"}, 43, <<"write_value">>), On(100, {"\r"}, 88, <<"write_value">>),
        Go(88, {"\n"}, 43), LineFeed(43, <<"connection_close">>), On(43, {"\r"}, 3, <<"connection_close">>)}
  \cup LineStates(43, {}, 25, <<"connection_close">>)

\* The value after the end of the line that has the name.
CloseFoldedStates ==
  LineStates(36, {}, 90, <<>>) \cup {Go(36, Blank, 37), On(36, {"\n"}, 122, <<"done">>), Go(36, {"\r"}, 89)}
  \cup {Go(s, Blank \cup {"\n", "\r"}, 37) : s \in {37, 122}} \cup {Go(s, EitherCase("c"), 38) : s \in {37, 122, 89, 95}}
  \cup LoneStates(38, "lose") \cup {Go(42, {"\n"}, 43), Go(42, {"\r"}, 88)}
  \cup {Go(s, Blank \cup {"\r"}, 37) : s \in {89, 95}} \cup {On(89, {"\n"}, 122, <<"done">>), Go(95, {"\n"}, 36)}
  \cup {e \in NameStates(90, "lose") : e.from # 90 \/ e.to # 21}
  \cup {Go(90, EitherCase("o"), 26), Go(90, Word \ (EitherCase("l") \cup EitherCase("o")), 21),
        Go(94, {"\n"}, 43), Go(94, {"\r"}, 88), Go(94, Word, 21), On(94, {":"}, 22, <<"write_field">>)}

ChunkedValueStates ==
  ValueStart(61, EitherCase("c"), 81, 62, 80) \cup ValueStates(81, "hunked")
  \cup {Go(87, AnyByte \ {"\n", "\r"}, 23), On(87, {"\n"}, 20, <<"write_value", "chunked">>),
        On(87, {"\r"}, 71, <<"write_value">>), On(71, {"\n"}, 20, <<"chunked">>)}

ChunkedFoldedStates ==
  {e \in LineStates(62, {}, 73, <<>>) : e.to # 73} \cup {On(62, EitherCase("c"), 73, <<"start_value", "start_field">>)}
  \cup {Go(62, Blank, 63), On(62, {"\n"}, 121, <<"done">>), Go(62, {"\r"}, 72)}
  \cup {Go(s, Blank \cup {"\n", "\r"}, 63) : s \in {63, 121}}
  \cup {On(s, EitherCase("c"), 64, <<"start_value">>) : s \in {63, 121, 72, 80}}
  \cup LoneStates(64, "hunked")
  \cup {Go(s, Blank \cup {"\r"}, 63) : s \in {72, 80}} \cup {On(72, {"\n"}, 121, <<"done">>), Go(80, {"\n"}, 62)}
  \cup {e \in NameStates(73, "hunked") : e.from # 73 \/ e.to # 21}
  \cup {Go(73, EitherCase("o"), 26), Go(73, Word \ (EitherCase("h") \cup EitherCase("o")), 21),
        Go(79, Word, 21), On(79, {":"}, 22, <<"write_field">>)}
  \cup UNION {{On(s, {"\n"}, 20, <<"write_value", "chunked">>), On(s, {"\r"}, 71, <<"write_value">>)} : s \in {70, 79}}

LengthValueStates ==
  LET number == <<"content_len", "write_value">>
  IN ValueStart(112, Digit, 119, 113, 118)
     \cup {Go(119, Digit, 119), Go(119, AnyByte \ (Digit \cup {"\n", "\r"}), 23),
           On(119, {"\n"}, 20, number), On(119, {"\r"}, 24, number)}

LengthFoldedStates ==
  LET number == <<"content_len", "write_value">>
  IN LineStates(113, Digit, 25, <<>>)
     \cup {On(113, Digit, 117, <<"start_value", "start_field">>),
           Go(113, Blank, 114), On(113, {"\n"}, 123, <<"done">>), Go(113, {"\r"}, 116)}
     \cup {Go(s, Blank \cup {"\n", "\r"}, 114) : s \in {114, 123}}
     \cup {On(s, Digit, 115, <<"start_value">>) : s \in {114, 123, 116, 118}} \cup {Go(115, Digit, 115)}
     \cup {Go(s, Blank \cup {"\r"}, 114) : s \in {116, 118}} \cup {On(116, {"\n"}, 123, <<"done">>), Go(118, {"\n"}, 113)}
     \cup {Go(117, Digit, 117), Go(117, Word \ Digit, 21), On(117, {":"}, 22, <<"write_field">>)}
     \cup UNION {{On(s, {"\n"}, 20, number), On(s, {"\r"}, 24, number)} : s \in {115, 117}}

ClientTable ==
  ByState(UNION {ChunkStates, StatusStates, FieldStates, ConnectionNameStates, TransferNameStates, LengthNameStates,
                 CloseValueStates, CloseFoldedStates, ChunkedValueStates, ChunkedFoldedStates,
                 LengthValueStates, LengthFoldedStates}, ClientStates)

-----------------------------------------------------------------------------
\* httpclient_parser_init(), which execute(..., chunck = true) repeats; the answer read so far stays.
InitClient(answer) ==
  [cs |-> ClientStart, nread |-> 0, mark |-> 0, field_start |-> 0, field_len |-> 0, body_start |-> 0, content_len |-> 0 - 1,
   chunked |-> FALSE, chunks_done |-> FALSE, close |-> FALSE, error |-> 0, data |-> answer]
NewClient == InitClient(NewRespond("1.1", TRUE))

\* on_respond_http_field() and on_respond_http_version().
ClientOnField(p, name, value) ==
  IF name = <<>> THEN [p EXCEPT !.error = 1002] ELSE [p EXCEPT !.data.headers = SetHeader(@, name, value)]
ClientOnVersion(p, text) ==
  CASE IsPrefix(text, Bytes("HTTP/1.1")) -> [p EXCEPT !.data.version = "1.1"]
    [] IsPrefix(text, Bytes("HTTP/1.0")) -> [p EXCEPT !.data.version = "1.0"]
    [] OTHER -> [p EXCEPT !.error = 1001]

\* An action at offset `at'; numbers are read from the mark on, as far as there are digits.
ClientAct(p, a, buf, at) ==
  LET text == Text(buf, p.mark, at - p.mark)
      rest == Text(buf, p.mark, Len(buf) - p.mark)
  IN CASE a \in {"mark", "start_value"} -> [p EXCEPT !.mark = at]
       [] a = "start_field"      -> [p EXCEPT !.field_start = at]
       [] a = "write_field"      -> [p EXCEPT !.field_len = at - p.field_start]
       [] a = "write_value"      -> ClientOnField(p, Text(buf, p.field_start, p.field_len), text)
       [] a = "http_version"     -> ClientOnVersion(p, text)
       [] a = "status_code"      -> [p EXCEPT !.data.status = Strtol(rest, 10)]
       [] a = "reason_phrase"    -> [p EXCEPT !.data.reason = text]
       [] a = "content_len"      -> [p EXCEPT !.content_len = Strtol(rest, 10)]
       [] a = "chunk_size"       -> [p EXCEPT !.chunked = TRUE, !.content_len = Strtol(rest, 16),
                                              !.chunks_done = Strtol(rest, 16) <= 0]
       [] a = "chunked"          -> [p EXCEPT !.chunked = TRUE]
       [] a = "connection_close" -> [p EXCEPT !.close = TRUE]
       [] a = "done"             -> [p EXCEPT !.body_start = at + 1]

ClientFollow(r, buf, edges) ==
  LET e == CHOOSE x \in edges : TRUE
      q == After(LAMBDA p, i : ClientAct(p, e.actions[i], buf, r.used), r.parser, Len(e.actions))
  IN IF edges = {} THEN [r EXCEPT !.parser.cs = ClientError, !.stop = TRUE]
     ELSE [parser |-> [q EXCEPT !.cs = e.to], used |-> r.used + 1, stop |-> e.to >= ClientFirstFinal]
ClientOneByte(r, buf) == ClientFollow(r, buf, EdgesFor(ClientTable, r.parser.cs, buf[r.used + 1], FALSE))

(***************************************************************************)
(* httpclient_parser_execute() of an answer that is in one buffer, which   *)
(* a byte NUL must follow; a failed check() makes it return -1.            *)
(***************************************************************************)
ClientExecute(p, buf) ==
  LET r == After(LAMBDA q, i : IF q.stop THEN q ELSE ClientOneByte(q, buf),
                 [parser |-> p, used |-> 0, stop |-> FALSE], Len(buf))
      q == [r.parser EXCEPT !.nread = p.nread + r.used]
  IN [parser  |-> q,
      failed  |-> q.nread > Len(buf) \/ q.body_start > Len(buf),
      refused |-> q.mark >= Len(buf) \/ q.field_len > Len(buf) \/ q.field_start >= Len(buf)]

ClientHasError(p)   == p.error # 0 \/ p.cs = ClientError
ClientIsFinished(p) == p.cs = ClientFirstFinal
ClientContentLength(p) == GetAsLength(p.data.headers, Bytes("content-length"), 0)
==============================================================================
