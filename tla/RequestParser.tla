----------------------------- MODULE RequestParser -----------------------------
(***************************************************************************)
(* The request parser of src/tw/http/http11_parser.rl.cc, which Ragel has  *)
(* generated: its automaton, one definition per group of states with the   *)
(* numbers that the generated code has, and http_parser_execute() with the *)
(* actions on the edges.  Offsets are indices of the buffer, from 0.       *)
(***************************************************************************)
EXTENDS HttpMessage

Start      == 1
FirstFinal == 348
Error      == 0
States     == 0..349

-----------------------------------------------------------------------------
Class(own, more) == own \cup Chars(more)

\* Method: up to 20 capitals and digits; `<' and `@' begin the other two routes.
MethodStates ==
  {On(1, Upper \cup Digit, 2, <<"mark">>), On(1, {"<"}, 194, <<"mark">>), On(1, {"@"}, 198, <<"mark">>)}
  \cup {Go(s, Upper \cup Digit, IF s = 2 THEN 175 ELSE s + 1) : s \in {2} \cup 175..192}
  \cup {On(s, {" "}, 3, <<"request_method">>) : s \in {2} \cup 175..193}

\* The ends that every state of a path has.
PathEnds(s, marks) ==
  {On(s, {" "}, 4, marks \o <<"request_path", "request_uri">>),
   On(s, {"#"}, 20, marks \o <<"request_path", "request_uri">>),
   On(s, {"?"}, 29, marks \o <<"request_path">>)}

\* A byte written as % and two hexadecimal digits.
Escape(s, digits, back) == {Go(s, {"%"}, digits), Go(digits, Hex, digits + 1), Go(digits + 1, Hex, back)}

\* The first byte of the URI; a path that does not begin with a slash.
UriStates ==
  PathEnds(3, <<"mark">>) \cup PathEnds(19, <<>>) \cup Escape(19, 24, 19)
  \cup {On(3, Class(Unreserved \ Letter, "@"), 19, <<"mark">>), On(3, Letter, 173, <<"mark">>),
        On(3, {"%"}, 24, <<"mark">>), On(3, {"/"}, 33, <<"mark">>),
        Go(19, Class(Unreserved, "@"), 19), Go(19, {"/"}, 26)}

\* A path after its first slash; two slashes begin an authority.
PathStates ==
  PathEnds(26, <<>>) \cup PathEnds(33, <<>>) \cup Escape(26, 27, 26)
  \cup {Go(26, Class(Unreserved, "@:/"), 26),
        Go(33, Class(Unreserved, "@:"), 26), Go(33, {"%"}, 27), Go(33, {"/"}, 34)}

\* A scheme, and what follows its colon.
SchemeStates ==
  LET scheme == Letter \cup Digit \cup Chars("+-.")
  IN PathEnds(173, <<>>) \cup PathEnds(174, <<"mark">>)
     \cup {Go(173, scheme, 173), Go(173, Class(Unreserved \ scheme, "@"), 19),
           Go(173, {"%"}, 24), Go(173, {"/"}, 26), Go(173, {":"}, 174),
           On(174, Class(Unreserved, "@:"), 26, <<"mark">>), On(174, {"%"}, 27, <<"mark">>),
           On(174, {"/"}, 33, <<"mark">>)}

QueryStates ==
  {On(29, {" "}, 4, <<"start_query", "query_string", "request_uri">>),
   On(29, {"#"}, 20, <<"start_query", "query_string", "request_uri">>),
   On(29, Class(Unreserved, "@:/?"), 30, <<"start_query">>), On(29, {"%"}, 31, <<"start_query">>),
   On(30, {" "}, 4, <<"query_string", "request_uri">>), On(30, {"#"}, 20, <<"query_string", "request_uri">>),
   Go(30, Class(Unreserved, "@:/?"), 30)} \cup Escape(30, 31, 30)

FragmentStates ==
  {On(20, {" "}, 4, <<"mark", "fragment">>), On(20, Class(Unreserved, "@:/?"), 21, <<"mark">>),
   On(20, {"%"}, 22, <<"mark">>),
   On(21, {" "}, 4, <<"fragment">>), Go(21, Class(Unreserved, "@:/?"), 21)} \cup Escape(21, 22, 21)

\* User information or a host.
UserStates ==
  PathEnds(34, <<>>) \cup PathEnds(35, <<>>) \cup Escape(34, 36, 35) \cup Escape(35, 36, 35)
  \cup UNION {{Go(s, Unreserved, 35), Go(s, {"/"}, 26), Go(s, {":"}, 38), Go(s, {"@"}, 42)} : s \in {34, 35}}
  \cup {Go(34, {"["}, 47)}

\* After the colon: a port, or the rest of the user information.
PortStates ==
  PathEnds(38, <<>>) \cup Escape(38, 40, 39) \cup Escape(39, 40, 39)
  \cup {Go(38, Digit, 38), Go(38, Class(Unreserved \ Digit, ":"), 39), Go(38, {"/"}, 26), Go(38, {"@"}, 42),
        Go(39, Class(Unreserved, ":"), 39), Go(39, {"@"}, 42)}

\* The host after the user information, and its port.
HostStates ==
  PathEnds(42, <<>>) \cup PathEnds(43, <<>>) \cup PathEnds(46, <<>>) \cup Escape(42, 44, 43) \cup Escape(43, 44, 43)
  \cup UNION {{Go(s, Unreserved, 43), Go(s, {"/"}, 26), Go(s, {":"}, 46)} : s \in {42, 43}}
  \cup {Go(42, {"["}, 47), Go(46, Digit, 46), Go(46, {"/"}, 26)}

-----------------------------------------------------------------------------
(***************************************************************************)
(* [ ... ]: an address of version 6, or of a version to come.  The grammar *)
(* writes a repetition as a number and not as a count, so bytes 2 to 6     *)
(* are expected where there should be 2 to 6 groups.                       *)
(***************************************************************************)
LiteralStates ==
  {Go(47, {"^F"}, 48), Go(47, Hex, 91), Go(47, {":"}, 167), Go(47, {"v"}, 169), Go(167, {":"}, 168)}
  \cup {Go(s, Hex, s + 1) : s \in 48..51} \cup {Go(s, {":"}, 53) : s \in 49..52}
  \cup {Go(60, {"]"}, 61), Go(61, {"/"}, 26), Go(61, {":"}, 46)} \cup PathEnds(61, <<>>)

FutureStates ==
  {Go(169, Hex, 170), Go(170, Hex, 170), Go(170, {"."}, 171), Go(172, {"]"}, 61)}
  \cup {Go(s, Class(Unreserved, ":"), 172) : s \in {171, 172}}

\* Groups before a double colon.
GroupStates ==
  {Go(s, Hex, s + 1) : s \in (91..124) \ {94, 99, 104, 109, 114, 119, 124}} \cup {Go(125, Hex, 121)}
  \cup UNION {{Go(s, {":"}, g + 4) : s \in g..(g + 3)} : g \in {91, 96, 101, 106, 111, 116, 121}}

\* The double colon, after one to seven groups.
ElisionStates ==
  {Go(95, {":"}, 166), Go(100, {":"}, 165), Go(105, {":"}, 164), Go(110, {":"}, 163),
   Go(115, {":"}, 151), Go(120, {":"}, 150), Go(125, {":"}, 126),
   Go(163, {"^B", "^C"}, 48), Go(163, Hex, 49), Go(164, {"^B", "^C"}, 48), Go(165, {"^C"}, 48), Go(166, {"^D"}, 48)}

\* A decimal octet: two hundred is followed by 0 only, and twenty-five too.
Octet(first, one, two, stop, end, next) ==
  {Go(first, stop, next), Go(one, stop, next), Go(one + 1, stop, next), Go(two, stop, next)}
  \cup {Go(one, Digit, one + 1), Go(one + 1, Digit, end), Go(two, {"0"}, two + 1), Go(two, {"5"}, two + 2),
        Go(two + 1, Digit, end), Go(two + 2, {"0"}, end)}
OctetStarts(s, first, one, two) ==
  {Go(s, Digit \ {"1", "2"}, first), Go(s, {"1"}, one), Go(s, {"2"}, two)}

\* The second, third and fourth octet.
OctetStates ==
  OctetStarts(55, 56, 72, 74) \cup Octet(56, 72, 74, {"."}, 56, 57)
  \cup OctetStarts(57, 58, 67, 69) \cup Octet(58, 67, 69, {"."}, 58, 59)
  \cup OctetStarts(59, 60, 62, 64) \cup Octet(60, 62, 64, {"]"}, 60, 61)

\* Digits that may be a group or the first octet of four: `more' are the second to fourth digit.
Either(first, more, one, two, letter, colon, close) ==
  {Go(first, Hex, more), Go(letter, Hex, more), Go(more, Hex, more + 1), Go(more + 1, Hex, more + 2),
   Go(one, Digit, one + 1), Go(one, AtoF, more), Go(one + 1, Digit, one + 2), Go(one + 1, AtoF, more + 1),
   Go(one + 2, Hex, more + 2),
   Go(two, {"0"}, two + 1), Go(two, {"5"}, two + 2), Go(two, Hex \ {"0", "5"}, more),
   Go(two + 1, Digit, one + 2), Go(two + 1, AtoF, more + 1),
   Go(two + 2, {"0"}, one + 2), Go(two + 2, Hex \ {"0"}, more + 1)}
  \cup {Go(s, {"."}, 55) : s \in {first, two} \cup one..(one + 2)}
  \cup UNION {{Go(s, {":"}, colon), Go(s, close, 61)} :
                s \in {first, letter} \cup more..(more + 2) \cup one..(one + 2) \cup two..(two + 2)}
EitherStarts(s, first, one, two, letter) == OctetStarts(s, first, one, two) \cup {Go(s, AtoF, letter)}

\* The last 32 bits after six groups: an address of version 4, or two groups.
LastGroupsStates ==
  EitherStarts(53, 54, 84, 87, 90) \cup Either(54, 77, 84, 87, 90, 80, {})
  \cup {Go(s, Hex, s + 1) : s \in 80..82} \cup {Go(83, Hex, 60)} \cup {Go(s, {"]"}, 61) : s \in 81..83}

\* The last 32 bits, or fewer, after a double colon.
ElidedGroupStates ==
  UNION {EitherStarts(s, 127, 143, 146, 149) : s \in {126, 150, 168}} \cup Either(127, 128, 143, 146, 149, 131, {"]"})
  \cup {Go(126, {"]"}, 61), Go(168, {"]"}, 61)}
  \cup {Go(s, {"^B", "^C"}, 48) : s \in {126, 150}} \cup {Go(168, {"^B", "^C", "^D", "^E"}, 48)}

ElidedLastStates == EitherStarts(131, 132, 136, 139, 142) \cup Either(132, 133, 136, 139, 142, 80, {"]"})

ElidedTwoStates ==
  EitherStarts(151, 152, 156, 159, 162) \cup Either(152, 153, 156, 159, 162, 131, {})
  \cup {Go(151, {"^B", "^C"}, 48)}

-----------------------------------------------------------------------------
\* HTTP/1.1 or 1.0 up to the end of the line; a carriage return or a line feed will do.
VersionStates ==
  {On(4, {"H"}, 5, <<"mark">>)} \cup {Go(3 + i, {SubSeq("HTTP/1.", i, i)}, 4 + i) : i \in 2..7}
  \cup {Go(11, {"0", "1"}, 12), On(12, {"\n"}, 13, <<"http_version">>), On(12, {"\r"}, 17, <<"http_version">>)}

\* The name of a field may hold control bytes, and after its first byte the end of a line.
FieldNameStates ==
  LET name == Word \cup Control
  IN {On(13, name, 14, <<"start_field">>), On(13, {"\n"}, 348, <<"start_field", "done">>),
      On(13, {"\r"}, 18, <<"start_field">>), Go(18, name \cup {"\r"}, 14), On(18, {"\n"}, 348, <<"done">>)}
     \cup {Go(s, name \cup {"\r", "\n"}, 14) : s \in {14, 348}}
     \cup {On(s, {":"}, 15, <<"write_field">>) : s \in {14, 18, 348}}

FieldValueStates ==
  {On(15, {"\t", " "}, 15, <<"start_value">>),
   On(15, (AnyByte \ ({"\t", " ", "\n", "\r", "NUL", "DEL"})), 16, <<"start_value">>),
   On(15, {"\n"}, 13, <<"start_value", "write_value">>), On(15, {"\r"}, 17, <<"start_value", "write_value">>),
   Go(16, AnyByte \ {"\n", "\r", "NUL", "DEL"}, 16),
   On(16, {"\n"}, 13, <<"write_value">>), On(16, {"\r"}, 17, <<"write_value">>), Go(17, {"\n"}, 13)}

\* <name ... > NUL: a message of its own, without a request line.
XmlStates ==
  {Go(194, Letter \cup Digit \cup Chars("-."), 195), Go(195, Letter \cup Digit \cup Chars("-."), 195),
   On(195, Blank \cup Chars("/>") \cup {"\n", "\r"}, 196, <<"request_path">>),
   Go(196, AnyByte \ {">"}, 196), Go(197, AnyByte \ {">", "NUL"}, 196), On(197, {"NUL"}, 349, <<"xml", "done">>)}
  \cup {Go(s, {">"}, 197) : s \in {196, 197}}

\* @path { ... } NUL.
JsonStates ==
  {On(s, {" "}, 199, <<"request_path">>) : s \in {198}}
  \cup {Go(198, Class(Unreserved, "@"), 202), Go(198, {"%"}, 203), Go(198, {"/"}, 208),
        On(199, {"{"}, 200, <<"mark">>), Go(200, AnyByte \ {"}"}, 200),
        Go(201, AnyByte \ {"}", "NUL"}, 200), On(201, {"NUL"}, 349, <<"json", "done">>)}
  \cup {Go(s, {"}"}, 201) : s \in {200, 201}}

(***************************************************************************)
(* Its path has copies of the states of a URI, without query and fragment. *)
(***************************************************************************)
CopyOf(s) ==
  CASE s >= 34 -> s + 175 [] s \in 26..28 -> s + 179 [] s = 19 -> 202 [] s \in {24, 25} -> s + 179 [] s = 33 -> 208
CopyEdges(edges) ==
  {IF e.class = {" "} THEN On(CopyOf(e.from), {" "}, 199, <<"request_path">>)
                      ELSE Go(CopyOf(e.from), e.class, CopyOf(e.to))
     : e \in {f \in edges : f.from # 3 /\ f.class \notin {{"#"}, {"?"}}}}

JsonPathStates      == CopyEdges(UriStates \cup PathStates)
JsonUserStates      == CopyEdges(UserStates \cup PortStates)
JsonHostStates      == CopyEdges(HostStates \cup LiteralStates \cup FutureStates)
JsonOctetStates     == CopyEdges(OctetStates)
JsonLastStates      == CopyEdges(LastGroupsStates)
JsonGroupStates     == CopyEdges(GroupStates)
JsonElisionStates   == CopyEdges(ElisionStates)
JsonElidedStates    == CopyEdges(ElidedGroupStates)
JsonElidedLastStates == CopyEdges(ElidedLastStates)
JsonElidedTwoStates == CopyEdges(ElidedTwoStates)

Edges ==
  UNION {MethodStates, UriStates, PathStates, SchemeStates, QueryStates, FragmentStates, UserStates, PortStates,
         HostStates, LiteralStates, FutureStates, GroupStates, ElisionStates, OctetStates, LastGroupsStates,
         ElidedGroupStates, ElidedLastStates, ElidedTwoStates, VersionStates, FieldNameStates, FieldValueStates,
         XmlStates, JsonStates, JsonPathStates, JsonUserStates, JsonHostStates, JsonOctetStates, JsonLastStates,
         JsonGroupStates, JsonElisionStates, JsonElidedStates, JsonElidedLastStates, JsonElidedTwoStates}
Table == ByState(Edges, States)

-----------------------------------------------------------------------------
(***************************************************************************)
(* http_parser_init(), in HttpRequestParser's constructor.  uri_relaxed is *)
(* given no value anywhere: what is in memory decides whether ^, { and }   *)
(* are taken in a URI.                                                     *)
(***************************************************************************)
NewParser(relaxed) ==
  [cs |-> Start, nread |-> 0, mark |-> 0, field_start |-> 0, field_len |-> 0, query_start |-> 0, body_start |-> 0,
   content_len |-> 0, xml_sent |-> FALSE, json_sent |-> FALSE, relaxed |-> relaxed,
   error |-> 0, data |-> NewRequest]

\* on_request_http_field(), on_request_method() and on_request_http_version().
OnField(p, name, value) ==
  IF name = <<>> THEN [p EXCEPT !.error = 1002]
                 ELSE [p EXCEPT !.data.headers = SetHeader(@, name, value)]
OnMethod(p, text) ==
  LET m == CharsToHttpMethod(text)
  IN IF m = InvalidMethod THEN [p EXCEPT !.error = 1000] ELSE [p EXCEPT !.data.method = m]
OnVersion(p, text) ==
  CASE IsPrefix(text, Bytes("HTTP/1.1")) -> [p EXCEPT !.data.version = "1.1"]
    [] IsPrefix(text, Bytes("HTTP/1.0")) -> [p EXCEPT !.data.version = "1.0"]
    [] OTHER -> [p EXCEPT !.error = 1001]

\* The text that an action hands to its callback: where it begins and how long it is.
Extent(p, a, at) ==
  CASE a \in {"request_method", "fragment", "http_version", "request_path"} -> <<p.mark, at - p.mark>>
    [] a = "query_string" -> <<p.query_start, at - p.query_start>>
    [] a = "write_value"  -> <<p.mark, at - p.mark>>
    [] OTHER              -> <<0, 0>>

\* A length below zero, as a size_t, is more than a std::string can hold.
Throws(p, a, at) == Extent(p, a, at)[2] < 0 \/ (a = "write_value" /\ p.field_len < 0)

\* An action at offset `at'.
Act(p, a, buf, at) ==
  LET text == Text(buf, Extent(p, a, at)[1], Extent(p, a, at)[2])
  IN CASE a \in {"mark", "start_value"} -> [p EXCEPT !.mark = at]
       [] a = "start_field"    -> [p EXCEPT !.field_start = at]
       [] a = "write_field"    -> [p EXCEPT !.field_len = at - p.field_start]
       [] a = "start_query"    -> [p EXCEPT !.query_start = at]
       [] a = "request_method" -> OnMethod(p, text)
       [] a = "request_path"   -> [p EXCEPT !.data.path = text]
       [] a = "query_string"   -> [p EXCEPT !.data.query = text]
       [] a = "fragment"       -> [p EXCEPT !.data.fragment = text]
       [] a = "http_version"   -> OnVersion(p, text)
       [] a = "write_value"    -> OnField(p, Text(buf, p.field_start, p.field_len), text)
       [] a = "xml"            -> [p EXCEPT !.xml_sent = TRUE]
       [] a = "json"           -> [p EXCEPT !.json_sent = TRUE]
       [] a = "done" -> IF p.xml_sent \/ p.json_sent
                        THEN [p EXCEPT !.body_start = p.mark, !.content_len = at - p.mark + 1]
                        ELSE [p EXCEPT !.body_start = at + 1]
       [] a = "request_uri"    -> p

\* Along an edge, if there is one: r is the parser, how many bytes it has gone through, and whether it goes on.
Follow(r, buf, edges) ==
  LET e   == CHOOSE x \in edges : TRUE
      run == After(LAMBDA q, i : IF q.thrown \/ Throws(q.parser, e.actions[i], r.used) THEN [q EXCEPT !.thrown = TRUE]
                                 ELSE [q EXCEPT !.parser = Act(q.parser, e.actions[i], buf, r.used)],
                   [parser |-> r.parser, thrown |-> FALSE], Len(e.actions))
  IN IF edges = {} THEN [r EXCEPT !.parser.cs = Error, !.stop = TRUE]
     ELSE [parser |-> [run.parser EXCEPT !.cs = e.to], used |-> r.used + 1,
           thrown |-> run.thrown, stop |-> run.thrown \/ e.to >= FirstFinal]

OneByte(r, buf) == Follow(r, buf, EdgesFor(Table, r.parser.cs, buf[r.used + 1], r.parser.relaxed))

(***************************************************************************)
(* http_parser_execute() on the whole buffer: nread is added up, and the   *)
(* assertions compare it and the offsets with the length of this call.     *)
(***************************************************************************)
Execute(p, buf) ==
  LET r == After(LAMBDA q, i : IF q.stop THEN q ELSE OneByte(q, buf),
                 [parser |-> p, used |-> 0, thrown |-> FALSE, stop |-> FALSE], Len(buf))
      q == [r.parser EXCEPT !.nread = p.nread + r.used]
  IN [parser |-> q, thrown |-> r.thrown,
      failed |-> ~(/\ q.nread <= Len(buf) /\ q.body_start <= Len(buf) /\ q.mark < Len(buf)
                   /\ q.field_len \in 0..Len(buf) /\ q.field_start < Len(buf))]

HasError(p)   == p.error # 0 \/ p.cs = Error
IsFinished(p) == p.cs >= FirstFinal
ContentLength(p) == GetAsLength(p.data.headers, Bytes("content-length"), 0)
==============================================================================
