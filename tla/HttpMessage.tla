------------------------------ MODULE HttpMessage ------------------------------
(***************************************************************************)
(* Requests and answers as values, from src/tw/http/http.h and http.cc:    *)
(* the tables of methods and states, the maps of fields, and how a message *)
(* is written out.  A map is a set of pairs <<name, value>> in which no    *)
(* two names differ only in case.                                          *)
(***************************************************************************)
EXTENDS HttpBytes, SequencesExt

\* HTTP_METHOD_MAP, in the order in which CharsToHttpMethod() tries the names.
Methods == <<"DELETE", "GET", "HEAD", "POST", "PUT", "CONNECT", "OPTIONS", "TRACE", "COPY", "LOCK", "MKCOL", "MOVE",
             "PROPFIND", "PROPPATCH", "SEARCH", "UNLOCK", "BIND", "REBIND", "UNBIND", "ACL", "REPORT", "MKACTIVITY",
             "CHECKOUT", "MERGE", "M-SEARCH", "NOTIFY", "SUBSCRIBE", "UNSUBSCRIBE", "PATCH", "PURGE", "MKCALENDAR",
             "LINK", "UNLINK", "SOURCE">>
InvalidMethod == "INVALID_MATHOD"

\* HTTP_STATUS_MAP, and HttpStatusToString().
Reasons ==
  100 :> "Continue" @@ 101 :> "Switching Protocols" @@ 102 :> "Processing" @@ 200 :> "OK" @@ 201 :> "Created" @@
  202 :> "Accepted" @@ 203 :> "Non-Authoritative Information" @@ 204 :> "No Content" @@ 205 :> "Reset Content" @@
  206 :> "Partial Content" @@ 207 :> "Multi-Status" @@ 208 :> "Already Reported" @@ 226 :> "IM Used" @@
  300 :> "Multiple Choices" @@ 301 :> "Moved Permanently" @@ 302 :> "Found" @@ 303 :> "See Other" @@
  304 :> "Not Modified" @@ 305 :> "Use Proxy" @@ 307 :> "Temporary Redirect" @@ 308 :> "Permanent Redirect" @@
  400 :> "Bad Request" @@ 401 :> "Unauthorized" @@ 402 :> "Payment Required" @@ 403 :> "Forbidden" @@
  404 :> "Not Found" @@ 405 :> "Method Not Allowed" @@ 406 :> "Not Acceptable" @@
  407 :> "Proxy Authentication Required" @@ 408 :> "Request Timeout" @@ 409 :> "Conflict" @@ 410 :> "Gone" @@
  411 :> "Length Required" @@ 412 :> "Precondition Failed" @@ 413 :> "Payload Too Large" @@ 414 :> "URI Too Long" @@
  415 :> "Unsupported Media Type" @@ 416 :> "Range Not Satisfiable" @@ 417 :> "Expectation Failed" @@
  421 :> "Misdirected Request" @@ 422 :> "Unprocessable Entity" @@ 423 :> "Locked" @@ 424 :> "Failed Dependency" @@
  426 :> "Upgrade Required" @@ 428 :> "Precondition Required" @@ 429 :> "Too Many Requests" @@
  431 :> "Request Header Fields Too Large" @@ 451 :> "Unavailable For Legal Reasons" @@
  500 :> "Internal Server Error" @@ 501 :> "Not Implemented" @@ 502 :> "Bad Gateway" @@
  503 :> "Service Unavailable" @@ 504 :> "Gateway Timeout" @@ 505 :> "HTTP Version Not Supported" @@
  506 :> "Variant Also Negotiates" @@ 507 :> "Insufficient Storage" @@ 508 :> "Loop Detected" @@
  510 :> "Not Extended" @@ 511 :> "Network Authentication Required"
StatusToString(status) == IF status \in DOMAIN Reasons THEN Reasons[status] ELSE "<unknown>"

\* The first method whose whole name the text begins with.
CharsToHttpMethod(text) ==
  LET hits == {i \in 1..Len(Methods) : IsPrefix(Bytes(Methods[i]), text)}
  IN IF hits = {} THEN InvalidMethod ELSE Methods[CHOOSE i \in hits : \A j \in hits : i <= j]

\* StringToHttpMethod() wants the name and nothing behind it.
StringToHttpMethod(text) ==
  IF \E i \in 1..Len(Methods) : Bytes(Methods[i]) = text THEN CharsToHttpMethod(text) ELSE InvalidMethod

\* The entry of a name in a map ordered by CaseInsensitiveless.
Entry(map, name)           == {h \in map : SameName(h[1], name)}
HasHeader(map, name)       == Entry(map, name) # {}
GetHeader(map, name, else) == IF HasHeader(map, name) THEN (CHOOSE h \in Entry(map, name) : TRUE)[2] ELSE else
DelHeader(map, name)       == map \ Entry(map, name)

\* operator[]: the name that is there stays, its value is replaced.
SetHeader(map, name, value) ==
  LET key == IF HasHeader(map, name) THEN (CHOOSE h \in Entry(map, name) : TRUE)[1] ELSE name
  IN DelHeader(map, name) \cup {<<key, value>>}

\* getAs<uint64_t>(), taken as int64_t: nothing but digits behind an optional sign, or the default.
AsLength(v, default) ==
  LET signed == v # <<>> /\ v[1] \in {"+", "-"}
      digits == IF signed THEN Tail(v) ELSE v
  IN IF digits = <<>> \/ \E i \in 1..Len(digits) : digits[i] \notin Digit THEN default
     ELSE IF signed /\ v[1] = "-" THEN 0 - Strtol(digits, 10) ELSE Strtol(digits, 10)
GetAsLength(map, name, default) == AsLength(GetHeader(map, name, <<>>), default)

NewRequest == [method |-> "GET", path |-> Bytes("/"), query |-> <<>>, fragment |-> <<>>, version |-> "1.1",
               close |-> TRUE, headers |-> {}, body |-> <<>>]
NewRespond(version, close) ==
  [version |-> version, close |-> close, status |-> 200, reason |-> <<>>, headers |-> {}, body |-> <<>>]

-----------------------------------------------------------------------------
CRLF == <<"\r", "\n">>
WithMark(mark, s) == IF s = <<>> THEN <<>> ELSE mark \o s

\* The fields other than connection, in the order of the map.
DumpHeaders(map) ==
  FlattenSeq([i \in 1..Cardinality(DelHeader(map, Bytes("connection"))) |->
    LET h == SetToSeq(DelHeader(map, Bytes("connection")))[i] IN h[1] \o <<":">> \o h[2] \o CRLF])

DumpConnection(close) == Bytes("connection: ") \o Bytes(IF close THEN "close" ELSE "keep-alive") \o CRLF
DumpBody(body) ==
  IF body = <<>> THEN CRLF ELSE Bytes("content-length: ") \o Bytes(ToString(Len(body))) \o CRLF \o CRLF \o body

RequestDump(r) ==
  Bytes(r.method) \o <<" ">> \o r.path \o WithMark(<<"?">>, r.query) \o WithMark(<<"#">>, r.fragment)
  \o Bytes(" HTTP/") \o Bytes(r.version) \o CRLF
  \o DumpConnection(r.close) \o DumpHeaders(r.headers) \o DumpBody(r.body)

RespondDump(r) ==
  Bytes("HTTP/") \o Bytes(r.version) \o <<" ">> \o Bytes(ToString(r.status)) \o <<" ">>
  \o (IF r.reason = <<>> THEN Bytes(StatusToString(r.status)) ELSE r.reason) \o CRLF
  \o DumpHeaders(r.headers) \o DumpConnection(r.close) \o DumpBody(r.body)
==============================================================================
