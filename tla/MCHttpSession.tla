----------------------------- MODULE MCHttpSession -----------------------------
(***************************************************************************)
(* Messages for HttpSession: each with the request that it stands for,     *)
(* written down apart from the parser.                                     *)
(***************************************************************************)
EXTENDS HttpSession

Field(name, value) == <<Bytes(name), Bytes(value)>>
Expect(method, path, query, fragment, version, headers, text) ==
  [method |-> method, path |-> Bytes(path), query |-> Bytes(query), fragment |-> Bytes(fragment), version |-> version,
   close |-> TRUE, headers |-> headers, body |-> Bytes(text)]
Refused == [method |-> "refused"]
Message(head, text, expected) ==
  [bytes |-> Bytes(head) \o Bytes(text), head |-> Len(head), expected |-> expected]

Get  == Message("GET / HTTP/1.1\r\nHost: a\r\n\r\n", "",
                Expect("GET", "/", "", "", "1.1", {Field("Host", "a")}, ""))
Post == Message("POST /p%20/?q=1#f HTTP/1.0\r\nContent-Length: 9\r\ncontent-length:\t3\r\n\r\n", "xyz",
                Expect("POST", "/p%20/", "q=1", "f", "1.0", {Field("Content-Length", "3")}, "xyz"))
Put  == Message("PUT http://u:p@[1:2::127.0.0.205]:80/a HTTP/1.1\nX:\nContent-Length:2 \n\n", "",
                Expect("PUT", "//u:p@[1:2::127.0.0.205]:80/a", "", "", "1.1",
                       {Field("X", ""), Field("Content-Length", "2 ")}, ""))
Loose == Message("HEAD /{a} HTTP/1.1\r\n\r\n", "", Expect("HEAD", "/{a}", "", "", "1.1", {}, ""))
Prefix == Message("GETTER *?a HTTP/1.1\r\n\r\n", "", Expect("GET", "*", "a", "", "1.1", {}, ""))
BadMethod  == Message("GE / HTTP/1.1\r\n\r\n", "", Refused)
BadVersion == Message("GET / HTTP/2.0\r\n\r\n", "", Refused)
Json == [bytes |-> Bytes("@a/b {:}") \o <<"NUL">>, head |-> 9, expected |-> Expect("GET", "@a/b", "", "", "1.1", {}, "")]
Xml  == [bytes |-> Bytes("<a.b c>") \o <<"NUL">>, head |-> 8, expected |-> Expect("GET", "<a.b", "", "", "1.1", {}, "")]

AllScripts ==
  {<<Post, Get>>, <<Put, Loose>>, <<Json, Post>>, <<Xml, BadMethod>>, <<Prefix, BadVersion>>}
SplitScripts == {<<Post>>}

\* The messages are read as what they stand for, or refused, when their heads come in one piece.
ASSUME MessagesUnderstood ==
  \A s \in AllScripts \cup SplitScripts : \A i \in 1..Len(s) : s[i].head <= BufferSize /\ Understood(s[i])
==============================================================================
