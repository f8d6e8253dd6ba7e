-------------------------------- MODULE WsHttp --------------------------------
(***************************************************************************)
(* How websocketpp reads and writes the requests and responses of the opening *)
(* handshake (websocket/websocketpp/http).                                  *)
(*                                                                         *)
(* A text is a sequence of symbols: a delimiter is a symbol, and so is a word   *)
(* or a number, which counts as one byte.  The names of headers are written in  *)
(* one case.                                                               *)
(***************************************************************************)
EXTENDS Integers, FiniteSets, Sequences, SequencesExt, FiniteSetsExt

CONSTANTS
  MaxHeaderSize,   \* max_header_size, scaled down
  MaxBodySize      \* max_body_size, scaled down

CRLF == <<"CR", "LF">>

Delimiters ==
  {"CR", "LF", " ", ":", ";", ",", "=", "quote", "backslash", "/", "[", "]", "("}

HasNonToken(s) == \E i \in DOMAIN s : s[i] \in Delimiters

Numbers == {0, 2, 3, 7, 8, 9, 10, 12, 13, 15, 80, 101, 265, 400, 426, 443, 500, 8080, 70000}

Digits(n) == <<ToString(n)>>

NumberOf == [w \in {ToString(n) : n \in Numbers} |-> CHOOSE n \in Numbers : ToString(n) = w]

IsNumber(s) == s # <<>> /\ Head(s) \in DOMAIN NumberOf

\* strtoul, atoi, istringstream: the number that a text begins with
Number(s) == IF IsNumber(s) THEN NumberOf[Head(s)] ELSE 0

Smaller(m, n) == IF m < n THEN m ELSE n

-----------------------------------------------------------------------------
(***************************************************************************)
(* Reading lists.  Each reads at a position and says at which it stopped.    *)
(***************************************************************************)

\* The first position with one of the symbols, or the one after the end.
First(s, from, symbols) ==
  Min({p \in from .. Len(s) : s[p] \in symbols} \cup {Len(s) + 1})

ExtractToken(s, at) ==
  LET end == First(s, at, Delimiters)
  IN [value |-> SubSeq(s, at, end - 1), at |-> end]

RECURSIVE Quoted(_, _, _, _)
Quoted(s, marker, value, begin) ==
  LET q == First(s, marker, {"quote"})
  IN IF q > Len(s) THEN [value |-> <<>>, at |-> begin]
     ELSE IF s[q - 1] = "backslash"
     THEN Quoted(s, q + 1, value \o SubSeq(s, marker, q - 2) \o <<"quote">>, begin)
     ELSE [value |-> value \o SubSeq(s, marker, q - 1), at |-> q + 1]

ExtractQuotedString(s, at) ==
  IF at > Len(s) \/ s[at] # "quote" THEN [value |-> <<>>, at |-> at]
  ELSE Quoted(s, at + 1, <<>>, at)

\* A line's end followed by a space counts as space.
ExtractLws(s, at) ==
  LET folded == at + 2 <= Len(s) /\ SubSeq(s, at, at + 2) = CRLF \o <<" ">>
      from == IF folded THEN at + 3 ELSE at
  IN Min({p \in from .. Len(s) : s[p] # " "} \cup {Len(s) + 1})

RECURSIVE ExtractAllLws(_, _)
ExtractAllLws(s, at) ==
  LET next == ExtractLws(s, at)
  IN IF next > Len(s) \/ next = at THEN next ELSE ExtractAllLws(s, next)

With(map, key, value) == [k \in DOMAIN map \cup {key} |-> IF k = key THEN value ELSE map[k]]

\* The value of an attribute; none at all if it stops where it began.
ExtractValue(s, at) ==
  LET string == ExtractQuotedString(s, at)
  IN IF string.at # at THEN string ELSE ExtractToken(s, at)

NoAttribute == [at |-> 0, name |-> <<>>, value |-> <<>>]
Attribute(name, value, at) == [at |-> at, name |-> name, value |-> value]

ValueEnds(name, begin, text) ==
  IF text.at = begin THEN NoAttribute ELSE Attribute(name, text.value, text.at)

ValueBegins(s, name, at) ==
  IF at > Len(s) THEN NoAttribute ELSE ValueEnds(name, at, ExtractValue(s, at))

NameEnds(s, name, at) ==
  IF at > Len(s) \/ s[at] # "=" THEN Attribute(name, <<>>, at)
  ELSE ValueBegins(s, name, ExtractAllLws(s, at + 1))

AttributeOf(s, name) ==
  IF name.value = <<>> THEN NoAttribute ELSE NameEnds(s, name.value, ExtractAllLws(s, name.at))

ExtractAttribute(s, at) == AttributeOf(s, ExtractToken(s, ExtractAllLws(s, at)))

RECURSIVE Attributes(_, _, _, _, _), AttributesAfter(_, _, _, _)
Attributes(s, begin, cursor, isFirst, attributes) ==
  IF cursor > Len(s) \/ (~isFirst /\ s[cursor] # ";")
  THEN [at |-> cursor, attributes |-> attributes]
  ELSE AttributesAfter(s, begin, ExtractAttribute(s, IF isFirst THEN cursor ELSE cursor + 1),
                       attributes)

AttributesAfter(s, begin, read, attributes) ==
  IF read.at = 0 THEN [at |-> begin, attributes |-> attributes]
  ELSE Attributes(s, begin, ExtractAllLws(s, read.at), FALSE,
                  With(attributes, read.name, read.value))

ExtractAttributes(s, begin) == Attributes(s, begin, ExtractAllLws(s, begin), TRUE, <<>>)

\* The attributes of a parameter, if a semicolon begins them; 0 if they are wrong.
AttributesRead(read, begin) == IF read.at = begin THEN [read EXCEPT !.at = 0] ELSE read

OptionalAttributes(s, at) ==
  IF at > Len(s) \/ s[at] # ";" THEN [at |-> at, attributes |-> <<>>]
  ELSE AttributesRead(ExtractAttributes(s, at + 1), at + 1)

\* A list that is wrong is told by stopping where it began; what was read is there.
Stopped(at, found) == [at |-> at, list |-> found]

RECURSIVE Parameters(_, _, _), ParameterEnds(_, _, _), ParameterListed(_, _, _, _)
Parameters(s, cursor, found) ==
  IF cursor > Len(s) THEN Stopped(cursor, found)
  ELSE ParameterEnds(s, ExtractToken(s, cursor), found)

ParameterEnds(s, name, found) ==
  IF name.value = <<>> THEN Stopped(1, found)
  ELSE ParameterListed(s, name.value, OptionalAttributes(s, ExtractAllLws(s, name.at)), found)

ParameterListed(s, name, read, found) ==
  LET more == Append(found, [name |-> name, attributes |-> read.attributes])
      end == ExtractAllLws(s, read.at)
  IN IF read.at = 0 THEN Stopped(1, found)
     ELSE IF end > Len(s) \/ s[end] # "," THEN Stopped(end, more)
     ELSE IF end = Len(s) THEN Stopped(1, more)
     ELSE Parameters(s, ExtractAllLws(s, end + 1), more)

ExtractParameters(s) ==
  IF s = <<>> THEN Stopped(1, <<>>) ELSE Parameters(s, ExtractAllLws(s, 1), <<>>)

StripLws(s) ==
  LET begin == ExtractAllLws(s, 1)
      end == Len(s) + 1 - ExtractAllLws(Reverse(s), 1)
  IN IF begin > Len(s) THEN <<>> ELSE SubSeq(s, begin, end)

-----------------------------------------------------------------------------
(***************************************************************************)
(* Headers                                                                 *)
(***************************************************************************)

GetHeader(headers, key) == IF <<key>> \in DOMAIN headers THEN headers[<<key>>] ELSE <<>>

Parsed(text, read) == [failed |-> text # <<>> /\ read.at = 1, list |-> read.list]

ParametersOf(text) == Parsed(text, ExtractParameters(text))

ParseParameterList(headers, key) == ParametersOf(GetHeader(headers, key))

\* Mutant: the last of several headers with one name replaces the others.
Joined_Last(headers, key, val) == With(headers, key, val)

\* Several of one name become a list, unless the earlier are empty.
Joined(headers, key, val) ==
  IF key \in DOMAIN headers /\ headers[key] # <<>>
  THEN With(headers, key, headers[key] \o <<",", " ">> \o val)
  ELSE With(headers, key, val)

AppendHeader(headers, key, val) == Joined(headers, <<key>>, val)
ReplaceHeader(headers, key, val) == With(headers, <<key>>, val)
RemoveHeader(headers, key) == [k \in DOMAIN headers \ {<<key>>} |-> headers[k]]

SetBody(headers, value) ==
  IF value = <<>> THEN RemoveHeader(headers, "Content-Length")
  ELSE ReplaceHeader(headers, "Content-Length", Digits(Len(value)))

\* The order of the map, in which headers are written.
HeaderOrder ==
  <<"Connection", "Content-Length", "Host", "Sec-WebSocket-Accept", "Sec-WebSocket-Extensions",
    "Sec-WebSocket-Key", "Sec-WebSocket-Protocol", "Sec-WebSocket-Version", "Server", "Upgrade",
    "User-Agent">>

RawHeaders(headers) ==
  LET names == SelectSeq(HeaderOrder, LAMBDA key : <<key>> \in DOMAIN headers)
  IN FlattenSeq([i \in DOMAIN names |->
                   <<names[i], ":", " ">> \o headers[<<names[i]>>] \o CRLF])

-----------------------------------------------------------------------------
(***************************************************************************)
(* The two parsers.  stage says what is read next; taken is what the last     *)
(* call of consume returned; an error is an exception.                       *)
(***************************************************************************)

NewParser ==
  [stage |-> "line", buf |-> <<>>, header |-> 0, method |-> <<>>, uri |-> <<>>, status |-> 0,
   version |-> <<>>, headers |-> <<>>, needed |-> 0, body |-> <<>>, error |-> "none", taken |-> 0]

Fail(p, error) == [p EXCEPT !.error = error]

ProcessHeader(p, line) ==
  LET colon == First(line, 1, {":"})
      key == StripLws(SubSeq(line, 1, colon - 1))
  IN IF colon > Len(line) \/ HasNonToken(key) THEN Fail(p, "bad_request")
     ELSE [p EXCEPT !.headers = Joined(@, key, StripLws(SubSeq(line, colon + 1, Len(line))))]

\* An empty method is taken as none so far.
ProcessRequestLine(p, line) ==
  LET a == First(line, 1, {" "})
      b == First(line, a + 1, {" "})
  IN IF a > Len(line) \/ b > Len(line) \/ HasNonToken(SubSeq(line, 1, a - 1))
     THEN Fail(p, "bad_request")
     ELSE [p EXCEPT !.method = SubSeq(line, 1, a - 1), !.uri = SubSeq(line, a + 1, b - 1),
                    !.version = SubSeq(line, b + 1, Len(line)),
                    !.stage = IF a = 1 THEN "line" ELSE "headers"]

ProcessResponseLine(p, line) ==
  LET a == First(line, 1, {" "})
      b == First(line, a + 1, {" "})
  IN IF a > Len(line) \/ b > Len(line) \/ ~IsNumber(SubSeq(line, a + 1, b - 1))
     THEN Fail(p, "bad_request")
     ELSE [p EXCEPT !.version = SubSeq(line, 1, a - 1), !.stage = "headers",
                    !.status = Number(SubSeq(line, a + 1, b - 1))]

\* process_body of requests and of responses: a body without a length is none.
ProcessBody(p, bytes, before) ==
  LET n == Smaller(p.needed, Len(bytes))
  IN [p EXCEPT !.body = @ \o SubSeq(bytes, 1, n), !.needed = @ - n, !.taken = before + n,
               !.stage = IF n = p.needed THEN "done" ELSE "body"]

\* The end of a request's headers, with the bytes after it.
RequestHeadersEnd(p, rest, len) ==
  LET length == GetHeader(p.headers, "Content-Length")
      reading == [p EXCEPT !.buf = <<>>, !.needed = Number(length)]
  IN IF p.stage = "line" \/ GetHeader(p.headers, "Host") = <<>> THEN Fail(p, "bad_request")
     ELSE IF Number(length) > MaxBodySize THEN Fail(p, "request_entity_too_large")
     ELSE ProcessBody(reading, rest, len - Len(rest))

\* A body of which nothing has come yet is looked for in the next read.
ResponseHeadersEnd(p, rest, len) ==
  LET length == GetHeader(p.headers, "Content-Length")
      reading == [p EXCEPT !.buf = <<>>, !.needed = Number(length), !.stage = "body"]
  IN IF p.stage = "line" \/ (length # <<>> /\ ~IsNumber(length)) THEN Fail(p, "bad_request")
     ELSE IF rest = <<>> THEN [reading EXCEPT !.taken = len]
     ELSE ProcessBody(reading, rest, len - Len(rest))

HeadersEnd(isRequest, p, rest, len) ==
  IF isRequest THEN RequestHeadersEnd(p, rest, len) ELSE ResponseHeadersEnd(p, rest, len)

ProcessLine(isRequest, p, line) ==
  IF p.stage = "headers" THEN ProcessHeader(p, line)
  ELSE IF isRequest THEN ProcessRequestLine(p, line) ELSE ProcessResponseLine(p, line)

\* The symbols before the first end of line, or all there are.
LineLength(buf) ==
  Min({n \in 0 .. Len(buf) - 2 : SubSeq(buf, n + 1, n + 2) = CRLF} \cup {Len(buf)})

\* sizeof(header_delimiter): with the zero at its end
DelimiterSize == 3

\* The loop over the lines: a line counts with its delimiter, and so does the rest of
\* a read that ends inside a line, which is counted again with the next.
Counted(p, n) == [p EXCEPT !.header = @ + n + DelimiterSize]

RECURSIVE Lines(_, _, _, _)
Lines(isRequest, p, n, len) ==
  LET rest == SubSeq(p.buf, n + 3, Len(p.buf))
      next == ProcessLine(isRequest, Counted(p, n), SubSeq(p.buf, 1, n))
  IN IF p.header + n + DelimiterSize > MaxHeaderSize
       THEN Fail(p, "request_header_fields_too_large")
     ELSE IF n = Len(p.buf) THEN [p EXCEPT !.header = @ + DelimiterSize, !.taken = len]
     ELSE IF n = 0 THEN HeadersEnd(isRequest, p, rest, len)
     ELSE IF next.error # "none" THEN next
     ELSE Lines(isRequest, [next EXCEPT !.buf = rest], LineLength(rest), len)

LinesFrom(isRequest, p, len) == Lines(isRequest, p, LineLength(p.buf), len)

Consume(isRequest, p, bytes) ==
  CASE p.stage = "done" -> [p EXCEPT !.taken = 0]
    [] p.stage = "body" -> ProcessBody(p, bytes, 0)
    [] OTHER -> LinesFrom(isRequest, [p EXCEPT !.buf = @ \o bytes], Len(bytes))

Ready(request) == request.stage = "done"
HeadersReady(response) == response.stage \in {"body", "done"}

RawRequest(r) ==
  r.method \o <<" ">> \o r.uri \o <<" ">> \o r.version \o CRLF \o RawHeaders(r.headers)
    \o CRLF \o r.body

RawResponse(r) ==
  r.version \o <<" ">> \o Digits(r.status) \o <<" ", "phrase">> \o CRLF \o RawHeaders(r.headers)
    \o CRLF \o r.body
=============================================================================
