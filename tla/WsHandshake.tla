----------------------------- MODULE WsHandshake -----------------------------
(***************************************************************************)
(* The opening handshake of websocketpp: the client's request, the server's    *)
(* answer and the client's judgement (processors/hybi13.hpp, processor.hpp,    *)
(* impl/connection_impl.hpp), with the addresses (uri.hpp) and the negotiation  *)
(* of compression (extensions/permessage_deflate/enabled.hpp).  When the        *)
(* handlers run is in WsConnection; here is what they read and write.           *)
(***************************************************************************)
EXTENDS WsHttp

VARIABLES
  hs,      \* the two ends and what has been agreed
  stream   \* what is on its way to the end that reads

vars == <<hs, stream>>

-----------------------------------------------------------------------------
(***************************************************************************)
(* Addresses                                                               *)
(***************************************************************************)

Secure(scheme) == scheme \in {"wss", "https"}
DefaultPort(scheme) == IF Secure(scheme) THEN 443 ELSE 80

\* get_port_from_string: 0 if the text is no port
PortOf(scheme, port) ==
  IF port = <<>> THEN DefaultPort(scheme)
  ELSE IF Number(port) > 65535 THEN 0 ELSE Number(port)

Resource(resource) == IF resource = <<>> THEN <<"/">> ELSE resource

Uri(scheme, host, port, resource) ==
  [valid |-> port # 0, scheme |-> scheme, host |-> host, port |-> port, resource |-> resource]

NoUri == Uri("none", <<>>, 0, <<>>)

\* The rest of an address after its host: a port up to the next slash.
UriFrom(s, host, at) ==
  LET slash == First(s, at, {"/"})
      hasPort == at <= Len(s) /\ s[at] = ":"
      port == IF hasPort THEN SubSeq(s, at + 1, slash - 1) ELSE <<>>
  IN Uri(s[1], host, PortOf(s[1], port), <<"/">> \o SubSeq(s, slash + 1, Len(s)))

\* An address in brackets is kept without them, and must end the host.
BracketUri(s) ==
  LET end == First(s, 6, {"]"})
  IN IF end > Len(s) \/ (end < Len(s) /\ s[end + 1] \notin {"/", ":"}) THEN NoUri
     ELSE UriFrom(s, SubSeq(s, 6, end - 1), end + 1)

HostUri(s) ==
  LET end == First(s, 5, {"/", ":"})
  IN UriFrom(s, SubSeq(s, 5, end - 1), end)

ParseUri(s) ==
  IF Len(s) < 5 \/ s[1] \notin {"ws", "wss", "http", "https"} \/ SubSeq(s, 2, 4) # <<":", "/", "/">>
  THEN NoUri
  ELSE IF s[5] = "[" THEN BracketUri(s) ELSE HostUri(s)

GetHostPort(uri) ==
  uri.host \o IF uri.port = DefaultPort(uri.scheme) THEN <<>> ELSE <<":">> \o Digits(uri.port)

UriText(uri) == <<uri.scheme, ":", "/", "/">> \o GetHostPort(uri) \o uri.resource

LastOf(s, symbol) == Max({p \in DOMAIN s : s[p] = symbol} \cup {0})

\* A colon after the bracket, if there is one, begins the port.
GetUriFromHost(headers, resource, scheme) ==
  LET h == GetHeader(headers, "Host")
      colon == LastOf(h, ":")
      rest == Resource(resource)
  IN IF colon = 0 \/ LastOf(h, "]") > colon THEN Uri(scheme, h, DefaultPort(scheme), rest)
     ELSE Uri(scheme, SubSeq(h, 1, colon - 1), PortOf(scheme, SubSeq(h, colon + 1, Len(h))), rest)

-----------------------------------------------------------------------------
(***************************************************************************)
(* Compression                                                             *)
(***************************************************************************)

Takeovers == {"server_no_context_takeover", "client_no_context_takeover"}
ServerBits == "server_max_window_bits"
ClientBits == "client_max_window_bits"
WindowBits == {ServerBits, ClientBits}

DefaultBits == 15
MinBits == 8

\* zlib cannot do 8
Window(bits) == IF bits = 8 THEN 9 ELSE bits

\* The settings: set_server_max_window_bits and set_client_max_window_bits; disabled
\* is the extension that implements nothing, which this program has.
NewDeflate(serverBits, clientBits, mode) ==
  [enabled |-> FALSE, initialized |-> FALSE, deflate |-> 0, inflate |-> 0, mode |-> mode,
   off |-> {}, bits |-> [b \in WindowBits |->
                           Window(IF b = ServerBits THEN serverBits ELSE clientBits)]]

Offer == <<"permessage-deflate", ";", " ", "client_no_context_takeover", ";", " ",
           "client_max_window_bits">>

GenerateResponse(d) ==
  <<"permessage-deflate">>
    \o FlattenSeq([i \in 1 .. 2 |->
         LET b == <<"server_no_context_takeover", "client_no_context_takeover">>[i]
         IN IF b \in d.off THEN <<";", " ", b>> ELSE <<>>])
    \o FlattenSeq([i \in 1 .. 2 |->
         LET b == <<"server_max_window_bits", "client_max_window_bits">>[i]
         IN IF d.bits[b] < DefaultBits THEN <<";", " ", b, "=">> \o Digits(d.bits[b]) ELSE <<>>])

Refuse(d) == [refused |-> TRUE, d |-> d]
Accept(d) == [refused |-> FALSE, d |-> d]

Negotiated(d, name, bits) ==
  CASE d.mode = "decline" -> DefaultBits
    [] d.mode = "accept" -> bits
    [] d.mode = "largest" -> Smaller(bits, d.bits[name])
    [] d.mode = "smallest" -> MinBits

\* The number is cast to eight bits before it is compared.
NegotiateBits(d, name, value) ==
  LET given == Number(value) % 256
      bits == IF value = <<>> /\ name = "client_max_window_bits" THEN DefaultBits ELSE given
  IN IF bits \notin MinBits .. DefaultBits THEN Refuse([d EXCEPT !.bits[name] = DefaultBits])
     ELSE Accept([d EXCEPT !.bits[name] = Window(Negotiated(d, name, bits))])

NegotiateAttribute(d, name, value) ==
  CASE name \in WindowBits -> NegotiateBits(d, name, value)
    [] name \in Takeovers /\ value = <<>> -> Accept([d EXCEPT !.off = @ \cup {name}])
    [] OTHER -> Refuse(d)

\* The order of the map of attributes.
AttributeOrder ==
  <<"client_max_window_bits", "client_no_context_takeover", "server_max_window_bits",
    "server_no_context_takeover", "unknown">>

\* What the attributes before a refused one have set stays set.
AttributeTried(so, offer, name) ==
  IF so.refused \/ <<name>> \notin DOMAIN offer THEN so
  ELSE NegotiateAttribute(so.d, name, offer[<<name>>])

Enabled(so) == IF so.refused THEN so ELSE Accept([so.d EXCEPT !.enabled = TRUE])

Negotiate(d, offer) ==
  Enabled(FoldLeft(LAMBDA so, name : AttributeTried(so, offer, name), Accept(d), AttributeOrder))

\* init: zlib's two streams with the windows of this end.
InitDeflate(d, isServer) ==
  [d EXCEPT !.initialized = TRUE,
            !.deflate = d.bits[IF isServer THEN ServerBits ELSE ClientBits],
            !.inflate = d.bits[IF isServer THEN ClientBits ELSE ServerBits]]

\* The first offer that is accepted, if any; the error of zlib ends the search and
\* leaves the extension enabled.
Tried(so, try, isServer, zlib) ==
  IF try.refused THEN [so EXCEPT !.d = try.d]
  ELSE IF ~zlib THEN [so EXCEPT !.d = try.d, !.stopped = TRUE, !.error = "zlib_error"]
  ELSE [so EXCEPT !.d = InitDeflate(try.d, isServer), !.stopped = TRUE,
                  !.response = GenerateResponse(try.d)]

TryOffer(so, parameter, isServer, zlib) ==
  IF \/ so.stopped \/ so.d.enabled \/ so.d.mode = "disabled"
     \/ parameter.name # <<"permessage-deflate">>
  THEN so
  ELSE Tried(so, Negotiate(so.d, parameter.attributes), isServer, zlib)

OffersTried(d, p, isServer, zlib) ==
  FoldLeft(LAMBDA so, parameter : TryOffer(so, parameter, isServer, zlib),
           [d |-> d, stopped |-> p.failed, response |-> <<>>,
            error |-> IF p.failed THEN "extension_parse_error" ELSE "none"],
           p.list)

NegotiateExtensions(d, headers, isServer, zlib) ==
  OffersTried(d, ParseParameterList(headers, "Sec-WebSocket-Extensions"), isServer, zlib)

-----------------------------------------------------------------------------
(***************************************************************************)
(* The protocol's requests and responses                                     *)
(***************************************************************************)

\* ci_find_substr: a word of the text
IsWebSocketHandshake(headers) ==
  /\ Contains(GetHeader(headers, "Upgrade"), "websocket")
  /\ Contains(GetHeader(headers, "Connection"), "Upgrade")

\* -1: no number
GetWebSocketVersion(headers) ==
  LET version == GetHeader(headers, "Sec-WebSocket-Version")
  IN IF version = <<>> THEN 0 ELSE IF ~IsNumber(version) THEN -1 ELSE Number(version)

\* process_handshake_key: base64 of the SHA-1 of the key and a constant
HandshakeKey(key) == <<"digest">> \o key

CommaSeparated(names) ==
  FlattenSeq([i \in DOMAIN names |-> IF i = 1 THEN <<names[i]>> ELSE <<",", " ", names[i]>>])

ClientHandshakeRequest(headers, uri, subprotocols, key, offers) ==
  LET upgraded == AppendHeader(AppendHeader(headers, "Upgrade", <<"websocket">>),
                               "Connection", <<"Upgrade">>)
      hosted == ReplaceHeader(ReplaceHeader(upgraded, "Sec-WebSocket-Version", <<"13">>),
                              "Host", GetHostPort(uri))
      listed == IF subprotocols = <<>> THEN hosted
                ELSE ReplaceHeader(hosted, "Sec-WebSocket-Protocol", CommaSeparated(subprotocols))
      keyed == ReplaceHeader(listed, "Sec-WebSocket-Key", key)
  IN IF offers THEN ReplaceHeader(keyed, "Sec-WebSocket-Extensions", Offer) ELSE keyed

ValidateServerHandshakeResponse(key, response) ==
  IF response.status # 101 THEN "invalid_http_status"
  ELSE IF ~IsWebSocketHandshake(response.headers)
          \/ HandshakeKey(key) # GetHeader(response.headers, "Sec-WebSocket-Accept")
       THEN "missing_required_header"
  ELSE "none"

ValidateHandshake(request) ==
  IF request.method # <<"GET">> THEN "invalid_http_method"
  ELSE IF request.version # <<"HTTP">> THEN "invalid_http_version"
  ELSE IF GetHeader(request.headers, "Sec-WebSocket-Key") = <<>> THEN "missing_required_header"
  ELSE "none"

ProcessHandshake(headers, key, subprotocol) ==
  LET keyed == ReplaceHeader(headers, "Sec-WebSocket-Accept", HandshakeKey(key))
      upgraded == AppendHeader(AppendHeader(keyed, "Upgrade", <<"websocket">>),
                               "Connection", <<"Upgrade">>)
  IN IF subprotocol = <<>> THEN upgraded
     ELSE ReplaceHeader(upgraded, "Sec-WebSocket-Protocol", subprotocol)

Names(p) == IF p.failed THEN <<>> ELSE [i \in DOMAIN p.list |-> p.list[i].name]

ExtractSubprotocols(headers) == Names(ParseParameterList(headers, "Sec-WebSocket-Protocol"))

\* What a handler may select: one of those requested; else nothing changes.
SelectSubprotocol(requested, value) ==
  IF \E i \in DOMAIN requested : requested[i] = value THEN value ELSE <<>>

AddSubprotocol(requested, value) ==
  IF HasNonToken(<<value>>) THEN requested ELSE Append(requested, value)

-----------------------------------------------------------------------------
(***************************************************************************)
(* base64, of the keys: digits from 0 to 63, and what fills up               *)
(***************************************************************************)

Fill == 64

\* Four digits of three bytes.
FourDigits(b) ==
  <<b[1] \div 4, (b[1] % 4) * 16 + b[2] \div 16, (b[2] % 16) * 4 + b[3] \div 64, b[3] % 64>>

Base64Group(b) ==
  LET digits == FourDigits([i \in 1 .. 3 |-> IF i <= Len(b) THEN b[i] ELSE 0])
  IN [i \in 1 .. 4 |-> IF i <= Len(b) + 1 THEN digits[i] ELSE Fill]

Groups(s, n) ==
  [i \in 1 .. (Len(s) + n - 1) \div n |-> SubSeq(s, n * (i - 1) + 1, Smaller(n * i, Len(s)))]

Base64Encode(bytes) ==
  LET groups == Groups(bytes, 3) IN FlattenSeq([i \in DOMAIN groups |-> Base64Group(groups[i])])

ThreeBytes(c) ==
  <<(c[1] * 4 + ((c[2] \div 16) % 4)) % 256, (c[2] % 16) * 16 + ((c[3] \div 4) % 16),
    ((c[3] % 4) * 64 + c[4]) % 256>>

\* Digits that are missing are not found in the alphabet: 255.
DecodeGroup(c) ==
  SubSeq(ThreeBytes([i \in 1 .. 4 |-> IF i <= Len(c) THEN c[i] ELSE 255]), 1, Len(c) - 1)

Base64Decode(digits) ==
  LET groups == Groups(SubSeq(digits, 1, First(digits, 1, {Fill}) - 1), 4)
  IN FlattenSeq([i \in DOMAIN groups |-> DecodeGroup(groups[i])])

-----------------------------------------------------------------------------
(***************************************************************************)
(* The two ends                                                            *)
(***************************************************************************)

\* A message as its sender means it: the lines of its headers, with space around the
\* values or not, and what follows it, of which the body is a part.
MessageOf(line, lines, after) == [line |-> line, lines |-> lines, pad |-> <<" ">>, after |-> after]

LineText(message, line) ==
  IF "raw" \in DOMAIN line THEN line.raw
  ELSE <<line.key, ":">> \o message.pad \o line.value \o message.pad

HeaderText(message) ==
  message.line \o CRLF
    \o FlattenSeq([i \in DOMAIN message.lines |-> LineText(message, message.lines[i]) \o CRLF])
    \o CRLF

KeyValue(key, value) == [key |-> key, value |-> value]
Raw(line) == [raw |-> line]

TheKey == <<"key">>

HostLine == KeyValue("Host", <<"h">>)

WebSocketLines ==
  <<HostLine, KeyValue("Upgrade", <<"websocket">>),
    KeyValue("Connection", <<"keep", ",", "Upgrade">>),
    KeyValue("Sec-WebSocket-Version", <<"13">>), KeyValue("Sec-WebSocket-Key", TheKey)>>

Get(lines, after) == MessageOf(<<"GET", " ", "/", " ", "HTTP">>, lines, after)

AnswerLines ==
  <<KeyValue("Upgrade", <<"websocket">>), KeyValue("Connection", <<"Upgrade">>),
    KeyValue("Sec-WebSocket-Accept", HandshakeKey(TheKey))>>

Switching(lines, after) ==
  MessageOf(<<"HTTP", " ", "101", " ", "phrase">>, lines, after)

\* What the programs at the two ends do, and what their peers send if these are not
\* of this library.
Ordinary ==
  [kind |-> "library", address |-> <<"ws", ":", "/", "/", "h", "/", "x">>, protocols |-> <<>>,
   calls |-> <<>>, message |-> Get(<<>>, <<>>), offers |-> <<>>, after |-> <<>>,
   expect |-> "open", cuts |-> TRUE, zlib |-> TRUE,
   server |-> NewDeflate(15, 15, "accept"), client |-> NewDeflate(15, 15, "accept"),
   accepts |-> TRUE, status |-> 0, select |-> <<>>, http |-> FALSE, body |-> <<>>,
   agent |-> <<"agent">>]

Peer(headers, requested, deflate) ==
  [headers |-> headers, requested |-> requested, selected |-> <<>>, uri |-> NoUri,
   deflate |-> deflate, parser |-> NewParser, response |-> NewParser, outcome |-> {},
   left |-> <<>>, reads |-> 0]

\* A client's append_header, replace_header and remove_header throw once it has started.
UserHeader(headers, call) ==
  CASE call[1] = "append" -> AppendHeader(headers, call[2], call[3])
    [] call[1] = "replace" -> ReplaceHeader(headers, call[2], call[3])
    [] call[1] = "remove" -> RemoveHeader(headers, call[2])

CallHeader ==
  /\ hs.scenario.kind = "library" /\ hs.calls # <<>>
  /\ hs' = [hs EXCEPT !.calls = Tail(@),
                      !.client.headers =
                        IF hs.stage = "init" THEN UserHeader(@, Head(hs.calls)) ELSE @]
  /\ UNCHANGED stream

WithAgent(headers, key, agent) ==
  IF GetHeader(headers, key) # <<>> THEN headers
  ELSE IF agent # <<>> THEN ReplaceHeader(headers, key, agent) ELSE RemoveHeader(headers, key)

\* client::get_connection, send_http_request
ClientRequest(uri) ==
  LET offers == hs.client.deflate.mode # "disabled"
  IN WithAgent(ClientHandshakeRequest(hs.client.headers, uri, hs.client.requested, TheKey, offers),
               "User-Agent", hs.scenario.agent)

GetRequest(uri, headers) ==
  RawRequest([NewParser EXCEPT !.method = <<"GET">>, !.uri = uri.resource, !.version = <<"HTTP">>,
                               !.headers = headers])

Connect ==
  /\ hs.stage = "init" /\ hs.scenario.kind = "library"
  /\ \E uri \in {ParseUri(hs.scenario.address)} :
     \E headers \in {IF uri.valid THEN ClientRequest(uri) ELSE hs.client.headers} :
       /\ hs' = [hs EXCEPT !.client.uri = uri, !.client.headers = headers,
                           !.stage = IF uri.valid THEN "request" ELSE "over"]
       /\ stream' = IF uri.valid THEN GetRequest(uri, headers) ELSE <<>>

StatusOf(error) ==
  CASE error = "request_header_fields_too_large" -> 431
    [] error = "request_entity_too_large" -> 413
    [] OTHER -> 400

\* write_http_response: an answer with no status is the server's fault.
WriteHttpResponse(e, status, headers, body) ==
  [e EXCEPT !.outcome = {IF status = 101 THEN "open" ELSE "failed"},
            !.response = [NewParser EXCEPT
                            !.version = <<"HTTP">>, !.status = IF status = 0 THEN 500 ELSE status,
                            !.headers = WithAgent(headers, "Server", hs.scenario.agent),
                            !.body = body]]

Refusal(e, headers) == WriteHttpResponse(e, 400, headers, <<>>)

\* is_secure: the server has the transport that the client expects.
Scheme(kind) ==
  CASE Secure(hs.client.uri.scheme) -> IF kind = "websocket" THEN "wss" ELSE "https"
    [] OTHER -> IF kind = "websocket" THEN "ws" ELSE "http"

WithUri(e, kind) ==
  [e EXCEPT !.uri = GetUriFromHost(e.parser.headers, e.parser.uri, Scheme(kind))]

\* A request that is no handshake goes to the program, if it wants it.
ProcessHttpRequest(e, s) ==
  IF s.http THEN WriteHttpResponse(e, s.status, SetBody(<<>>, s.body), s.body)
  ELSE WriteHttpResponse(e, 426, <<>>, <<>>)

WithExtensions(headers, response) ==
  IF response = <<>> THEN headers ELSE ReplaceHeader(headers, "Sec-WebSocket-Extensions", response)

\* validate_handler: the program selects a subprotocol and accepts or not.
Validated(e, s, headers, key) ==
  IF s.accepts
  THEN WriteHttpResponse(e, 101, ProcessHandshake(headers, key, e.selected), <<>>)
  ELSE WriteHttpResponse(e, IF s.status = 0 THEN 400 ELSE s.status, headers, <<>>)

Requested(e, subprotocols, s) ==
  [e EXCEPT !.requested = subprotocols, !.selected = SelectSubprotocol(subprotocols, s.select)]

ExtensionsNegotiated(e, s, headers) ==
  IF ~e.uri.valid THEN Refusal(e, headers)
  ELSE Validated(Requested(e, ExtractSubprotocols(e.parser.headers), s), s, headers,
                 GetHeader(e.parser.headers, "Sec-WebSocket-Key"))

WithNegotiated(e, s, negotiated) ==
  IF negotiated.error = "extension_parse_error" THEN Refusal(e, <<>>)
  ELSE ExtensionsNegotiated(WithUri([e EXCEPT !.deflate = negotiated.d], "websocket"), s,
                            WithExtensions(<<>>, negotiated.response))

ProcessWebSocketRequest(e, s) ==
  IF ValidateHandshake(e.parser) # "none" THEN Refusal(e, <<>>)
  ELSE WithNegotiated(e, s, NegotiateExtensions(e.deflate, e.parser.headers, TRUE, s.zlib))

VersionsSupported == {7, 8, 13}
VersionList == <<"0", ",", "7", ",", "8", ",", "13">>

PlainHttpRequest(e, s) ==
  IF e.uri.valid THEN ProcessHttpRequest(e, s) ELSE Refusal(e, <<>>)

WebSocketRequest(e, s, version) ==
  IF version = -1 THEN Refusal(e, <<>>)
  ELSE IF version \notin VersionsSupported
    THEN Refusal(e, ReplaceHeader(<<>>, "Sec-WebSocket-Version", VersionList))
  ELSE ProcessWebSocketRequest(e, s)

ProcessHandshakeRequest(e, s) ==
  IF IsWebSocketHandshake(e.parser.headers)
  THEN WebSocketRequest(e, s, GetWebSocketVersion(e.parser.headers))
  ELSE PlainHttpRequest(WithUri(e, "plain"), s)

Rest(bytes, taken) == SubSeq(bytes, taken + 1, Len(bytes))

Consumed(e, p, bytes) ==
  [e EXCEPT !.parser = [p EXCEPT !.taken = 0], !.reads = @ + 1,
            !.left = IF p.error = "none" THEN Rest(bytes, p.taken) ELSE <<>>]

ReadBy(e, isRequest, bytes) == Consumed(e, Consume(isRequest, e.parser, bytes), bytes)

\* handle_read_handshake: until the request is ready, read on.
AfterRequest(e, s) ==
  IF e.parser.error # "none" THEN WriteHttpResponse(e, StatusOf(e.parser.error), <<>>, <<>>)
  ELSE IF Ready(e.parser) THEN ProcessHandshakeRequest(e, s) ELSE e

\* Bound: a message comes in at most two reads, cut anywhere.
MayRead(e, n) == n \in 1 .. Len(stream) /\ (n = Len(stream) \/ (hs.scenario.cuts /\ e.reads = 0))

ServerReads(n) ==
  /\ hs.stage = "request" /\ MayRead(hs.server, n)
  /\ \E read \in {ReadBy(hs.server, TRUE, SubSeq(stream, 1, n))} :
     \E server \in {AfterRequest(read, hs.scenario)} :
     \E answered \in {server.outcome # {}} :
     \E goesOn \in {answered /\ hs.scenario.kind = "library"} :
       /\ hs' = [hs EXCEPT !.server = server,
                           !.stage = IF goesOn THEN "response"
                                     ELSE IF answered THEN "over" ELSE @]
       /\ stream' = IF goesOn THEN RawResponse(server.response) \o hs.scenario.after
                    ELSE Rest(stream, n)

\* handle_read_http_response: a failed negotiation ends the connection and opens it.
Opened(e, negotiated) ==
  [e EXCEPT !.deflate = negotiated.d,
            !.outcome = {"open"} \cup IF negotiated.error = "none" THEN {} ELSE {"failed"}]

AfterResponse(e, s) ==
  IF e.parser.error # "none" THEN [e EXCEPT !.outcome = {"failed"}]
  ELSE IF ~HeadersReady(e.parser) THEN e
  ELSE IF ValidateServerHandshakeResponse(TheKey, e.parser) # "none"
    THEN [e EXCEPT !.outcome = {"failed"}]
  ELSE Opened(e, NegotiateExtensions(e.deflate, e.parser.headers, FALSE, s.zlib))

ClientReads(n) ==
  /\ hs.stage = "response" /\ MayRead(hs.client, n)
  /\ \E read \in {ReadBy(hs.client, FALSE, SubSeq(stream, 1, n))} :
     \E client \in {AfterResponse(read, hs.scenario)} :
       hs' = [hs EXCEPT !.client = client,
                        !.stage = IF client.outcome # {} THEN "over" ELSE @]
  /\ stream' = Rest(stream, n)

-----------------------------------------------------------------------------
(***************************************************************************)
(* Scenarios: what the programs do and the peers send                         *)
(***************************************************************************)

Addresses ==
  {<<"ws", ":", "/", "/", "h">>, <<"wss", ":", "/", "/", "h", ":", "8080">>,
   <<"ws", ":", "/", "/", "h", ":", "80", "/", "x", "/", "y">>,
   <<"ws", ":", "/", "/", "h", ":", "70000">>,
   <<"ws", ":", "/", "/", "h", ":", "x", "/">>, <<"ftp", ":", "/", "/", "h">>,
   <<"ws", ":", "/", "/", "[", ":", ":", "2", "]", ":", "8080", "/", "x">>,
   <<"ws", ":", "/", "/", "[", ":", ":", "2", "]">>, <<"ws", ":", "/", "/", "[", ":", ":">>,
   <<"http", ":", "/", "/", "h", ":", "/", "x">>, <<"ws", ":", "/", "/">>}

Deflates ==
  {NewDeflate(sbits, cbits, mode) :
     sbits \in {8, 15}, cbits \in {10, 15},
     mode \in {"accept", "largest", "smallest", "disabled"}}

ServerDeflates == Deflates \cup {NewDeflate(10, 10, "decline")}

\* A client's own preferences cannot be set through its connection.
ClientDeflates == {NewDeflate(15, 15, mode) : mode \in {"accept", "disabled"}}

Library ==
  {[Ordinary EXCEPT !.address = address] : address \in Addresses}
    \cup {[Ordinary EXCEPT !.client = c, !.server = s, !.cuts = FALSE] :
            c \in ClientDeflates, s \in ServerDeflates}
    \cup {[Ordinary EXCEPT !.protocols = <<"p", "q">>, !.select = select, !.zlib = FALSE] :
            select \in {<<>>, <<"q">>, <<"other">>}}
    \cup {[Ordinary EXCEPT !.calls = <<call>>, !.after = <<"frame">>, !.agent = <<>>] :
            call \in {<<"append", "Connection", <<"keep">>>>, <<"append", "Upgrade", <<>>>>,
                      <<"replace", "User-Agent", <<"own">>>>, <<"remove", "Upgrade">>}}
    \cup {[Ordinary EXCEPT !.accepts = FALSE, !.status = status] : status \in {0, 500}}

\* Messages that a peer sends: as they should be, with lists and bodies, and not.
LineSets ==
  {WebSocketLines, <<HostLine>>,
   <<KeyValue("Host", <<"h", ":", "8080">>), KeyValue("Server", <<>>)>>,
   <<HostLine, KeyValue("Content-Length", <<"3">>)>>,
   <<HostLine, KeyValue("Content-Length", <<"15">>)>>,
   <<HostLine, KeyValue("Server", <<>>), KeyValue("Server", <<"a">>), KeyValue("Server", <<"b">>)>>}

BadLineSets ==
  {<<>>, <<KeyValue("Upgrade", <<"websocket">>)>>, <<HostLine, Raw(<<"no", " ", "colon">>)>>,
   <<HostLine, Raw(<<"two", " ", "words", ":", "x">>)>>}

Changed(key, value) ==
  [i \in DOMAIN WebSocketLines |->
     IF WebSocketLines[i].key = key THEN KeyValue(key, value) ELSE WebSocketLines[i]]

WithLine(key, value) == Append(WebSocketLines, KeyValue(key, value))

\* What a server makes of handshakes that differ from the usual in one line.
Refused ==
  {Changed("Sec-WebSocket-Version", v) : v \in {<<"9">>, <<"x">>}}
    \cup {Changed("Sec-WebSocket-Key", <<>>), Changed("Host", <<"h", ":", "x">>),
          WithLine("Sec-WebSocket-Extensions", <<"(">>)}

Accepted ==
  {Changed("Sec-WebSocket-Version", <<"7">>), WithLine("Sec-WebSocket-Protocol", <<"(">>),
   WithLine("Sec-WebSocket-Protocol", <<"p", ",", "q">>), Append(WebSocketLines, HostLine)}

Request(message, expect) ==
  [Ordinary EXCEPT !.kind = "request", !.message = message, !.select = <<"q">>,
                   !.expect = expect]

Requests ==
  {Request([Get(lines, after) EXCEPT !.pad = pad],
           IF lines = WebSocketLines THEN "open" ELSE "http") :
     lines \in LineSets, after \in {<<>>, <<"b", "b", "b", "frame">>}, pad \in {<<>>, <<" ", " ">>}}
    \cup {Request(Get(lines, <<>>), "bad") : lines \in BadLineSets}
    \cup {Request(Get(lines, <<>>), "refused") : lines \in Refused}
    \cup {Request(Get(lines, <<>>), "open") : lines \in Accepted}
    \cup {Request([Get(WebSocketLines, <<>>) EXCEPT !.line = line], "refused") :
            line \in {<<"POST", " ", "/", " ", "HTTP">>, <<"GET", " ", "/", " ", "old">>}}
    \cup {Request([Get(WebSocketLines, <<>>) EXCEPT !.line = line], "bad") :
            line \in {<<"GET", "/">>, <<"GET", "(", " ", "/", " ", "HTTP">>,
                      <<" ", "/", " ", "HTTP">>}}
    \cup {[Request(Get(<<HostLine>>, <<>>), "http") EXCEPT
               !.http = TRUE, !.status = status, !.body = <<"b", "b">>] :
            status \in {0, 400}}

\* Lists of offers, by the attributes of each: a number, or none.
None == -1

AttributeText(name, n, form) ==
  <<";">> \o form \o <<name>>
    \o IF n = None THEN <<>>
       ELSE <<"=">> \o form
              \o (IF form = <<>> THEN Digits(n) ELSE <<"quote">> \o Digits(n) \o <<"quote">>)

OfferText(offer, form) ==
  LET names == SelectSeq(AttributeOrder, LAMBDA name : name \in DOMAIN offer)
  IN <<"permessage-deflate">>
       \o FlattenSeq([i \in DOMAIN names |-> AttributeText(names[i], offer[names[i]], form)])

OffersText(offers, form) ==
  FlattenSeq([i \in DOMAIN offers |->
                (IF i = 1 THEN <<>> ELSE <<",">> \o form) \o OfferText(offers[i], form)])

OneOffer ==
  {<<>>} \cup {[n \in {name} |-> value] :
                 name \in WindowBits \cup {"server_no_context_takeover"},
                 value \in {None, 8, 10, 7, 265}}
    \cup {[n \in {"client_max_window_bits", "unknown"} |-> 10]}

Offers ==
  {<<o>> : o \in OneOffer}
    \cup {<<o, p>> : o \in OneOffer, p \in {<<>>, [n \in {ServerBits} |-> 9]}}

OfferScenario(offers, form, deflate) ==
  [Request(Get(WithLine("Sec-WebSocket-Extensions", OffersText(offers, form)), <<>>), "open")
   EXCEPT
     !.offers = offers, !.server = deflate, !.cuts = FALSE]

OfferScenarios ==
  {OfferScenario(offers, form, NewDeflate(15, 15, "accept")) :
     offers \in Offers, form \in {<<>>, <<" ">>}}
    \cup {OfferScenario(<<o>>, <<>>, NewDeflate(10, 10, mode)) :
            o \in OneOffer, mode \in {"largest", "smallest", "disabled"}}

Response(message, expect) ==
  [Ordinary EXCEPT !.kind = "response", !.message = message, !.expect = expect]

Answer(line, expect) == Response(Switching(Append(AnswerLines, line), <<>>), expect)

\* An extension header that cannot be read ends the connection, and opens it.
Responses ==
  {Response(Switching(AnswerLines, after), "open") : after \in {<<>>, <<"frame", "frame">>}}
    \cup {Response([Switching(AnswerLines, <<>>) EXCEPT !.line = line], "bad") :
            line \in {<<"HTTP", " ", "x", " ", "phrase">>, <<"HTTP", " ", "101">>, <<"HTTP">>}}
    \cup {Response(Switching(SubSeq(AnswerLines, 1, n), <<>>), "refused") : n \in 0 .. 2}
    \cup {Answer(line, "bad") :
            line \in {KeyValue("Content-Length", <<"x">>), Raw(<<"x">>)}}
    \cup {Answer(KeyValue("Sec-WebSocket-Accept", <<"x">>), "refused"),
          Answer(KeyValue("Sec-WebSocket-Extensions", <<",">>), "open"),
          Response(MessageOf(<<"HTTP", " ", "400", " ", "phrase">>,
                             <<KeyValue("Content-Length", <<"2">>)>>, <<"b", "b">>), "refused")}

Init ==
  /\ hs \in {[scenario |-> s, calls |-> s.calls,
              stage |-> CASE s.kind = "library" -> "init" [] OTHER -> s.kind,
              client |-> Peer(<<>>, FoldLeft(AddSubprotocol, <<>>, s.protocols), s.client),
              server |-> Peer(<<>>, <<>>, s.server)] :
               s \in Library \cup Requests \cup OfferScenarios \cup Responses}
  /\ stream = IF hs.scenario.kind = "library" THEN <<>>
              ELSE HeaderText(hs.scenario.message) \o hs.scenario.message.after

Next ==
  \/ CallHeader
  \/ Connect
  \/ \E n \in DOMAIN stream : ServerReads(n)
  \/ \E n \in DOMAIN stream : ClientReads(n)

Spec == Init /\ [][Next]_vars

-----------------------------------------------------------------------------
(***************************************************************************)
(* Properties                                                              *)
(***************************************************************************)

Message == hs.scenario.message
MessageKeys ==
  {Message.lines[i].key : i \in {j \in DOMAIN Message.lines : "key" \in DOMAIN Message.lines[j]}}

ValuesOf(key) ==
  LET mine == SelectSeq(Message.lines, LAMBDA line : line.key = key)
      filled == SelectSeq(mine, LAMBDA line : line.value # <<>>)
  IN FlattenSeq([i \in DOMAIN filled |-> (IF i = 1 THEN <<>> ELSE <<",", " ">>) \o filled[i].value])

\* What the limit is compared with when the message comes in one read.
HeaderSize ==
  LET sizes == [i \in DOMAIN Message.lines |->
                  Len(LineText(Message, Message.lines[i])) + DelimiterSize]
  IN FoldLeft(+, Len(Message.line) + 2 * DelimiterSize, sizes)

\* A message that is understood is understood as it was sent: each header with all its
\* values, the body, and the bytes after it left for the frames.
Understood(e) ==
  /\ \A key \in MessageKeys : GetHeader(e.parser.headers, key) = ValuesOf(key)
  /\ \A key \in DOMAIN e.parser.headers : Head(key) \in MessageKeys
  /\ e.parser.body \o e.left \o stream = Message.after

\* A peer's message is read as it was meant, however it is cut; it is refused as too
\* long only if it is, but for the three bytes of each read; what has come in full
\* is not waited for, and what is in order is accepted (request.hpp:39-117,
\* response.hpp:39-117, parser.hpp:49-190).
ReadAsSent ==
  LET reader == IF hs.scenario.kind = "request" THEN hs.server ELSE hs.client
      done == IF hs.scenario.kind = "request" THEN Ready(reader.parser)
              ELSE HeadersReady(reader.parser)
  IN hs.scenario.kind # "library" /\ reader.reads > 0 =>
       /\ done => Understood(reader) /\ HeaderSize <= MaxHeaderSize
       /\ reader.parser.error = "request_header_fields_too_large" =>
            HeaderSize + DelimiterSize * reader.reads > MaxHeaderSize
       /\ reader.parser.error = "bad_request" => hs.scenario.expect = "bad"
       /\ reader.outcome # {} /\ reader.parser.error # "request_header_fields_too_large" =>
            ("open" \in reader.outcome <=> hs.scenario.expect = "open")
       /\ stream = <<>> /\ reader.outcome = {} =>
            Number(GetHeader(reader.parser.headers, "Content-Length")) > Len(Message.after)

\* The two ends come to the same: the client opens only what the server has accepted,
\* and both mean the same address, subprotocol and compression, each taking in at
\* least the window the other may use (connection_impl.hpp:1131-1293, 1434-1490,
\* 1585-1649, hybi13.hpp:102-349, enabled.hpp:273-318, 509-537).
EndsAgree ==
  LET c == hs.client
      s == hs.server
  IN hs.scenario.kind = "library" /\ c.outcome # {} =>
       /\ c.outcome = {"open"} => s.outcome = {"open"}
       /\ s.outcome = {"open"} /\ c.parser.error = "none" => c.outcome = {"open"}
       /\ s.outcome = {"open"} =>
            /\ ~Contains(c.uri.host, ":") => [s.uri EXCEPT !.scheme = c.uri.scheme] = c.uri
            /\ [i \in DOMAIN s.requested |-> s.requested[i][1]] = c.requested
            /\ s.selected # <<>> => \E i \in DOMAIN c.requested : s.selected = <<c.requested[i]>>
       /\ c.outcome = {"open"} =>
            /\ c.left \o stream = hs.scenario.after
            /\ c.deflate.initialized = s.deflate.initialized
            /\ c.deflate.deflate <= s.deflate.inflate /\ s.deflate.deflate <= c.deflate.inflate

ValidAttribute(name, n) ==
  CASE name \in WindowBits -> IF n = None THEN name = ClientBits ELSE n % 256 \in 8 .. 15
    [] name \in Takeovers -> n = None
    [] OTHER -> FALSE

\* The first of a list of offers that can be met is met: the server's window is not
\* larger than it asks, and nothing is asked of the client that no offer mentioned
\* (enabled.hpp:509-537, 652-794, hybi13.hpp:102-183, parser.hpp:73-377).
OffersMet ==
  LET offers == hs.scenario.offers
      d == hs.server.deflate
      good == {i \in DOMAIN offers :
                 \A name \in DOMAIN offers[i] : ValidAttribute(name, offers[i][name])}
      met == offers[Min(good)]
  IN offers # <<>> /\ hs.server.outcome = {"open"} =>
       /\ d.initialized <=> good # {} /\ d.mode # "disabled"
       /\ d.initialized =>
            /\ "server_max_window_bits" \in DOMAIN met =>
                 d.deflate <= Window(met["server_max_window_bits"] % 256)
            /\ "server_no_context_takeover" \in DOMAIN met => "server_no_context_takeover" \in d.off
            /\ d.inflate < hs.scenario.server.bits["client_max_window_bits"] =>
                 \E i \in 1 .. Min(good) : "client_max_window_bits" \in DOMAIN offers[i]

Bytes == {0, 1, 77, 255}

\* Addresses and keys that have been written are read back (uri.hpp:51-346,
\* base64.hpp:66-174).
WrittenReadsBack ==
  hs.scenario = Ordinary /\ hs.stage = "init" =>
    /\ \A address \in Addresses : \A uri \in {ParseUri(address)} :
         uri.valid /\ ~Contains(uri.host, ":") => ParseUri(UriText(uri)) = uri
    /\ \A s \in BoundedSeq(Bytes, 4) : Base64Decode(Base64Encode(s)) = s
=============================================================================
