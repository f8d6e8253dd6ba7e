------------------------------ MODULE WsFrames ------------------------------
(***************************************************************************)
(* How websocketpp writes and reads frames (websocket/websocketpp/           *)
(* processors/hybi13.hpp, frame.hpp, utf8_validator.hpp, close.hpp), without  *)
(* compression, which the client has disabled.  The peer sends frames, well   *)
(* formed or not; their bytes arrive in chunks cut anywhere, and the          *)
(* processor keeps its place in the frame and in the message between them.   *)
(*                                                                         *)
(* A frame's first two bytes are records of their fields; lengths are written *)
(* with scaled-down fields; a byte masked with a byte of a key is the pair of  *)
(* the two, which only the same byte of the key unmasks.                     *)
(***************************************************************************)
EXTENDS WsPayloads, FiniteSets, SequencesExt

CONSTANTS
  LengthBase,     \* what a byte of a length counts to, 256 in the code
  ShortField,     \* bytes of a 16 bit length, 2 in the code
  LongField,      \* bytes of a 64 bit length, 8 in the code
  MaxMessageSize,
  Payloads,       \* payloads tried
  MaxFrames       \* bound: frames that the peer sends

VARIABLES
  server,  \* whether the reading endpoint is a server
  rx,      \* its processor
  wire,    \* bytes sent and not yet read
  sent,    \* the frames that the peer has sent
  inbox    \* the messages handed on

vars == <<server, rx, wire, sent, inbox>>

SizeExtended == LengthBase ^ ShortField - 1
SizeMod == LengthBase ^ LongField      \* 2^64: a size_t

Continuation == 0
Text == 1
Binary == 2
CloseCode == 8
PingCode == 9

IsControl(op) == op >= 8
Reserved(op) == op \in 3 .. 7 \cup 11 .. 15

-----------------------------------------------------------------------------
(***************************************************************************)
(* UTF-8: the table-driven decoder                                         *)
(***************************************************************************)

Accept == 0
Reject == 1

\* The type of a byte: the first part of utf8d.
ByteType(byte) ==
  CASE byte < 128 -> 0
    [] byte \in 128 .. 143 -> 1
    [] byte \in 144 .. 159 -> 9
    [] byte \in 160 .. 191 -> 7
    [] byte \in {192, 193} -> 8
    [] byte \in 194 .. 223 -> 2
    [] byte = 224 -> 10
    [] byte \in 225 .. 239 \ {237} -> 3
    [] byte = 237 -> 4
    [] byte = 240 -> 11
    [] byte \in 241 .. 243 -> 6
    [] byte = 244 -> 5
    [] byte > 244 -> 8

\* The states a byte leads to, by its type: the second part of utf8d.
Transitions ==
  <<<<0, 1, 2, 3, 5, 8, 7, 1, 1, 1, 4, 6>>,
    <<1, 1, 1, 1, 1, 1, 1, 1, 1, 1, 1, 1>>,
    <<1, 0, 1, 1, 1, 1, 1, 0, 1, 0, 1, 1>>,
    <<1, 2, 1, 1, 1, 1, 1, 2, 1, 2, 1, 1>>,
    <<1, 1, 1, 1, 1, 1, 1, 2, 1, 1, 1, 1>>,
    <<1, 2, 1, 1, 1, 1, 1, 1, 1, 2, 1, 1>>,
    <<1, 1, 1, 1, 1, 1, 1, 3, 1, 3, 1, 1>>,
    <<1, 3, 1, 1, 1, 1, 1, 3, 1, 3, 1, 1>>,
    <<1, 3, 1, 1, 1, 1, 1, 1, 1, 1, 1, 1>>>>

\* The decoder stops at the first byte it rejects.
Decode(state, bytes) ==
  FoldLeft(LAMBDA s, byte : IF s = Reject THEN s ELSE Transitions[s + 1][ByteType(byte) + 1],
           state, bytes)

Validate(bytes) == Decode(Accept, bytes) = Accept

-----------------------------------------------------------------------------
(***************************************************************************)
(* Frames                                                                  *)
(***************************************************************************)

SizeCode(size) ==
  IF size <= SizeBasic THEN "basic" ELSE IF size <= SizeExtended THEN "short" ELSE "long"

FieldLength(code) == IF code = "basic" THEN 0 ELSE IF code = "short" THEN ShortField ELSE LongField

\* A length in a field, the most significant digit first.
Digits(size, n) == [i \in 1 .. n |-> (size \div LengthBase ^ (n - i)) % LengthBase]

Value(digits) == FoldLeft(LAMBDA sum, digit : sum * LengthBase + digit, 0, digits)

\* basic_header and extended_header: b1 holds the size or the code for a field.
BasicHeader(op, size, fin, masked, rsv1, rsv) ==
  <<[fin |-> fin, rsv1 |-> rsv1, rsv |-> rsv, op |-> op],
    [masked |-> masked, code |-> SizeCode(size), size |-> IF size <= SizeBasic THEN size ELSE 0]>>

ExtendedHeader(size, key) == Digits(size, FieldLength(SizeCode(size))) \o key

\* get_header_len without the basic header
ExtendedLength(b1) == FieldLength(b1.code) + IF b1.masked THEN KeyLength ELSE 0

PayloadSize(b1, extended) ==
  IF b1.code = "basic" THEN b1.size ELSE Value(SubSeq(extended, 1, FieldLength(b1.code)))

MaskingKey(b1, extended) ==
  IF ~b1.masked THEN <<>>
  ELSE SubSeq(extended, FieldLength(b1.code) + 1, FieldLength(b1.code) + KeyLength)

NewKey(n) == [i \in 1 .. KeyLength |-> <<n, i>>]

\* The bytes of a prepared message, which a client masks.
Prepared(op, payload, fin, masked, n) ==
  BasicHeader(op, Len(payload), fin, masked, FALSE, FALSE)
  \o ExtendedHeader(Len(payload), IF masked THEN NewKey(n) ELSE <<>>)
  \o (IF masked THEN MaskedCopy(payload, NewKey(n)) ELSE payload)

Refused == <<>>

PrepareDataFrame(op, payload, fin, masked, n) ==
  IF IsControl(op) \/ (op = Text /\ ~Validate(payload)) THEN Refused
  ELSE Prepared(op, payload, fin, masked, n)

PrepareControl(op, payload, masked, n) ==
  IF ~IsControl(op) \/ Len(payload) > SizeBasic THEN Refused
  ELSE Prepared(op, payload, TRUE, masked, n)

-----------------------------------------------------------------------------
(***************************************************************************)
(* Close codes                                                             *)
(***************************************************************************)

ExtractReason(payload) ==
  LET reason == ReasonOf(payload) IN [ok |-> Validate(reason), reason |-> reason]

-----------------------------------------------------------------------------
(***************************************************************************)
(* Reading                                                                 *)
(***************************************************************************)

NoMessage == [op |-> -1, payload |-> <<>>, key |-> <<>>, utf8 |-> Accept]

ResetHeaders(p) == [p EXCEPT !.state = "HEADER_BASIC", !.needed = 2, !.basic = <<>>, !.extended = <<>>]

Failed(p, ec) == [p EXCEPT !.ec = ec]

\* validate_incoming_basic_header
BasicHeaderError(b0, b1, newMsg) ==
  CASE IsControl(b0.op) /\ b1.code # "basic" -> "control_too_big"
    [] b0.rsv1 \/ b0.rsv -> "invalid_rsv_bit"
    [] Reserved(b0.op) -> "invalid_opcode"
    [] IsControl(b0.op) /\ ~b0.fin -> "fragmented_control"
    [] newMsg /\ b0.op = Continuation -> "invalid_continuation"
    [] ~newMsg /\ ~IsControl(b0.op) /\ b0.op # Continuation -> "invalid_continuation"
    [] server /\ ~b1.masked -> "masking_required"
    [] ~server /\ b1.masked -> "masking_forbidden"
    [] OTHER -> "none"

\* validate_incoming_extended_header
ExtendedHeaderError(b1, size) ==
  IF (b1.code = "short" /\ size <= SizeBasic) \/ (b1.code = "long" /\ size <= SizeExtended)
  THEN "non_minimal_encoding" ELSE "none"

\* A field of a header or a payload takes as many of the bytes as it needs.
Taken(p) == IF p.needed < Len(p.input) THEN p.needed ELSE Len(p.input)

Takes(p, n) == [p EXCEPT !.needed = @ - n, !.input = SubSeq(@, n + 1, Len(@))]

BasicHeaderEnds(p) ==
  LET ec == BasicHeaderError(p.basic[1], p.basic[2], p.data = NoMessage)
  IN IF ec # "none" THEN Failed(p, ec)
     ELSE [p EXCEPT !.state = "HEADER_EXTENDED", !.needed = ExtendedLength(p.basic[2])]

CopyBasicHeaderBytes(p, n) ==
  LET q == [Takes(p, n) EXCEPT !.basic = @ \o SubSeq(p.input, 1, n)]
  IN IF q.needed > 0 THEN q ELSE BasicHeaderEnds(q)

\* A new message, or another frame of one.
StartMessage(p, size, key) ==
  [p EXCEPT !.data = [NoMessage EXCEPT !.op = p.basic[1].op, !.key = key], !.current = "data"]

GoOnWithMessage(p, key) == [p EXCEPT !.data.key = key, !.current = "data"]

\* Mutant of FrameBegins: a control frame between two fragments takes the place
\* of the message.
FrameBegins_InPlace(p, size, key) ==
  CASE IsControl(p.basic[1].op) -> StartMessage(p, size, key)
    [] ~IsControl(p.basic[1].op) /\ p.data = NoMessage ->
         IF size > MaxMessageSize THEN Failed(p, "message_too_big") ELSE StartMessage(p, size, key)
    [] OTHER ->
         IF (Len(p.data.payload) + size) % SizeMod > MaxMessageSize
         THEN Failed(p, "message_too_big") ELSE GoOnWithMessage(p, key)

\* The sum of two sizes wraps as a size_t does.
FrameBegins(p, size, key) ==
  CASE IsControl(p.basic[1].op) ->
         [p EXCEPT !.control = [NoMessage EXCEPT !.op = p.basic[1].op, !.key = key],
                   !.current = "control"]
    [] ~IsControl(p.basic[1].op) /\ p.data = NoMessage ->
         IF size > MaxMessageSize THEN Failed(p, "message_too_big") ELSE StartMessage(p, size, key)
    [] OTHER ->
         IF (Len(p.data.payload) + size) % SizeMod > MaxMessageSize
         THEN Failed(p, "message_too_big") ELSE GoOnWithMessage(p, key)

ExtendedHeaderEnds(p, size) ==
  LET ec == ExtendedHeaderError(p.basic[2], size)
  IN IF ec # "none" THEN Failed(p, ec)
     ELSE FrameBegins([p EXCEPT !.state = "APPLICATION", !.needed = size],
                      size, MaskingKey(p.basic[2], p.extended))

CopyExtendedHeaderBytes(p, n) ==
  LET q == [Takes(p, n) EXCEPT !.extended = @ \o SubSeq(p.input, 1, n)]
  IN IF q.needed > 0 THEN q ELSE ExtendedHeaderEnds(q, PayloadSize(q.basic[2], q.extended))

\* process_payload_bytes: unmask, append, and validate a text message.
Received(message, bytes, masked) ==
  LET plain == IF masked THEN UnmaskedCopy(bytes, message.key) ELSE bytes
  IN [message EXCEPT !.payload = @ \o plain,
                     !.key = IF masked THEN Shifted(@, Len(bytes)) ELSE @,
                     !.utf8 = IF message.op = Text THEN Decode(@, plain) ELSE @]

Current(p) == IF p.current = "control" THEN p.control ELSE p.data

ProcessPayloadBytes(p, n) ==
  LET message == Received(Current(p), SubSeq(p.input, 1, n), p.basic[2].masked)
      q == IF p.current = "control" THEN [p EXCEPT !.control = message] ELSE [p EXCEPT !.data = message]
  IN IF message.utf8 = Reject THEN Failed(q, "invalid_utf8") ELSE Takes(q, n)

\* The end of a frame; finalize_message looks at the opcode of the last frame.
FrameEnds(p) ==
  IF ~p.basic[1].fin THEN ResetHeaders(p)
  ELSE IF p.basic[1].op = Text /\ Current(p).utf8 # Accept THEN Failed(p, "invalid_utf8")
  ELSE [p EXCEPT !.state = "READY"]

ApplicationBytes(p) == IF p.ec # "none" \/ p.needed > 0 THEN p ELSE FrameEnds(p)

\* One turn of the loop of consume.
ConsumeStep(p) ==
  CASE p.state = "HEADER_BASIC" -> CopyBasicHeaderBytes(p, Taken(p))
    [] p.state = "HEADER_EXTENDED" -> CopyExtendedHeaderBytes(p, Taken(p))
    [] p.state = "APPLICATION" ->
         ApplicationBytes(IF Taken(p) > 0 THEN ProcessPayloadBytes(p, Taken(p)) ELSE p)

RECURSIVE Consume(_)
Consume(p) ==
  IF p.ec # "none" \/ p.state = "READY" \/ (p.input = <<>> /\ p.needed # 0) THEN p
  ELSE Consume(ConsumeStep(p))

Message(message) == [op |-> message.op, payload |-> message.payload]

\* get_message
Handed(p) ==
  ResetHeaders(IF p.current = "control" THEN [p EXCEPT !.control = NoMessage]
               ELSE [p EXCEPT !.data = NoMessage])

\* handle_read_frame's loop over the bytes of one read; got collects the messages.
RECURSIVE ReadLoop(_, _)
ReadTurn(p, got) ==
  IF p.ec # "none" THEN [p |-> p, got |-> got]
  ELSE IF p.state = "READY" THEN ReadLoop(Handed(p), Append(got, Message(Current(p))))
  ELSE ReadLoop(p, got)

ReadLoop(p, got) == IF p.input = <<>> THEN [p |-> p, got |-> got] ELSE ReadTurn(Consume(p), got)

-----------------------------------------------------------------------------
(***************************************************************************)
(* The peer.  It sends what the library prepares, and frames that differ from  *)
(* it in one respect.                                                      *)
(***************************************************************************)

Frame(op, fin, payload) ==
  [op |-> op, fin |-> fin, payload |-> payload, size |-> Len(payload),
   code |-> SizeCode(Len(payload)), rsv1 |-> FALSE, rsv |-> FALSE, masked |-> server]

Sound(op, fin, payload) ==
  IF IsControl(op) THEN fin /\ PrepareControl(op, payload, server, 0) # Refused
  ELSE op = Continuation \/ PrepareDataFrame(op, payload, fin, server, 0) # Refused

WellFormed ==
  {Frame(op, fin, payload) :
     op \in {Continuation, Text, Binary, PingCode}, fin \in BOOLEAN, payload \in Payloads}

Odd(frame) ==
  {[frame EXCEPT !.rsv1 = TRUE], [frame EXCEPT !.rsv = TRUE], [frame EXCEPT !.masked = ~server],
   [frame EXCEPT !.op = 3], [frame EXCEPT !.op = 11], [frame EXCEPT !.code = "short"],
   [frame EXCEPT !.code = "long"], [frame EXCEPT !.code = "long", !.size = SizeMod - 1],
   [frame EXCEPT !.code = "long", !.size = SizeExtended + 1]}

OddFrames == UNION {Odd(Frame(op, TRUE, <<65>>)) : op \in {Continuation, Binary, PingCode}}

\* Bound: the last frame is well formed and ends its message.
Frames ==
  IF Len(sent) = MaxFrames - 1 THEN {frame \in WellFormed : frame.fin} ELSE WellFormed \cup OddFrames

\* The bytes of a frame: the library's own if it can prepare it.
Bytes(frame, n) ==
  IF frame = Frame(frame.op, frame.fin, frame.payload) /\ Sound(frame.op, frame.fin, frame.payload)
  THEN Prepared(frame.op, frame.payload, frame.fin, server, n)
  ELSE <<[fin |-> frame.fin, rsv1 |-> frame.rsv1, rsv |-> frame.rsv, op |-> frame.op],
         [masked |-> frame.masked, code |-> frame.code,
          size |-> IF frame.code = "basic" THEN frame.size ELSE 0]>>
       \o Digits(frame.size, FieldLength(frame.code))
       \o (IF frame.masked THEN NewKey(n) \o MaskedCopy(frame.payload, NewKey(n)) ELSE frame.payload)

Complete(frame) == frame.size = Len(frame.payload)

\* A frame follows another at the latest when one byte of that has not been read.
Send ==
  /\ Len(sent) < MaxFrames /\ Len(wire) <= 1 /\ rx.ec = "none"
  /\ sent # <<>> => Complete(Last(sent))
  /\ \E frame \in Frames :
       sent' = Append(sent, frame) /\ wire' = wire \o Bytes(frame, Len(sent) + 1)
  /\ UNCHANGED <<server, rx, inbox>>

\* After an error nothing is read any more.
Read ==
  /\ rx.ec = "none"
  /\ \E n \in 1 .. Len(wire) :
       /\ \E result \in {ReadLoop([rx EXCEPT !.input = SubSeq(wire, 1, n)], <<>>)} :
            rx' = [result.p EXCEPT !.input = <<>>] /\ inbox' = inbox \o result.got
       /\ wire' = SubSeq(wire, n + 1, Len(wire))
  /\ UNCHANGED <<server, sent>>

Init ==
  /\ server \in BOOLEAN
  /\ rx = ResetHeaders([state |-> "HEADER_BASIC", needed |-> 2, basic |-> <<>>, extended |-> <<>>,
                        data |-> NoMessage, control |-> NoMessage, current |-> "data",
                        input |-> <<>>, ec |-> "none"])
  /\ wire = <<>> /\ sent = <<>> /\ inbox = <<>>

Next == Send \/ Read

Spec == Init /\ [][Next]_vars

-----------------------------------------------------------------------------
(***************************************************************************)
(* Properties                                                              *)
(***************************************************************************)

\* Well-formed UTF-8 as Unicode defines it, in lists of ranges.
Tail80(byte) == byte \in 128 .. 191

Sequence(b) ==
  CASE Len(b) = 1 -> b[1] < 128
    [] Len(b) = 2 -> b[1] \in 194 .. 223 /\ Tail80(b[2])
    [] Len(b) = 3 -> /\ b[1] \in 224 .. 239 /\ Tail80(b[2]) /\ Tail80(b[3])
                     /\ (b[1] = 224 => b[2] >= 160) /\ (b[1] = 237 => b[2] < 160)
    [] Len(b) = 4 -> /\ b[1] \in 240 .. 244 /\ Tail80(b[2]) /\ Tail80(b[3]) /\ Tail80(b[4])
                     /\ (b[1] = 240 => b[2] >= 144) /\ (b[1] = 244 => b[2] < 144)
    [] OTHER -> FALSE

RECURSIVE WellFormedText(_)
WellFormedText(bytes) ==
  \/ bytes = <<>>
  \/ \E n \in 1 .. 4 :
       n <= Len(bytes) /\ Sequence(SubSeq(bytes, 1, n)) /\ WellFormedText(SubSeq(bytes, n + 1, Len(bytes)))

\* Some bytes after these make a well-formed text of them.
Continues(bytes) ==
  \E tail \in {<<>>} \cup {<<a>> : a \in {143, 144, 160}}
               \cup {<<a, 128>> : a \in {143, 144, 160}} \cup {<<a, 128, 128>> : a \in {143, 144, 160}} :
    WellFormedText(bytes \o tail)

\* What a frame means after the frames before it, in the words of RFC 6455: a
\* reader at that frame has handed on got and holds an unfinished message, open,
\* or has stopped.
Illegal(frame, open) ==
  \/ frame.rsv1 \/ frame.rsv \/ Reserved(frame.op) \/ frame.masked # server
  \/ IsControl(frame.op) /\ (~frame.fin \/ frame.size > SizeBasic)
  \/ frame.op = Continuation /\ open = NoMessage
  \/ frame.op \in {Text, Binary} /\ open # NoMessage
  \/ frame.code # SizeCode(frame.size)

Joined(frame, open) ==
  [op |-> IF open = NoMessage THEN frame.op ELSE open.op, payload |-> open.payload \o frame.payload]

\* "Maximum message size determines the point at which the connection will fail with
\* the message_too_big protocol error" (connection.hpp:565).
TooBig(frame, open) == ~IsControl(frame.op) /\ Len(open.payload) + frame.size > MaxMessageSize

\* "Ensure that text messages end on a valid UTF8 code point" (hybi13.hpp:536).
EndsInside(frame, message) ==
  frame.fin /\ Complete(frame) /\ Continues(message.payload) /\ ~WellFormedText(message.payload)

BadText(frame, message) ==
  message.op = Text /\ (~Continues(message.payload) \/ EndsInside(frame, message))

\* Two things that are not allowed the code lets pass: a text of several frames that ends
\* inside a character, as only a last frame that has the text opcode is looked at
\* (hybi13.hpp:537), and a size that with the message so far is no size_t (457-460).
LetPass(frame, so) ==
  IF TooBig(frame, so.open) THEN Len(so.open.payload) + frame.size >= SizeMod
  ELSE frame.op = Continuation /\ EndsInside(frame, Joined(frame, so.open))

Stopped(so, frame, why) ==
  [so EXCEPT !.stopped = why, !.passed = LetPass(frame, so),
             !.open.payload = IF why = "text" THEN @ \o frame.payload ELSE @]

Meaning(so, frame) ==
  LET message == Joined(frame, so.open) IN
  CASE so.stopped # "no" -> so
    [] Illegal(frame, so.open) -> [so EXCEPT !.stopped = "protocol"]
    [] TooBig(frame, so.open) -> Stopped(so, frame, "size")
    [] IsControl(frame.op) -> [so EXCEPT !.got = Append(@, [op |-> frame.op, payload |-> frame.payload])]
    [] BadText(frame, message) -> Stopped(so, frame, "text")
    [] ~Complete(frame) -> [so EXCEPT !.stopped = "waiting"]
    [] frame.fin -> [so EXCEPT !.got = Append(@, message), !.open = NoMessage]
    [] OTHER -> [so EXCEPT !.open = [op |-> message.op, payload |-> message.payload,
                                     key |-> <<>>, utf8 |-> Accept]]

Meanings ==
  FoldLeft(Meaning, [got |-> <<>>, open |-> NoMessage, stopped |-> "no", passed |-> FALSE], sent)

Kind(ec) ==
  IF ec = "message_too_big" THEN {"size"} ELSE IF ec = "invalid_utf8" THEN {"text"}
  ELSE IF ec = "none" THEN {"no", "waiting"} ELSE {"protocol"}

AllRead == wire = <<>> \/ rx.ec # "none"

\* What the program gets after a thing that is let pass: the text as it is; or nothing
\* while the reader takes what it gets for the bytes of that size.
PassedOn(meaning) ==
  \/ /\ IsPrefix(inbox, meaning.got)
     /\ AllRead => meaning.stopped = "size" /\ rx.ec \in {"none", "invalid_utf8"}
  \/ meaning.stopped = "text" /\ IsPrefix(Append(meaning.got, Message(meaning.open)), inbox)

\* Wherever the stream is cut, the program gets the messages that the frames mean,
\* whole, in order and unmasked, control frames between fragments included, and
\* the first illegal frame, or size or text that is not allowed, stops the reader
\* with that error, but for the two that LetPass names (hybi13.hpp:382-584, 744-949).
MessagesAsSent ==
  \A meaning \in {Meanings} :
    IF meaning.passed THEN PassedOn(meaning)
    ELSE /\ IsPrefix(inbox, meaning.got)
         /\ AllRead => inbox = meaning.got /\ meaning.stopped \in Kind(rx.ec)

CloseCodes == {0, 999, 1000, 1002, 1004, 1005, 1006, 1014, 1015, 1016, 2999, 3000, 4999, 5000}

\* A close code and reason that can be sent arrive as they are, if the reason is text,
\* which only the receiver looks at (hybi13.hpp:696-731, close.hpp:184-348).
CloseCodesKept ==
  sent = <<>> =>
    \A code \in CloseCodes, reason \in Payloads :
      \A payload \in {ClosePayload(code, reason)} :
        payload # "refused" =>
          /\ PrepareControl(CloseCode, payload, server, 1) # Refused
          /\ ExtractCode(payload) = [ok |-> TRUE, code |-> code]
          /\ ExtractReason(payload) = [ok |-> WellFormedText(reason), reason |-> reason]

\* Bytes at the borders of the ranges that matter.
BorderBytes == {127, 128, 143, 144, 159, 160, 193, 194, 224, 225, 237, 240, 241, 244, 245}

\* The decoder accepts the texts that Unicode defines, and rejects at the first byte
\* that no text has in its place (utf8_validator.hpp:46-150).
TextsAsUnicode ==
  (sent = <<>> /\ server) =>
    \A n \in 0 .. 4 : \A bytes \in [1 .. n -> BorderBytes] :
      \A state \in {Decode(Accept, bytes)} :
        /\ (state = Accept) = WellFormedText(bytes)
        /\ (state # Reject) = Continues(bytes)
=============================================================================
