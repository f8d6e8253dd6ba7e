---------------------------- MODULE WsConnection ----------------------------
(***************************************************************************)
(* One connection of websocketpp over the asio transport with TLS           *)
(* (websocket/websocketpp/impl/connection_impl.hpp, transport/asio): from    *)
(* the resolution of the host, or the acceptance of the socket, through the  *)
(* handshakes, the frames and the closing handshake to the handler that      *)
(* tells the program of the end.                                            *)
(*                                                                         *)
(* Everything the transport calls back runs on the connection's strand, one  *)
(* handler at a time; a handler computes on con, the connection and what it   *)
(* has asked of the transport.  Another thread of the program calls close,    *)
(* send and the rest: they look at m_state under a lock that the strand does   *)
(* not take when it changes it.                                             *)
(***************************************************************************)
EXTENDS Integers, FiniteSets, Sequences, SequencesExt

CONSTANT
  Scenarios  \* bound: what the environment of a connection may do, a set of records:
             \*   server, proxied  which endpoint
             \*   todo             the calls that other threads of the program make
             \*   frames           how many frames the peer sends
             \*   faults           "extension", the peer's answer has an extension header
             \*                    that cannot be parsed; "race", the strand runs between
             \*                    the check of a call of another thread and its effect

ASSUME ScenariosAssumption ==
  Scenarios \subseteq [server : BOOLEAN, proxied : BOOLEAN,
                       todo : SUBSET {"close", "send", "ping", "pause", "resume", "respond"},
                       frames : Nat, faults : SUBSET {"extension", "race"}]

VARIABLES
  con,    \* the connection
  user,   \* the calls the other threads have still to make (todo), the one that has
          \* looked at m_state and not yet acted (doing), and what may happen (faults)
  frames  \* how many more frames the peer sends

vars == <<con, user, frames>>

Timers == {"dns", "connect", "proxy", "post", "open", "close1", "close2", "close3", "ping"}

Ops == {"resolve", "connect", "proxy_write", "proxy_read", "tls", "send_request",
        "read_response", "read_request", "send_response", "read_frame", "write_frame"}

Calls == {"close", "send", "ping", "pause", "resume", "respond"}

FrameKinds == {"data", "ping", "pong", "close", "badclose", "garbage"}

-----------------------------------------------------------------------------
(***************************************************************************)
(* Timers and transport operations.  A timer is set, then fired: its handler *)
(* waits to run and cannot be cancelled; when it has run the timer is over.   *)
(***************************************************************************)

Set(s, t) == [s EXCEPT !.timer[t] = "set"]

Cancel(s, t) == IF s.timer[t] = "set" THEN [s EXCEPT !.timer[t] = "unset"] ELSE s

\* expires_from_now is negative
Late(s, t) == s.timer[t] \in {"fired", "over"}

Ask(s, op) == [s EXCEPT !.ops[op] = @ + 1]

\* cancel_socket_checked, and the cancellation of the resolver: what is under
\* way may end as aborted.
CancelSocket(s) ==
  [s EXCEPT !.cancelled = {op \in Ops : s.ops[op] > 0},
            !.stops = [i \in DOMAIN @ |-> [@[i] EXCEPT !.cancelled = TRUE]]]

SetHandshake(s, t) == [Set(s, t) EXCEPT !.handshake = t]

CancelHandshake(s) ==
  IF s.handshake = "none" THEN s ELSE [Cancel(s, s.handshake) EXCEPT !.handshake = "none"]

AsyncShutdown(s, tstat) ==
  [s EXCEPT !.stops = Append(@, [tstat |-> tstat, asked |-> TRUE, timer |-> "set", cancelled |-> FALSE])]

\* Mutant of Terminate: it does not look whether the connection is closed already.
Terminate_Again(s, ec) ==
  AsyncShutdown([CancelHandshake(s) EXCEPT
                   !.ec = IF ec = "none" THEN @ ELSE ec,
                   !.http = IF @ = "none" THEN @ ELSE "closed",
                   !.state = "closed"],
                IF s.state = "connecting" THEN "failed" ELSE "closed")

Terminate(s, ec) ==
  LET told == [CancelHandshake(s) EXCEPT
                 !.ec = IF ec = "none" THEN @ ELSE ec,
                 !.http = IF @ = "none" THEN @ ELSE "closed",
                 !.state = "closed"]
  IN IF s.state = "closed" THEN told
     ELSE AsyncShutdown(told, IF s.state = "connecting" THEN "failed" ELSE "closed")

HandleTerminate(s, tstat) ==
  IF tstat = "closed" THEN [s EXCEPT !.calls.close = @ + 1]
  ELSE IF s.ec = "http_connection_ended" THEN s
  ELSE [s EXCEPT !.calls.fail = @ + 1]

-----------------------------------------------------------------------------
(***************************************************************************)
(* Sending                                                                 *)
(***************************************************************************)

\* write_push, and the dispatch of write_frame if nothing is being written
Push(s, kind, terminal) ==
  [s EXCEPT !.queue = Append(@, [kind |-> kind, terminal |-> terminal]),
            !.posted.write = IF s.writing THEN @ ELSE @ + 1]

SendCloseFrame(s, ack, terminal) ==
  LET t == CHOOSE c \in {"close1", "close2", "close3"} :
             s.timer[c] = "unset" \/ \A d \in {"close1", "close2", "close3"} : s.timer[d] # "unset"
      closing == [s EXCEPT !.state = "closing", !.clean = @ \/ ack]
  IN Push(SetHandshake(closing, t), "close", terminal)

SendCloseAck(s) == SendCloseFrame(s, TRUE, s.server)

\* close as a handler calls it: with a lock that nobody else holds
Close(s, terminal) == IF s.state = "open" THEN SendCloseFrame(s, FALSE, terminal) ELSE s

Pong(s) == IF s.state = "open" THEN Push(s, "pong", FALSE) ELSE s

\* Mutant of WriteFrame: a write under way does not hold the next one back.
WriteFrame_Anyway(s) ==
  IF s.queue = <<>> THEN s
  ELSE Ask([s EXCEPT !.writing = TRUE, !.current = s.queue, !.queue = <<>>], "write_frame")

\* Frames up to a terminal one are written together.
Together(queue) ==
  CHOOSE n \in DOMAIN queue :
    /\ \A i \in 1..(n - 1) : ~queue[i].terminal
    /\ queue[n].terminal \/ n = Len(queue)

\* What is noted of the frames that are written: a close frame, another one after it.
Written(wire, queue, n) ==
  LET closed(i) == wire.closed \/ \E j \in 1..i : queue[j].kind = "close"
  IN [closed |-> closed(n),
      late |-> wire.late \/ \E i \in 1..n : queue[i].kind # "close" /\ closed(i - 1)]

WriteFrame(s) ==
  LET n == Together(s.queue)
  IN IF s.writing \/ s.queue = <<>> THEN s
     ELSE Ask([s EXCEPT !.writing = TRUE,
                        !.current = SubSeq(s.queue, 1, n),
                        !.queue = SubSeq(s.queue, n + 1, Len(s.queue)),
                        !.wire = Written(@, s.queue, n)],
              "write_frame")

HandleWriteFrame(s, ok) ==
  LET cleared == [s EXCEPT !.current = <<>>]
  IN IF ~ok THEN Terminate(cleared, "error")
     ELSE IF Last(s.current).terminal THEN Terminate(cleared, "none")
     ELSE [cleared EXCEPT !.writing = FALSE,
                          !.posted.write = IF s.queue = <<>> THEN @ ELSE @ + 1]

-----------------------------------------------------------------------------
(***************************************************************************)
(* Receiving.  reply is what the program does in its open or message handler. *)
(***************************************************************************)

Reply(s, reply) ==
  CASE reply = "close" -> Close(s, FALSE)
    [] reply = "send" /\ s.state = "open" -> Push(s, "data", FALSE)
    [] OTHER -> s

ReadFrame(s) == IF s.reading THEN Ask(s, "read_frame") ELSE s

\* process_control_frame; "badclose" is a close frame whose code or reason is
\* not valid.
ProcessControlFrame(s, frame) ==
  IF s.state = "closed" \/ (frame \in {"ping", "pong"} /\ s.state # "open") THEN s
  ELSE CASE frame = "ping" -> Pong(s)
         [] frame = "pong" -> Cancel(s, "ping")
         [] frame = "badclose" \/ (frame = "close" /\ s.state = "open") -> SendCloseAck(s)
         [] frame = "close" /\ s.state = "closing" /\ ~s.clean ->
              LET clean == [s EXCEPT !.clean = TRUE]
              IN IF s.server THEN Terminate(clean, "none") ELSE clean
         [] OTHER -> s

ProcessFrame(s, frame, reply) ==
  CASE frame = "data" -> IF s.state = "open" THEN Reply(s, reply) ELSE s
    [] frame = "garbage" -> IF s.state = "open" THEN Close(s, TRUE) ELSE Terminate(s, "error")
    [] OTHER -> ProcessControlFrame(s, frame)

\* The frames of a chunk, which are two at most, up to garbage.
ProcessFrames(s, chunk, reply) ==
  CASE chunk = <<>> -> s
    [] Len(chunk) = 2 /\ chunk[1] # "garbage" ->
         ProcessFrame(ProcessFrame(s, chunk[1], reply), chunk[2], reply)
    [] OTHER -> ProcessFrame(s, chunk[1], reply)

\* What comes after the end is ignored.
Over(s, result) == s.state = "closed" /\ result \in {"ok", "eof"}

\* handle_read_frame: after garbage nothing is read any more.
HandleReadFrame(s, result, chunk, reply) ==
  LET end == ProcessFrames(s, chunk, reply)
  IN IF result = "ok" /\ s.istate = "PROCESS_CONNECTION"
     THEN IF "garbage" \in ToSet(chunk) THEN end ELSE ReadFrame(end)
     ELSE IF Over(s, result) THEN s
     ELSE Terminate(s, IF result = "eof" /\ s.state = "closing" /\ ~s.server THEN "none" ELSE "error")

\* The connection is open: the handler, then the bytes that came with the
\* handshake.
Opened(s, chunk, reply) ==
  LET open == [s EXCEPT !.istate = "PROCESS_CONNECTION", !.state = "open", !.calls.open = @ + 1]
  IN HandleReadFrame(Reply(open, reply), "ok", chunk, reply)

-----------------------------------------------------------------------------
(***************************************************************************)
(* The opening handshake of a client                                       *)
(***************************************************************************)

SendHttpRequest(s) ==
  Ask(SetHandshake([s EXCEPT !.istate = "WRITE_HTTP_REQUEST"], "open"), "send_request")

ReadHandshake(s) ==
  Ask(SetHandshake([s EXCEPT !.istate = "READ_HTTP_REQUEST"], "open"), "read_request")

HandleTransportInit(s, ok) ==
  IF ~ok \/ s.istate # "TRANSPORT_INIT" THEN Terminate(s, "error")
  ELSE IF s.server THEN ReadHandshake(s) ELSE SendHttpRequest(s)

\* post_init of the connection and of the TLS socket
PostInit(s) == Ask(Set(s, "post"), "tls")

\* handle_pre_init
ProxyWrite(s) == Ask(Set(s, "proxy"), "proxy_write")

ProxyRead(s) == Ask(s, "proxy_read")

HandlePreInit(s) == IF s.proxied THEN ProxyWrite(s) ELSE PostInit(s)

Start(s) ==
  IF s.istate # "USER_INIT" THEN Terminate(s, "error")
  ELSE HandlePreInit([s EXCEPT !.istate = "TRANSPORT_INIT"])

\* A handler of the handshake goes on only in the states it expects.
Expected(s, istate) == s.state = "connecting" /\ s.istate = istate

HandleSendHttpRequest(s, result) ==
  CASE Over(s, result) -> s
    [] result = "ok" /\ Expected(s, "WRITE_HTTP_REQUEST") ->
         Ask([s EXCEPT !.istate = "READ_HTTP_RESPONSE"], "read_response")
    [] OTHER -> Terminate(s, "error")

Responses == {"more", "malformed", "refused", "accepted"}
             \cup IF "extension" \in user.faults THEN {"badextension"} ELSE {}

\* handle_read_http_response: an extension header that cannot be parsed ends the
\* connection and the handler goes on.
HandleReadHttpResponse(s, result, response, chunk, reply) ==
  LET quiet == CancelHandshake(s)
  IN IF Over(s, result) THEN s
     ELSE IF result # "ok" \/ ~Expected(s, "READ_HTTP_RESPONSE") THEN Terminate(s, "error")
     ELSE CASE response = "more" -> Ask(s, "read_response")
            [] response = "malformed" -> Terminate(s, "error")
            [] response = "refused" -> Terminate(quiet, "error")
            [] response = "badextension" -> Opened(Terminate(quiet, "error"), chunk, reply)
            [] OTHER -> Opened(quiet, chunk, reply)

-----------------------------------------------------------------------------
(***************************************************************************)
(* The opening handshake of a server                                       *)
(***************************************************************************)

\* What a request is: a handshake that is accepted or not, or another request,
\* which the http handler answers, leaves without a status or defers.
Requests == {"more", "malformed", "upgrade", "refused", "unhandled",
             "answered", "silent", "deferred"}

\* write_http_response; a response without a status is an internal error.
WriteHttpResponse(s, ec) ==
  LET unset == s.status = "unset"
  IN Ask([s EXCEPT !.ec = IF unset THEN "error" ELSE ec,
                   !.status = IF unset THEN "error" ELSE @],
         "send_response")

WriteHttpResponseError(s) ==
  IF s.istate # "READ_HTTP_REQUEST" THEN Terminate(s, "error")
  ELSE WriteHttpResponse([s EXCEPT !.istate = "PROCESS_HTTP_REQUEST", !.status = "error"], "error")

DeferHttpResponse(s) == [CancelHandshake(s) EXCEPT !.http = "deferred"]

\* process_handshake_request and what handle_read_handshake does with its result
ProcessHandshakeRequest(s, request) ==
  LET asked == [s EXCEPT !.istate = "PROCESS_HTTP_REQUEST"]
      http == [asked EXCEPT !.http = "init"]
  IN CASE request = "upgrade" -> WriteHttpResponse([asked EXCEPT !.status = "switching"], "none")
       [] request \in {"refused", "unhandled"} ->
            WriteHttpResponse([asked EXCEPT !.status = "error"], "error")
       [] request = "answered" -> WriteHttpResponse([http EXCEPT !.status = "ok"], "none")
       [] request = "silent" -> WriteHttpResponse(http, "none")
       [] request = "deferred" ->
            DeferHttpResponse([http EXCEPT !.status = "ok"])

HandleReadHandshake(s, result, request) ==
  IF Over(s, result) THEN s
  ELSE IF result # "ok" \/ ~Expected(s, "READ_HTTP_REQUEST") THEN Terminate(s, "error")
  ELSE CASE request = "more" -> Ask(s, "read_request")
         [] request = "malformed" -> WriteHttpResponseError(s)
         [] OTHER -> ProcessHandshakeRequest(s, request)

HandleWriteHttpResponse(s, result, chunk, reply) ==
  LET quiet == CancelHandshake(s)
      ended == IF s.http = "none" THEN s.ec ELSE "http_connection_ended"
  IN IF Over(s, result) THEN s
     ELSE IF result # "ok" \/ ~Expected(s, "PROCESS_HTTP_REQUEST") THEN Terminate(s, "error")
     ELSE IF s.status # "switching" THEN Terminate([quiet EXCEPT !.ec = ended], ended)
     ELSE Opened(quiet, chunk, reply)

-----------------------------------------------------------------------------
(***************************************************************************)
(* What the transport calls back                                           *)
(***************************************************************************)

\* An operation whose timer has fired leaves the rest to the timer's handler;
\* otherwise it goes on with next or, after an error, with failed.
Timed(s, t, result, next, failed) ==
  IF result = "aborted" \/ Late(s, t) THEN s ELSE IF result = "ok" THEN next ELSE failed

\* handle_connect of the client's endpoint
HandleConnected(s, ok) == IF ok THEN Start(s) ELSE Terminate(s, "error")

AsyncConnect(s) == Ask(Set(s, "dns"), "resolve")

HandleResolve(s, result) ==
  LET quiet == Cancel(s, "dns")
  IN Timed(s, "dns", result, Ask(Set(quiet, "connect"), "connect"), HandleConnected(quiet, FALSE))

HandleConnect(s, result) ==
  LET quiet == Cancel(s, "connect")
  IN Timed(s, "connect", result, HandleConnected(quiet, TRUE), HandleConnected(quiet, FALSE))

HandleProxyWrite(s, result) ==
  Timed(s, "proxy", result, ProxyRead(s), HandleTransportInit(Cancel(s, "proxy"), FALSE))

HandleProxyRead(s, result, answer) ==
  LET quiet == Cancel(s, "proxy")
      failed == HandleTransportInit(quiet, FALSE)
  IN Timed(s, "proxy", result, IF answer = "refused" THEN failed ELSE PostInit(quiet), failed)

\* handle_init of the socket turns every error into one of its own, which is
\* not "aborted".
HandlePostInit(s, result) ==
  LET quiet == Cancel(s, "post")
  IN Timed(s, "post", IF result = "aborted" THEN "error" ELSE result,
           HandleTransportInit(quiet, TRUE), HandleTransportInit(quiet, FALSE))

Completed(s, op, result, chunk, reply, answer) ==
  CASE op = "resolve" -> HandleResolve(s, result)
    [] op = "connect" -> HandleConnect(s, result)
    [] op = "proxy_write" -> HandleProxyWrite(s, result)
    [] op = "proxy_read" -> HandleProxyRead(s, result, answer)
    [] op = "tls" -> HandlePostInit(s, result)
    [] op = "send_request" -> HandleSendHttpRequest(s, result)
    [] op = "read_response" -> HandleReadHttpResponse(s, result, answer, chunk, reply)
    [] op = "read_request" -> HandleReadHandshake(s, result, answer)
    [] op = "send_response" -> HandleWriteHttpResponse(s, result, chunk, reply)
    [] op = "read_frame" -> HandleReadFrame(s, result, chunk, reply)
    [] op = "write_frame" -> HandleWriteFrame(s, result = "ok")

Answers(op) ==
  CASE op = "read_response" -> Responses
    [] op = "read_request" -> Requests
    [] op = "proxy_read" -> {"refused", "accepted"}
    [] OTHER -> {"accepted"}

Chunks(op) ==
  IF op \notin {"read_response", "send_response", "read_frame"} THEN {<<>>}
  ELSE {<<>>} \cup {<<f>> : f \in FrameKinds} \cup {<<f, g>> : f, g \in FrameKinds}

\* What an operation may come to: it is aborted only after a cancellation, the
\* stream ends only for a read, and what is read of a connection's frames is
\* not nothing.
Results(op) ==
  {"ok", "error"} \cup (IF op \in con.cancelled THEN {"aborted"} ELSE {})
  \cup (IF op \in {"read_response", "read_request", "read_frame"} THEN {"eof"} ELSE {})

Complete(op) ==
  /\ con.ops[op] > 0
  /\ \E result \in Results(op) :
       \E answer \in IF result = "ok" THEN Answers(op) ELSE {"accepted"},
          chunk \in IF result = "ok" THEN Chunks(op) ELSE {<<>>} :
         \E reply \in IF result = "ok" /\ Chunks(op) # {<<>>} THEN {"none", "close", "send"} ELSE {"none"} :
           /\ Len(chunk) <= frames
           /\ op = "read_frame" /\ result = "ok" => chunk # <<>>
           /\ con' = Completed([con EXCEPT !.ops[op] = @ - 1, !.cancelled = @ \ {op}], op, result, chunk, reply, answer)
           /\ frames' = frames - Len(chunk)
  /\ UNCHANGED user

TimerFires(t) ==
  /\ con.timer[t] = "set"
  /\ con' = [con EXCEPT !.timer[t] = "fired"]
  /\ UNCHANGED <<user, frames>>

\* The timeout handlers; those that cancel the operations of the resolver or of
\* the socket do it first.
HandleResolveTimeout(s) == HandleConnected(CancelSocket(s), FALSE)

HandleConnectTimeout(s) == HandleConnected(CancelSocket(s), FALSE)

HandleProxyTimeout(s) == HandleTransportInit(CancelSocket(s), FALSE)

HandlePostInitTimeout(s) == HandleTransportInit(CancelSocket(s), FALSE)

HandleOpenHandshakeTimeout(s) == Terminate(s, "error")

HandleCloseHandshakeTimeout(s) == Terminate(s, "error")

\* It tells the program, and that is all.
HandlePongTimeout(s) == s

TimedOut(s, t) ==
  CASE t = "dns" -> HandleResolveTimeout(s)
    [] t = "connect" -> HandleConnectTimeout(s)
    [] t = "proxy" -> HandleProxyTimeout(s)
    [] t = "post" -> HandlePostInitTimeout(s)
    [] t = "open" -> HandleOpenHandshakeTimeout(s)
    [] t = "ping" -> HandlePongTimeout(s)
    [] OTHER -> HandleCloseHandshakeTimeout(s)

TimerRuns(t) ==
  /\ con.timer[t] = "fired"
  /\ con' = TimedOut([con EXCEPT !.timer[t] = "over"], t)
  /\ UNCHANGED <<user, frames>>

\* handle_async_shutdown, and with it the end of its timer
ShutdownDone(i) ==
  LET stop == con.stops[i] IN
  /\ stop.asked
  /\ \/ /\ stop.timer = "set"
        /\ con' = HandleTerminate([con EXCEPT !.stops = RemoveAt(@, i)], stop.tstat)
     \/ /\ stop.timer = "fired" \/ stop.cancelled
        /\ con' = [con EXCEPT !.stops[i].asked = FALSE]
  /\ UNCHANGED <<user, frames>>

ShutdownTimerFires(i) ==
  /\ con.stops[i].timer = "set"
  /\ con' = [con EXCEPT !.stops[i].timer = "fired"]
  /\ UNCHANGED <<user, frames>>

ShutdownTimedOut(i) ==
  /\ con.stops[i].timer = "fired"
  /\ con' = HandleTerminate(CancelSocket([con EXCEPT !.stops = RemoveAt(@, i)]), con.stops[i].tstat)
  /\ UNCHANGED <<user, frames>>

\* Handlers posted to the strand
HandlePauseReading(s) == [s EXCEPT !.reading = FALSE]

HandleResumeReading(s) == ReadFrame([s EXCEPT !.reading = TRUE])

PostedRuns ==
  /\ \/ /\ con.posted.write > 0
        /\ con' = WriteFrame([con EXCEPT !.posted.write = @ - 1])
     \/ /\ con.posted.pause
        /\ con' = HandlePauseReading([con EXCEPT !.posted.pause = FALSE])
     \/ /\ con.posted.resume
        /\ con' = HandleResumeReading([con EXCEPT !.posted.resume = FALSE])
  /\ UNCHANGED <<user, frames>>

-----------------------------------------------------------------------------
(***************************************************************************)
(* The other threads of the program                                        *)
(***************************************************************************)

Send(s) == Push(s, "data", FALSE)

Ping(s) == Push(Set(Cancel(s, "ping"), "ping"), "ping", FALSE)

\* The first half of close, send and ping: the state, under its lock.
CallChecks(c) ==
  /\ c \in {"close", "send", "ping"} \cap user.todo /\ user.doing = "none"
  /\ user' = [user EXCEPT !.todo = @ \ {c},
                          !.doing = IF con.state = "open" THEN c ELSE "none"]
  /\ UNCHANGED <<con, frames>>

\* The second half.  A close with a code that reports an error is terminal.
CallActs ==
  /\ \/ user.doing = "close" /\ \E terminal \in BOOLEAN : con' = SendCloseFrame(con, FALSE, terminal)
     \/ user.doing = "send" /\ con' = Send(con)
     \/ user.doing = "ping" /\ con' = Ping(con)
  /\ user' = [user EXCEPT !.doing = "none"]
  /\ UNCHANGED frames

\* They post without a look at the state; a program pauses an open connection.
PauseReading == con.state = "open" /\ con' = [con EXCEPT !.posted.pause = TRUE]

ResumeReading == con.state = "open" /\ con' = [con EXCEPT !.posted.resume = TRUE]

SendHttpResponse ==
  /\ con.http = "deferred"
  /\ con' = WriteHttpResponse([con EXCEPT !.http = "written"], "none")

PostsCall(c) ==
  /\ c \in user.todo /\ user.doing = "none"
  /\ \/ c = "pause" /\ PauseReading
     \/ c = "resume" /\ ResumeReading
     \/ c = "respond" /\ SendHttpResponse
  /\ user' = [user EXCEPT !.todo = @ \ {c}]
  /\ UNCHANGED frames

-----------------------------------------------------------------------------
\* A client that has been told to connect, or a server that has accepted.
New(server, proxied) ==
  LET blank ==
        [server |-> server, proxied |-> proxied, state |-> "connecting", istate |-> "USER_INIT",
         ec |-> "none", http |-> "none", status |-> "unset", clean |-> FALSE,
         reading |-> TRUE, writing |-> FALSE, queue |-> <<>>, current |-> <<>>,
         timer |-> [t \in Timers |-> "unset"], handshake |-> "none",
         ops |-> [op \in Ops |-> 0], cancelled |-> {}, stops |-> <<>>,
         posted |-> [write |-> 0, pause |-> FALSE, resume |-> FALSE],
         calls |-> [open |-> 0, fail |-> 0, close |-> 0],
         wire |-> [closed |-> FALSE, late |-> FALSE]]
  IN IF server THEN Start(blank) ELSE AsyncConnect(blank)

Init ==
  \E scenario \in Scenarios :
    /\ con = New(scenario.server, scenario.proxied)
    /\ user = [todo |-> scenario.todo, doing |-> "none", faults |-> scenario.faults]
    /\ frames = scenario.frames

Strand ==
  \/ \E op \in Ops : Complete(op)
  \/ \E t \in Timers : TimerRuns(t)
  \/ \E i \in DOMAIN con.stops : ShutdownDone(i) \/ ShutdownTimedOut(i)
  \/ PostedRuns

\* Without a race the strand stands still between the halves of a call.
Next ==
  \/ (user.doing = "none" \/ "race" \in user.faults) /\ Strand
  \/ \E t \in Timers : TimerFires(t)
  \/ \E i \in DOMAIN con.stops : ShutdownTimerFires(i)
  \/ \E c \in Calls : CallChecks(c) \/ PostsCall(c)
  \/ CallActs

Spec == Init /\ [][Next]_vars

-----------------------------------------------------------------------------
(***************************************************************************)
(* Properties                                                              *)
(***************************************************************************)

\* "The close handler will be called exactly once for every connection for which
\* the open handler was called", and "either the fail handler or the open handler
\* will be called" (connection.hpp:54, 66): neither too often nor in the wrong
\* order, whatever comes late - except after a malformed extension header, when
\* both are, and a second time for a close that raced with the end.
HandlersAsPromised ==
  LET calls == con.calls IN
  /\ calls.open <= 1 /\ calls.fail <= 1
  /\ calls.open + calls.fail = 2 => "extension" \in user.faults
  /\ calls.close <= calls.open + IF "race" \in user.faults THEN 1 ELSE 0

\* Nothing waits for ever: as long as a handshake is under way some timer will
\* end it, and the end of the connection has been reported or will be when the
\* shutdown or its timer is done (connection_impl.hpp:774-784, 1434-1475, 1698-1748,
\* 2133-2145, asio/connection.hpp:496-525, 1036-1131).  A deferred response has no timer.
NothingStuck ==
  LET pending == {"set", "fired"} IN
  /\ con.state \in {"connecting", "closing"} /\ con.http # "deferred" =>
       \/ \E t \in Timers \ {"ping"} : con.timer[t] \in pending
       \/ con.ops["send_response"] > 0 /\ con.http = "written"
  /\ con.state = "closed" /\ con.stops = <<>> =>
       con.calls.fail + con.calls.close > 0 \/ con.http = "closed"

\* The transport has at most one write under way, the one that the write flag
\* stands for (connection_impl.hpp:1793-1925), and at most one read, unless
\* reading was resumed while one was (360-395, 1110-1128).
OneAtATime ==
  /\ con.ops["write_frame"] <= 1
  /\ con.ops["write_frame"] = 1 <=> con.current # <<>>
  /\ con.current # <<>> => con.writing
  /\ \A op \in Ops \ {"read_frame"} : con.ops[op] <= 1
  /\ con.ops["read_frame"] <= IF "resume" \in user.todo \/ con.posted.resume THEN 1 ELSE 2

\* After its close frame an endpoint sends no more data, unless a send looked at
\* the state before the close changed it (connection_impl.hpp:104-150, 304-325).
SilentAfterClose == con.wire.late => "race" \in user.faults

\* The program is told of a connection's beginning and end as promised, and no
\* connection is left that nothing will ever end (connection_impl.hpp:774-784,
\* 1434-1475, 1546-1792, 2065-2157).
ConnectionReported == HandlersAsPromised /\ NothingStuck

\* One transport operation of each kind at a time, and silence after a close frame
\* (connection_impl.hpp:104-150, 304-395, 1110-1128, 1793-1925).
ConnectionInTurn == OneAtATime /\ SilentAfterClose
=============================================================================
