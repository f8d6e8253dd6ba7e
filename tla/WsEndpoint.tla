----------------------------- MODULE WsEndpoint -----------------------------
(***************************************************************************)
(* The endpoint of websocketpp (websocket/websocketpp/endpoint.hpp,          *)
(* transport/asio/endpoint.hpp) in its two roles: a server listens and        *)
(* accepts in a loop, a client connects.  It owns the io_service that it was   *)
(* not given, makes the connections, and passes the program's calls on to      *)
(* them by their handles.                                                      *)
(*                                                                         *)
(* One thread of the program runs the io_service; handlers run there one at a   *)
(* time.  Another makes the calls: the handler that restarts the accept loop    *)
(* looks at m_state, makes a connection, and looks again.                      *)
(***************************************************************************)
EXTENDS Integers, FiniteSets, Sequences

CONSTANT
  Scenarios  \* bound: what a program may do with an endpoint, a set of records:
             \*   role       "server" or "client"
             \*   may        of Doings, what it does besides its role
             \*   cons       how many connections are made
             \*   listens    how often it calls listen
             \*   starts     how often it calls start_accept

VARIABLES
  plan,   \* one of Scenarios
  ep,     \* the endpoint
  io,     \* the io_services, its own and the one it may be given
  cons,   \* its connections, in the order they were made
  ops,    \* what has been asked of the transport: [what, con, ec], ec "pending" until
          \* it is over and its handler waits to run
  reply   \* what the program was told of its last call by a handle

vars == <<plan, ep, io, cons, ops, reply>>

Doings == {"give", "again", "run", "perpetual", "set", "time", "call"}

Kinds == {"agent", "handlers", "timeouts", "sizes"}

\* What config says; the constructor of a connection takes timeouts and sizes from there.
Defaults == [k \in Kinds |-> "default"]

NoCon == 0
NoReply == [con |-> NoCon, ec |-> "none", reached |-> FALSE, there |-> FALSE]

Init ==
  /\ plan \in Scenarios
  /\ ep = [state |-> "uninitialized", service |-> "none", external |-> FALSE,
           acceptor |-> "none", perpetual |-> FALSE, settings |-> Defaults,
           accepting |-> NoCon, serving |-> FALSE, timer |-> "unset",
           listens |-> 0, starts |-> 0, again |-> FALSE, alive |-> TRUE]
  /\ io = [own |-> "none", given |-> "idle"]
  /\ cons = <<>> /\ ops = {} /\ reply = NoReply

May(doing) == doing \in plan.may

Listening == ep.state = "listening"

\* The program's calls need an endpoint that has been initialised and not destroyed.
Usable == ep.alive /\ ep.state # "uninitialized"

Service == ep.service
Running == Usable /\ io[Service] = "running"

-----------------------------------------------------------------------------
(***************************************************************************)
(* The io_service: it is made or given, run, stopped, and deleted if it is    *)
(* the endpoint's own.                                                       *)
(***************************************************************************)

Initialised(s) ==
  [ep EXCEPT !.service = s, !.external = TRUE, !.acceptor = "closed", !.state = "ready"]

InitGiven ==
  /\ May("give") /\ ep.alive /\ ep.state = "uninitialized"
  /\ ep' = Initialised("given")
  /\ UNCHANGED <<io, cons, ops, reply>>

InitOwn ==
  /\ ep.alive /\ ep.state = "uninitialized"
  /\ ep' = [Initialised("own") EXCEPT !.external = FALSE]
  /\ io' = [io EXCEPT !.own = "idle"]
  /\ UNCHANGED <<cons, ops, reply>>

\* A second init_asio is refused, but the one that returns its error has by then
\* said that the service is not external.
InitAgain ==
  /\ May("again") /\ Usable
  /\ ep' = [ep EXCEPT !.external = FALSE, !.again = TRUE]
  /\ UNCHANGED <<io, cons, ops, reply>>

StartPerpetual ==
  /\ May("perpetual") /\ Usable
  /\ ep' = [ep EXCEPT !.perpetual = TRUE]
  /\ UNCHANGED <<io, cons, ops, reply>>

StopPerpetual ==
  /\ May("perpetual") /\ Usable /\ ep.perpetual
  /\ ep' = [ep EXCEPT !.perpetual = FALSE]
  /\ UNCHANGED <<io, cons, ops, reply>>

\* A started connection has something under way until it ends.
Work == ep.perpetual \/ ops # {} \/ \E c \in DOMAIN cons : cons[c].status = "started"

\* run, run_one, poll, poll_one
Enter ==
  /\ Usable /\ io[Service] = "idle"
  /\ io' = [io EXCEPT ![Service] = "running"]
  /\ UNCHANGED <<ep, cons, ops, reply>>

\* run returns when there is no work, and the service is then stopped; the others may
\* return before.
Leave ==
  /\ May("run") /\ Running /\ ep.accepting = NoCon
  /\ io' = [io EXCEPT ![Service] = IF Work THEN "idle" ELSE "stopped"]
  /\ UNCHANGED <<ep, cons, ops, reply>>

Stop ==
  /\ May("run") /\ Usable /\ io[Service] \in {"idle", "running"}
  /\ io' = [io EXCEPT ![Service] = "stopped"]
  /\ UNCHANGED <<ep, cons, ops, reply>>

Reset ==
  /\ May("run") /\ Usable /\ ep.accepting = NoCon /\ io[Service] = "stopped"
  /\ io' = [io EXCEPT ![Service] = "idle"]
  /\ UNCHANGED <<ep, cons, ops, reply>>

\* What still runs on a service that outlives the endpoint would use it.
MayDestroy ==
  /\ ep.alive /\ ep.accepting = NoCon
  /\ ep.service # "none" => io[ep.service] # "running"
  /\ \A c \in DOMAIN cons : cons[c].status # "made"
  /\ ep.service = "given" => ops = {} /\ \A c \in DOMAIN cons : cons[c].status = "gone"

\* ~endpoint: with the service go the handlers that wait there and the connections
\* that they hold.
Destroy ==
  /\ MayDestroy
  /\ ep' = [ep EXCEPT !.alive = FALSE, !.acceptor = "none", !.perpetual = FALSE]
  /\ io' = IF ep.state # "uninitialized" /\ ~ep.external
           THEN [io EXCEPT ![ep.service] = "deleted"] ELSE io
  /\ ops' = {} /\ cons' = [c \in DOMAIN cons |-> [cons[c] EXCEPT !.status = "gone"]]
  /\ UNCHANGED reply

-----------------------------------------------------------------------------
(***************************************************************************)
(* Listening.                                                                *)
(***************************************************************************)

\* resolve: of a host and a service, before listen itself
ListenSteps == {"resolve", "open", "set_option", "pre_bind", "bind", "listen"}

CleanUpListen(acceptor) == IF acceptor # "closed" THEN "closed" ELSE acceptor

\* The acceptor when step has failed: an open one cannot be opened.
FailedAt(step) == IF step = "open" THEN ep.acceptor ELSE "open"

ListenFails(step) ==
  /\ Usable /\ ep.state = "ready" /\ ep.listens < plan.listens
  /\ ep' = [ep EXCEPT !.acceptor = IF step = "resolve" THEN @ ELSE CleanUpListen(FailedAt(step)),
                    !.listens = @ + 1]
  /\ UNCHANGED <<io, cons, ops, reply>>

Listen ==
  /\ Usable /\ ep.state = "ready" /\ ep.listens < plan.listens
  /\ ep.acceptor = "closed"
  /\ ep' = [ep EXCEPT !.acceptor = "listening", !.state = "listening", !.listens = @ + 1]
  /\ UNCHANGED <<io, cons, ops, reply>>

\* Closing the acceptor ends what waits for a peer; a peer that has come is there.
StopListening ==
  /\ Usable /\ Listening
  /\ ep' = [ep EXCEPT !.acceptor = "closed", !.state = "ready", !.serving = FALSE]
  /\ ops' = {IF o.what = "accept" /\ o.ec = "pending" THEN [o EXCEPT !.ec = "canceled"] ELSE o :
               o \in ops}
  /\ UNCHANGED <<io, cons, reply>>

-----------------------------------------------------------------------------
(***************************************************************************)
(* Connections are made with the settings of that moment.                    *)
(***************************************************************************)

SetSetting(k) ==
  /\ May("set") /\ ep.alive /\ ep.settings = Defaults
  /\ ep' = [ep EXCEPT !.settings[k] = "set"]
  /\ UNCHANGED <<io, cons, ops, reply>>

Copied ==
  [k \in Kinds |->
     IF k \in {"agent", "handlers"} \/ ep.settings[k] # Defaults[k]
     THEN ep.settings[k] ELSE Defaults[k]]

\* asked: what the program had asked for by then; told: what the endpoint did to it
CreateConnection(status) ==
  Append(cons, [status |-> status, settings |-> Copied, asked |-> ep.settings, told |-> <<>>])

Last == Len(cons) + 1

\* con->start or con->terminate(ec)
Start(c) == [c EXCEPT !.status = "started", !.told = Append(@, "start")]
Terminate(c) == [c EXCEPT !.status = "ended", !.told = Append(@, "terminate")]

\* A connection that was terminated is shut down and destroyed, one that was started
\* is so when it ends; what the endpoint did to it stays.
ConnectionGone(c) ==
  /\ cons[c].status \in {"started", "ended"}
  /\ cons' = [cons EXCEPT ![c].status = "gone"]
  /\ UNCHANGED <<ep, io, ops, reply>>

-----------------------------------------------------------------------------
(***************************************************************************)
(* The server's accept loop.                                                 *)
(***************************************************************************)

Asked(what, c) == [what |-> what, con |-> c, ec |-> "pending"]

\* start_accept by the program; when a connection cannot be made, or the endpoint does
\* not listen, it returns an error and that is all.
StartAccept ==
  /\ Usable /\ Listening /\ plan.role = "server"
  /\ ep.starts < plan.starts /\ Len(cons) < plan.cons
  /\ cons' = CreateConnection("waiting")
  /\ ops' = ops \union {Asked("accept", Last)}
  /\ ep' = [ep EXCEPT !.starts = @ + 1, !.serving = TRUE]
  /\ UNCHANGED <<io, reply>>

Told(o) == IF o.ec = "ok" THEN Start(cons[o.con]) ELSE Terminate(cons[o.con])

\* start_accept by handle_accept, up to async_accept.
Restart(list, made) ==
  IF ~Listening THEN UNCHANGED ep /\ cons' = list
  ELSE IF made
       THEN /\ Len(list) < plan.cons
            /\ cons' = list \o <<CreateConnection("waiting")[Last]>>
            /\ ep' = [ep EXCEPT !.accepting = Last]
       ELSE cons' = list /\ ep' = [ep EXCEPT !.serving = FALSE]

HandleAccept_EndsOnError(o, made) ==
  /\ Running /\ ep.accepting = NoCon
  /\ o.what = "accept" /\ o.ec # "pending"
  /\ ops' = ops \ {o}
  /\ IF o.ec = "error" THEN cons' = [cons EXCEPT ![o.con] = Told(o)] /\ UNCHANGED ep
     ELSE Restart([cons EXCEPT ![o.con] = Told(o)], made)
  /\ UNCHANGED <<io, reply>>

HandleAccept(o, made) ==
  /\ Running /\ ep.accepting = NoCon
  /\ o.what = "accept" /\ o.ec # "pending"
  /\ ops' = ops \ {o}
  /\ Restart([cons EXCEPT ![o.con] = Told(o)], made)
  /\ UNCHANGED <<io, reply>>

\* async_accept looks at m_state again, and start_accept terminates the connection that
\* came too late.
AsyncAccept ==
  /\ ep.accepting # NoCon
  /\ IF Listening
     THEN ops' = ops \union {Asked("accept", ep.accepting)} /\ UNCHANGED cons
     ELSE cons' = [cons EXCEPT ![ep.accepting] = Terminate(@)] /\ UNCHANGED ops
  /\ ep' = [ep EXCEPT !.accepting = NoCon]
  /\ UNCHANGED <<io, reply>>

-----------------------------------------------------------------------------
(***************************************************************************)
(* The client, timers, and what the transport does.                          *)
(***************************************************************************)

\* get_connection; an address that is not valid, or secure where the endpoint is not,
\* and a connection that cannot be made leave nothing.
GetConnection ==
  /\ Usable /\ plan.role = "client" /\ Len(cons) < plan.cons
  /\ cons' = CreateConnection("made")
  /\ UNCHANGED <<ep, io, ops, reply>>

\* The program connects a connection once, and then has no more than its handle.
Connect(c) ==
  /\ Usable /\ cons[c].status = "made"
  /\ cons' = [cons EXCEPT ![c].status = "waiting"]
  /\ ops' = ops \union {Asked("connect", c)}
  /\ UNCHANGED <<ep, io, reply>>

HandleConnect(o) ==
  /\ Running
  /\ o.what = "connect" /\ o.ec # "pending"
  /\ ops' = ops \ {o}
  /\ cons' = [cons EXCEPT ![o.con] = Told(o)]
  /\ UNCHANGED <<ep, io, reply>>

SetTimer ==
  /\ May("time") /\ Usable /\ ep.timer = "unset"
  /\ ep' = [ep EXCEPT !.timer = "set"]
  /\ ops' = ops \union {Asked("timer", NoCon)}
  /\ UNCHANGED <<io, cons, reply>>

\* The program cancels by the pointer it was given; a timer that has expired has.
CancelTimer ==
  /\ Asked("timer", NoCon) \in ops
  /\ ops' = (ops \ {Asked("timer", NoCon)})
              \union {[Asked("timer", NoCon) EXCEPT !.ec = "canceled"]}
  /\ UNCHANGED <<ep, io, cons, reply>>

HandleTimer(o) ==
  /\ Running /\ ep.accepting = NoCon
  /\ o.what = "timer" /\ o.ec # "pending"
  /\ ops' = ops \ {o}
  /\ ep' = [ep EXCEPT !.timer = o.ec]
  /\ UNCHANGED <<io, cons, reply>>

Complete(o, ec) ==
  /\ o.ec = "pending"
  /\ ops' = (ops \ {o}) \union {[o EXCEPT !.ec = ec]}
  /\ UNCHANGED <<ep, io, cons, reply>>

-----------------------------------------------------------------------------
(***************************************************************************)
(* Calls by a handle, a weak pointer.                                        *)
(***************************************************************************)

\* get_con_from_hdl: ec is not cleared when there is a connection
ConnectionOf(c, ec) == IF cons[c].status = "gone" THEN "bad_connection" ELSE ec

\* interrupt, pause_reading, resume_reading, send_http_response, send, close, ping, pong:
\* ec is what the variable of the program holds; result what the connection says.
CallByHandle(c, ec, result) ==
  /\ May("call") /\ Usable /\ reply = NoReply
  /\ LET found == ConnectionOf(c, ec)
     IN reply' = [con |-> c, ec |-> IF found # "none" THEN found ELSE result,
                  reached |-> found = "none", there |-> cons[c].status # "gone"]
  /\ UNCHANGED <<ep, io, cons, ops>>

ReadReply ==
  /\ reply # NoReply
  /\ reply' = NoReply
  /\ UNCHANGED <<ep, io, cons, ops>>

Next ==
  /\ UNCHANGED plan
  /\ \/ InitGiven \/ InitOwn \/ InitAgain \/ Destroy
     \/ StartPerpetual \/ StopPerpetual \/ Enter \/ Leave \/ Stop \/ Reset
     \/ Listen \/ (\E step \in ListenSteps : ListenFails(step)) \/ StopListening
     \/ \E k \in Kinds : SetSetting(k)
     \/ StartAccept \/ AsyncAccept \/ GetConnection
     \/ \E o \in ops, made \in BOOLEAN : HandleAccept(o, made)
     \/ SetTimer \/ CancelTimer
     \/ \E o \in ops : HandleConnect(o) \/ HandleTimer(o)
     \/ \E o \in ops, ec \in {"ok", "error"} : Complete(o, ec)
     \/ \E c \in DOMAIN cons : Connect(c) \/ ConnectionGone(c)
     \/ \E c \in DOMAIN cons, ec \in {"none", "old"}, result \in {"none", "refused"} :
          CallByHandle(c, ec, result)
     \/ ReadReply

Spec == Init /\ [][Next]_vars

-----------------------------------------------------------------------------
\* The endpoint says that it listens exactly when its acceptor does, and one that could
\* not listen can try again (endpoint.hpp:404-450, 604-616, 1140-1147).
ListeningIsTrue ==
  /\ Listening /\ ep.alive <=> ep.acceptor = "listening"
  /\ ep.state = "ready" /\ ep.alive => ep.acceptor = "closed"

Accepts == {o \in ops : o.what = "accept"}
Accepting == Cardinality(Accepts) + (IF ep.accepting = NoCon THEN 0 ELSE 1)

\* Once the program has started it, and as long as a connection can be made, a listening
\* endpoint accepts: whatever goes wrong with one peer and however stop_listening and
\* listen fall between the end of an accept and its handler.  There are never more
\* loops than were started (server_endpoint.hpp:121-190).
NeverDeaf == ep.serving /\ ep.alive => Accepting > 0
LoopsAsStarted == Accepting <= ep.starts

\* A connection is started or terminated, once, unless something still waits for it;
\* a timer's callback is called, once (server_endpoint.hpp:98-104,
\* client_endpoint.hpp:156-168, endpoint.hpp:705-760).
NothingLost ==
  /\ \A c \in DOMAIN cons :
       /\ Len(cons[c].told) <= 1
       /\ cons[c].status = "waiting" =>
            c = ep.accepting \/ Cardinality({o \in ops : o.con = c}) = 1
       /\ cons[c].told = <<>> => cons[c].status \in {"made", "waiting"} \/ ~ep.alive
  /\ ep.timer = "set" /\ ep.alive => \E o \in ops : o.what = "timer"

\* The endpoint's own service goes with it, and the program's only if the program made
\* the second init_asio(ec) that the documentation rules out (endpoint.hpp:105-115,
\* 176-263).
ServiceKept ==
  /\ io.own = "deleted" <=> ep.service = "own" /\ ~ep.alive
  /\ io.given = "deleted" => ep.again /\ ~ep.alive

\* A connection has the settings of when it was made, also one that a peer comes for
\* much later (endpoint_impl.hpp:35-93).
SettingsOfCreation == \A c \in DOMAIN cons : cons[c].settings = cons[c].asked

\* A call that reports no error has reached its connection, and one that was given a
\* clean ec tells of a connection that is gone (endpoint.hpp:643-660,
\* endpoint_impl.hpp:95-265).
CallsAnswered ==
  /\ reply.con # NoCon /\ reply.ec = "none" => reply.reached
  /\ reply.reached => reply.there
  /\ reply.ec = "bad_connection" => ~reply.there
=============================================================================
