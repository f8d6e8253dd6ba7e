------------------------ MODULE WsConnection_proofs -------------------------
(***************************************************************************)
(* What WsConnection says of a connection, proved for any scenarios: whatever *)
(* other threads call, however many frames come, with or without the faults.  *)
(*                                                                         *)
(* A handler is an operator on the record of the connection, so an invariant *)
(* is, too: Base(s, u) holds of s between any two operators, PhaseInv(s) only *)
(* when a handler is done.  u is the other threads.                         *)
(***************************************************************************)
EXTENDS WsConnection, FiniteSetTheorems, FunctionTheorems, SequenceTheorems,
        WellFoundedInduction, TLAPS

States == {"connecting", "open", "closing", "closed"}

Errors == {"none", "error", "http_connection_ended"}

Messages == [kind : {"data", "ping", "pong", "close"}, terminal : BOOLEAN]

Shutdowns ==
  [tstat : {"failed", "closed"}, asked : BOOLEAN, timer : {"set", "fired"}, cancelled : BOOLEAN]

TimerStates == [Timers -> {"unset", "set", "fired", "over"}]

CloseTimers == {"close1", "close2", "close3"}

Connections ==
  [server : BOOLEAN, proxied : BOOLEAN, state : States,
   istate : {"USER_INIT", "TRANSPORT_INIT", "READ_HTTP_REQUEST", "WRITE_HTTP_REQUEST",
             "READ_HTTP_RESPONSE", "PROCESS_HTTP_REQUEST", "PROCESS_CONNECTION"},
   ec : Errors, http : {"none", "init", "deferred", "written", "closed"},
   status : {"unset", "error", "switching", "ok"}, clean : BOOLEAN,
   reading : BOOLEAN, writing : BOOLEAN, queue : Seq(Messages), current : Seq(Messages),
   timer : TimerStates, handshake : {"none", "open"} \cup CloseTimers,
   ops : [Ops -> Nat], cancelled : SUBSET Ops, stops : Seq(Shutdowns),
   posted : [write : Nat, pause : BOOLEAN, resume : BOOLEAN],
   calls : [open : Nat, fail : Nat, close : Nat],
   wire : [closed : BOOLEAN, late : BOOLEAN]]

Users ==
  [todo : SUBSET Calls, doing : {"none", "close", "send", "ping"},
   faults : SUBSET {"extension", "race"}]

\* How many shutdowns will be reported with tstat.
Due(s, tstat) == Cardinality({i \in DOMAIN s.stops : s.stops[i].tstat = tstat})

\* A close of another thread may have come in after the end.
Crossed(u) ==
  IF "race" \in u.faults /\ "close" \notin u.todo /\ u.doing # "close" THEN 1 ELSE 0

\* Every end that was reported, or will be, is that of a connection which was opened,
\* or of one that failed.
TellInv(s, u) ==
  /\ s.calls.open <= 1
  /\ s.calls.fail + Due(s, "failed") <= 1
  /\ s.calls.open + s.calls.fail + Due(s, "failed") = 2 => "extension" \in u.faults
  /\ s.calls.close + Due(s, "closed") + (IF s.state \in {"open", "closing"} THEN 1 ELSE 0)
       <= s.calls.open + Crossed(u)
  /\ s.state = "connecting" =>
       s.stops = <<>> /\ s.calls.open = 0 /\ s.calls.fail = 0 /\ s.calls.close = 0
  /\ s.state = "closed" /\ s.http # "closed" =>
       s.calls.fail + Due(s, "failed") + s.calls.close + Due(s, "closed") > 0

\* The end of an http connection is known by its http state.
HttpInv(s) ==
  /\ s.http = "closed" => s.state # "connecting"
  /\ s.http = "deferred" => s.state = "connecting"
  /\ s.ec = "http_connection_ended" => s.http = "closed"

\* The operations of the handshakes, each followed by the next, and the timer that
\* watches over each.
Handshakes == Ops \ {"read_frame", "write_frame"}

TimerOf(op) ==
  CASE op = "resolve" -> "dns"
    [] op = "connect" -> "connect"
    [] op \in {"proxy_write", "proxy_read"} -> "proxy"
    [] op = "tls" -> "post"
    [] OTHER -> "open"

InTurn(s) ==
  /\ \A op \in Handshakes : s.ops[op] <= 1
  /\ \A op, p \in Handshakes : s.ops[op] > 0 /\ s.ops[p] > 0 => op = p

Idle(s) == \A op \in Handshakes : s.ops[op] = 0

Pending(s, t) == s.timer[t] \in {"set", "fired"}

\* Until the connection is open nothing is read, written or paused.
ReadInv(s, u) ==
  /\ s.state = "connecting" => s.ops["read_frame"] = 0 /\ ~s.posted.resume
  /\ s.posted.resume => "resume" \notin u.todo
  /\ s.ops["read_frame"] <= IF "resume" \in u.todo \/ s.posted.resume THEN 1 ELSE 2

WriteInv(s) ==
  /\ s.ops["write_frame"] = IF s.current = <<>> THEN 0 ELSE 1
  /\ s.current # <<>> => s.writing

\* Nothing but close frames comes after a close frame, if calls do not race.
QueueInv(s, u) ==
  /\ s.state = "connecting" => s.queue = <<>> /\ ~s.wire.closed
  /\ "race" \notin u.faults =>
       /\ ~s.wire.late
       /\ s.wire.closed => \A i \in DOMAIN s.queue : s.queue[i].kind = "close"
       /\ \A i, j \in DOMAIN s.queue :
            i < j /\ s.queue[i].kind = "close" => s.queue[j].kind = "close"
       /\ s.state = "open" =>
            ~s.wire.closed /\ \A i \in DOMAIN s.queue : s.queue[i].kind # "close"

\* A closing handshake does not last for ever.
ClosingInv(s) == s.state = "closing" => \E t \in CloseTimers : Pending(s, t)

\* A call that has found the connection open has not been made before.
UserInv(s, u) ==
  /\ u.doing # "none" => s.state # "connecting"
  /\ u.doing = "close" => "close" \notin u.todo

\* What holds even while a handler closes the connection.
Core(s, u) ==
  /\ s \in Connections /\ u \in Users
  /\ TellInv(s, u) /\ InTurn(s) /\ ReadInv(s, u) /\ WriteInv(s) /\ QueueInv(s, u) /\ UserInv(s, u)

Base(s, u) == Core(s, u) /\ HttpInv(s) /\ ClosingInv(s)

\* As long as an opening handshake lasts its timer runs, but for a deferred response.
PhaseInv(s) ==
  s.state = "connecting" =>
    /\ s.http = "deferred" => Idle(s)
    /\ s.http = "written" => s.ops["send_response"] = 1
    /\ s.http \notin {"deferred", "written"} =>
         \E t \in {"dns", "connect", "proxy", "post", "open"} :
           Pending(s, t) /\ \A op \in Handshakes : s.ops[op] > 0 => TimerOf(op) = t

\* Without a race the strand stands still during a call, and the connection stays open.
RaceInv(s, u) == u.doing # "none" /\ "race" \notin u.faults => s.state = "open"

IInv == Base(con, user) /\ PhaseInv(con) /\ RaceInv(con, user) /\ frames \in Nat

-----------------------------------------------------------------------------
(***************************************************************************)
(* Records                                                                 *)
(***************************************************************************)

Fields == {"server", "proxied", "state", "istate", "ec", "http", "status", "clean", "reading",
           "writing", "queue", "current", "timer", "handshake", "ops", "cancelled", "stops",
           "posted", "calls", "wire"}

\* All but the fields of changed are as they were.
Kept(s, r, changed) == \A f \in Fields \ changed : r[f] = s[f]

LEMMA KeptFurther ==
  ASSUME NEW s, NEW r, NEW q, NEW A, NEW B, Kept(s, r, A), Kept(r, q, B)
  PROVE  Kept(s, q, A \cup B)
BY DEF Kept

\* The operators that change one field.
LEMMA AskEffect ==
  ASSUME NEW s \in Connections, NEW op \in Ops
  PROVE  /\ Ask(s, op) \in Connections /\ Kept(s, Ask(s, op), {"ops"})
         /\ Ask(s, op).ops = [s.ops EXCEPT ![op] = @ + 1]
<1> DEFINE x == [s.ops EXCEPT ![op] = @ + 1]
<1>1. Ask(s, op) = [s EXCEPT !.ops = x]
  BY DEF Ask, Connections
<1>2. x \in [Ops -> Nat]
  BY DEF Connections
<1> HIDE DEF x
<1>3. [s EXCEPT !.ops = x] \in Connections /\ [s EXCEPT !.ops = x].ops = x
  BY <1>2 DEF Connections
<1>4. Kept(s, [s EXCEPT !.ops = x], {"ops"})
  BY DEF Connections, Kept, Fields
<1> QED
  BY <1>1, <1>3, <1>4 DEF x

LEMMA TimerEffect ==
  ASSUME NEW s \in Connections, NEW t \in Timers, NEW v \in {"unset", "set", "fired", "over"}
  PROVE  /\ [s EXCEPT !.timer[t] = v] \in Connections
         /\ Kept(s, [s EXCEPT !.timer[t] = v], {"timer"})
         /\ [s EXCEPT !.timer[t] = v].timer = [s.timer EXCEPT ![t] = v]
<1> DEFINE x == [s.timer EXCEPT ![t] = v]
<1>1. [s EXCEPT !.timer[t] = v] = [s EXCEPT !.timer = x]
  BY DEF Connections
<1>2. x \in TimerStates
  BY DEF Connections, TimerStates
<1> HIDE DEF x
<1>3. [s EXCEPT !.timer = x] \in Connections /\ [s EXCEPT !.timer = x].timer = x
  BY <1>2 DEF Connections
<1>4. Kept(s, [s EXCEPT !.timer = x], {"timer"})
  BY DEF Connections, Kept, Fields
<1> QED
  BY <1>1, <1>3, <1>4 DEF x

LEMMA SetEffect ==
  ASSUME NEW s \in Connections, NEW t \in Timers
  PROVE  /\ Set(s, t) \in Connections /\ Kept(s, Set(s, t), {"timer"})
         /\ Set(s, t).timer = [s.timer EXCEPT ![t] = "set"]
BY TimerEffect DEF Set

LEMMA CancelEffect ==
  ASSUME NEW s \in Connections, NEW t \in Timers
  PROVE  /\ Cancel(s, t) \in Connections /\ Kept(s, Cancel(s, t), {"timer"})
         /\ \A c \in Timers \ {t} : Cancel(s, t).timer[c] = s.timer[c]
<1>1. CASE s.timer[t] = "set"
  <2>1. Cancel(s, t) = [s EXCEPT !.timer[t] = "unset"]
    BY <1>1 DEF Cancel
  <2>2. \A c \in Timers \ {t} : [s.timer EXCEPT ![t] = "unset"][c] = s.timer[c]
    BY DEF Connections, TimerStates
  <2> DEFINE q == [s EXCEPT !.timer[t] = "unset"]
  <2>3. q \in Connections /\ Kept(s, q, {"timer"}) /\ q.timer = [s.timer EXCEPT ![t] = "unset"]
    BY TimerEffect
  <2> QED
    BY <2>1, <2>2, <2>3
<1>2. CASE s.timer[t] # "set"
  BY <1>2 DEF Cancel, Kept
<1> QED
  BY <1>1, <1>2

LEMMA SetHandshakeEffect ==
  ASSUME NEW s \in Connections, NEW t \in {"open"} \cup CloseTimers
  PROVE  /\ SetHandshake(s, t) \in Connections
         /\ Kept(s, SetHandshake(s, t), {"timer", "handshake"})
         /\ SetHandshake(s, t).timer = [s.timer EXCEPT ![t] = "set"]
<1>1. t \in Timers
  BY DEF CloseTimers, Timers
<1> DEFINE q == Set(s, t)
<1>2. q \in Connections /\ Kept(s, q, {"timer"}) /\ q.timer = [s.timer EXCEPT ![t] = "set"]
  BY <1>1, SetEffect
<1>3. SetHandshake(s, t) = [q EXCEPT !.handshake = t]
  BY DEF SetHandshake
<1> HIDE DEF q
<1>4. [q EXCEPT !.handshake = t] \in Connections /\ [q EXCEPT !.handshake = t].timer = q.timer
  BY <1>2 DEF Connections
<1>5. Kept(q, [q EXCEPT !.handshake = t], {"handshake"})
  BY <1>2 DEF Connections, Kept, Fields
<1> QED
  BY <1>2, <1>3, <1>4, <1>5 DEF Kept

LEMMA CancelHandshakeEffect ==
  ASSUME NEW s \in Connections
  PROVE  /\ CancelHandshake(s) \in Connections
         /\ Kept(s, CancelHandshake(s), {"timer", "handshake"})
<1>1. CASE s.handshake = "none"
  BY <1>1 DEF CancelHandshake, Kept
<1>2. CASE s.handshake # "none"
  <2>1. s.handshake \in Timers
    BY <1>2 DEF Connections, CloseTimers, Timers
  <2> DEFINE q == Cancel(s, s.handshake)
  <2>2. q \in Connections /\ Kept(s, q, {"timer"})
    BY <2>1, CancelEffect
  <2>3. CancelHandshake(s) = [q EXCEPT !.handshake = "none"]
    BY <1>2 DEF CancelHandshake
  <2> HIDE DEF q
  <2>4. [q EXCEPT !.handshake = "none"] \in Connections
    BY <2>2 DEF Connections
  <2>5. Kept(q, [q EXCEPT !.handshake = "none"], {"handshake"})
    BY <2>2 DEF Connections, Kept, Fields
  <2> QED
    BY <2>2, <2>3, <2>4, <2>5 DEF Kept
<1> QED
  BY <1>1, <1>2

-----------------------------------------------------------------------------
(***************************************************************************)
(* The ends that are due                                                   *)
(***************************************************************************)

LEMMA DueFinite ==
  ASSUME NEW s \in Connections, NEW x
  PROVE  /\ IsFiniteSet({i \in DOMAIN s.stops : s.stops[i].tstat = x})
         /\ Due(s, x) \in Nat
         /\ s.stops = <<>> => Due(s, x) = 0
<1> DEFINE due == {i \in DOMAIN s.stops : s.stops[i].tstat = x}
<1>1. DOMAIN s.stops = 1..Len(s.stops) /\ Len(s.stops) \in Nat
  BY DEF Connections
<1>2. IsFiniteSet(due)
  <2>1. IsFiniteSet(1..Len(s.stops))
    <3>1. \A n \in Nat : IsFiniteSet(1..n)
      BY FS_Interval
    <3> QED
      BY <1>1, <3>1
  <2>2. due \subseteq 1..Len(s.stops)
    BY <1>1
  <2> QED
    BY <2>1, <2>2, FS_Subset
<1>3. Due(s, x) \in Nat
  BY <1>2, FS_CardinalityType DEF Due
<1>4. s.stops = <<>> => due = {}
  OBVIOUS
<1> QED
  BY <1>2, <1>3, <1>4, FS_EmptySet DEF Due

LEMMA DueAppended ==
  ASSUME NEW s \in Connections, NEW r \in Connections, NEW e \in Shutdowns,
         r.stops = Append(s.stops, e)
  PROVE  /\ Due(r, e.tstat) = Due(s, e.tstat) + 1
         /\ \A x : x # e.tstat => Due(r, x) = Due(s, x)
<1> DEFINE n == Len(s.stops)
           due(c, x) == {i \in DOMAIN c.stops : c.stops[i].tstat = x}
<1>0. s.stops \in Seq(Shutdowns)
  BY DEF Connections
<1>1. /\ s.stops \in Seq(Shutdowns) /\ n \in Nat /\ DOMAIN s.stops = 1..n
      /\ DOMAIN r.stops = 1..(n + 1) /\ r.stops[n + 1] = e
      /\ \A i \in 1..n : r.stops[i] = s.stops[i]
  BY <1>0
<1>2. due(r, e.tstat) = due(s, e.tstat) \cup {n + 1}
  BY <1>1
<1>3. n + 1 \notin due(s, e.tstat)
  BY <1>1
<1>4. ASSUME NEW x, x # e.tstat PROVE due(r, x) = due(s, x)
  BY <1>1, <1>4
<1>5. IsFiniteSet(due(s, e.tstat))
  BY DueFinite
<1>6. Cardinality(due(s, e.tstat) \cup {n + 1}) = Cardinality(due(s, e.tstat)) + 1
  BY <1>3, <1>5, FS_AddElement
<1> QED
  BY <1>2, <1>4, <1>6 DEF Due

-----------------------------------------------------------------------------
(***************************************************************************)
(* The end                                                                 *)
(***************************************************************************)

LEMMA TerminateEffect ==
  ASSUME NEW s \in Connections, NEW e \in Errors
  PROVE  LET r == Terminate(s, e) IN
         /\ r \in Connections
         /\ r.state = "closed"
         /\ r.http = IF s.http = "none" THEN "none" ELSE "closed"
         /\ r.ec = IF e = "none" THEN s.ec ELSE e
         /\ Kept(s, r, {"timer", "handshake", "ec", "http", "state", "stops"})
         /\ s.state = "closed" => r.stops = s.stops
         /\ s.state # "closed" =>
              \E x \in Shutdowns : /\ r.stops = Append(s.stops, x)
                                   /\ x.tstat = IF s.state = "connecting" THEN "failed" ELSE "closed"
<1> DEFINE q == CancelHandshake(s)
           ec == IF e = "none" THEN s.ec ELSE e
           http == IF s.http = "none" THEN "none" ELSE "closed"
           told == [q EXCEPT !.ec = ec, !.http = http, !.state = "closed"]
           tstat == IF s.state = "connecting" THEN "failed" ELSE "closed"
           x == [tstat |-> tstat, asked |-> TRUE, timer |-> "set", cancelled |-> FALSE]
           r == [told EXCEPT !.stops = Append(s.stops, x)]
<1>1. q \in Connections /\ Kept(s, q, {"timer", "handshake"})
  BY CancelHandshakeEffect
<1>2. q.ec = s.ec /\ q.http = s.http /\ q.stops = s.stops
  BY <1>1 DEF Kept, Fields
<1>3. ec \in Errors /\ http \in {"none", "closed"} /\ x \in Shutdowns /\ x.tstat = tstat
  BY DEF Connections, Shutdowns
<1>4. told = [q EXCEPT !.ec = IF e = "none" THEN @ ELSE e,
                       !.http = IF @ = "none" THEN @ ELSE "closed", !.state = "closed"]
  BY <1>1, <1>2 DEF Connections
<1> HIDE DEF q, ec, http, x, tstat
<1>5. /\ told \in Connections
      /\ told.ec = ec /\ told.http = http /\ told.state = "closed" /\ told.stops = s.stops
  BY <1>1, <1>2, <1>3, ZenonT(60) DEF Connections, States
<1>6. Kept(q, told, {"ec", "http", "state"})
  BY <1>1 DEF Connections, Kept, Fields
<1>7. Kept(s, told, {"timer", "handshake", "ec", "http", "state"})
  BY <1>1, <1>6 DEF Kept
<1> HIDE DEF told
<1>8. Append(s.stops, x) \in Seq(Shutdowns)
  BY <1>3 DEF Connections
<1>9. /\ r \in Connections /\ r.ec = told.ec /\ r.http = told.http /\ r.state = told.state
      /\ r.stops = Append(s.stops, x)
  BY <1>5, <1>8 DEF Connections
<1>10. Kept(told, r, {"stops"})
  BY <1>5 DEF Connections, Kept, Fields
<1>11. Kept(s, r, {"timer", "handshake", "ec", "http", "state", "stops"})
  BY <1>7, <1>10 DEF Kept
<1> HIDE DEF r
<1>12. CASE s.state = "closed"
  <2>1. Terminate(s, e) = told
    BY <1>4, <1>12 DEF Terminate, q
  <2>2. Kept(s, told, {"timer", "handshake", "ec", "http", "state", "stops"})
    BY <1>7 DEF Kept
  <2> QED
    BY <2>1, <2>2, <1>5, <1>12 DEF ec, http
<1>13. CASE s.state # "closed"
  <2>1. Terminate(s, e) = AsyncShutdown(told, tstat)
    BY <1>4, <1>13 DEF Terminate, q, tstat
  <2>2. AsyncShutdown(told, tstat) = r
    BY <1>5 DEF AsyncShutdown, r, x, Connections
  <2> QED
    BY <2>1, <2>2, <1>3, <1>5, <1>9, <1>11, <1>13 DEF ec, http, tstat
<1> QED
  BY <1>12, <1>13

\* Whatever a handler has done to a connection, it is in order when it ends it.
LEMMA Terminated ==
  ASSUME NEW s, NEW u, NEW e \in Errors, Core(s, u),
         (IF e = "none" THEN s.ec ELSE e) = "http_connection_ended" => s.http # "none"
  PROVE  Base(Terminate(s, e), u) /\ Terminate(s, e).state = "closed"
<1> DEFINE r == Terminate(s, e)
<1>1. s \in Connections /\ u \in Users
  BY DEF Core
<1>2. /\ r \in Connections /\ r.state = "closed"
      /\ r.http = IF s.http = "none" THEN "none" ELSE "closed"
      /\ r.ec = IF e = "none" THEN s.ec ELSE e
      /\ Kept(s, r, {"timer", "handshake", "ec", "http", "state", "stops"})
      /\ s.state = "closed" => r.stops = s.stops
      /\ s.state # "closed" =>
           \E x \in Shutdowns : /\ r.stops = Append(s.stops, x)
                                /\ x.tstat = IF s.state = "connecting" THEN "failed" ELSE "closed"
  BY <1>1, TerminateEffect
<1> HIDE DEF r
<1>3. /\ r.calls = s.calls /\ r.ops = s.ops /\ r.posted = s.posted /\ r.current = s.current
      /\ r.writing = s.writing /\ r.queue = s.queue /\ r.wire = s.wire
  BY <1>2 DEF Kept, Fields
<1>4. TellInv(r, u)
  <2>0. /\ s.calls.open \in Nat /\ s.calls.fail \in Nat /\ s.calls.close \in Nat
        /\ s.state \in States /\ Crossed(u) \in {0, 1}
    BY <1>1 DEF Connections, Crossed
  <2>1. Due(s, "failed") \in Nat /\ Due(s, "closed") \in Nat
    BY <1>1, DueFinite
  <2>2. CASE s.state = "closed"
    <3>1. Due(r, "failed") = Due(s, "failed") /\ Due(r, "closed") = Due(s, "closed")
      BY <1>2, <2>2 DEF Due
    <3> QED
      BY <3>1, <2>0, <2>1, <2>2, <1>2, <1>3 DEF Core, TellInv
  <2>3. CASE s.state = "connecting"
    <3>1. Due(r, "failed") = Due(s, "failed") + 1 /\ Due(r, "closed") = Due(s, "closed")
      BY <1>1, <1>2, <2>3, DueAppended
    <3>2. Due(s, "failed") = 0 /\ Due(s, "closed") = 0
      BY <1>1, <2>3, DueFinite DEF Core, TellInv
    <3> QED
      BY <3>1, <3>2, <2>0, <2>1, <2>3, <1>2, <1>3 DEF Core, TellInv
  <2>4. CASE s.state \in {"open", "closing"}
    <3>1. Due(r, "failed") = Due(s, "failed") /\ Due(r, "closed") = Due(s, "closed") + 1
      BY <1>1, <1>2, <2>4, DueAppended
    <3>2. s.calls.close + Due(s, "closed") + 1 <= s.calls.open + Crossed(u)
      BY <2>4 DEF Core, TellInv
    <3>3. /\ s.calls.open <= 1 /\ s.calls.fail + Due(s, "failed") <= 1
          /\ s.calls.open + s.calls.fail + Due(s, "failed") = 2 => "extension" \in u.faults
      BY DEF Core, TellInv
    <3>4. r.calls.fail + Due(r, "failed") + r.calls.close + Due(r, "closed") > 0
      BY <3>1, <2>0, <2>1, <1>3
    <3>5. r.calls.close + Due(r, "closed") <= r.calls.open + Crossed(u)
      BY <3>1, <3>2, <2>0, <2>1, <1>3
    <3> QED
      BY <3>1, <3>3, <3>4, <3>5, <2>0, <2>1, <1>2, <1>3 DEF TellInv
  <2> QED
    BY <2>0, <2>2, <2>3, <2>4 DEF States
<1>5. InTurn(r) /\ WriteInv(r)
  BY <1>3 DEF Core, InTurn, WriteInv
<1>6. ReadInv(r, u)
  BY <1>2, <1>3 DEF Core, ReadInv
<1>7. QueueInv(r, u)
  BY <1>2, <1>3 DEF Core, QueueInv
<1>8. UserInv(r, u) /\ HttpInv(r) /\ ClosingInv(r)
  BY <1>2 DEF Core, UserInv, HttpInv, ClosingInv
<1> QED
  BY <1>1, <1>2, <1>4, <1>5, <1>6, <1>7, <1>8 DEF Base, Core, r

-----------------------------------------------------------------------------
(***************************************************************************)
(* Sending                                                                 *)
(***************************************************************************)

LEMMA PushEffect ==
  ASSUME NEW s \in Connections, NEW kind \in {"data", "ping", "pong", "close"}, NEW terminal \in BOOLEAN
  PROVE  LET r == Push(s, kind, terminal) IN
         /\ r \in Connections /\ Kept(s, r, {"queue", "posted"})
         /\ r.queue = Append(s.queue, [kind |-> kind, terminal |-> terminal])
         /\ r.posted.resume = s.posted.resume
<1> DEFINE m == [kind |-> kind, terminal |-> terminal]
           posted == [s.posted EXCEPT !.write = IF s.writing THEN @ ELSE @ + 1]
           queue == Append(s.queue, m)
           r == [s EXCEPT !.queue = queue, !.posted = posted]
<1>1. Push(s, kind, terminal) = r
  BY DEF Push, Connections
<1>2. posted \in [write : Nat, pause : BOOLEAN, resume : BOOLEAN] /\ posted.resume = s.posted.resume
  <2>1. s.posted \in [write : Nat, pause : BOOLEAN, resume : BOOLEAN]
    BY DEF Connections
  <2> QED
    BY <2>1
<1>3. m \in Messages
  BY DEF Messages
<1> HIDE DEF m, posted
<1>4. queue \in Seq(Messages)
  BY <1>3 DEF Connections
<1> HIDE DEF queue
<1>5. r \in Connections /\ r.queue = queue /\ r.posted = posted
  BY <1>2, <1>4 DEF Connections
<1>6. Kept(s, r, {"queue", "posted"})
  BY DEF Connections, Kept, Fields
<1> QED
  BY <1>1, <1>2, <1>5, <1>6 DEF queue, m

\* What is left of Base when a frame is queued: all but its place in the queue.
LEMMA Queued ==
  ASSUME NEW s, NEW u, NEW kind \in {"data", "ping", "pong", "close"}, NEW terminal \in BOOLEAN,
         Base(s, u), s.state # "connecting", QueueInv(Push(s, kind, terminal), u)
  PROVE  Base(Push(s, kind, terminal), u) /\ Push(s, kind, terminal).state = s.state
<1> DEFINE r == Push(s, kind, terminal)
<1>1. s \in Connections /\ u \in Users
  BY DEF Base, Core
<1>2. r \in Connections /\ Kept(s, r, {"queue", "posted"}) /\ r.posted.resume = s.posted.resume
  BY <1>1, PushEffect
<1> HIDE DEF r
<1>3. /\ r.calls = s.calls /\ r.ops = s.ops /\ r.current = s.current /\ r.stops = s.stops
      /\ r.writing = s.writing /\ r.wire = s.wire /\ r.state = s.state /\ r.http = s.http
      /\ r.ec = s.ec /\ r.timer = s.timer
  BY <1>2 DEF Kept, Fields
<1>4. Due(r, "failed") = Due(s, "failed") /\ Due(r, "closed") = Due(s, "closed")
  BY <1>3 DEF Due
<1>5. TellInv(r, u)
  BY <1>3, <1>4 DEF Base, Core, TellInv
<1>6. InTurn(r) /\ WriteInv(r) /\ ReadInv(r, u)
  BY <1>2, <1>3 DEF Base, Core, InTurn, WriteInv, ReadInv
<1>7. UserInv(r, u) /\ HttpInv(r) /\ ClosingInv(r)
  BY <1>3 DEF Base, Core, UserInv, HttpInv, ClosingInv, Pending
<1> QED
  BY <1>1, <1>2, <1>3, <1>5, <1>6, <1>7 DEF Base, Core, r

LEMMA Pushed ==
  ASSUME NEW s, NEW u, NEW kind \in {"data", "ping", "pong"}, NEW terminal \in BOOLEAN,
         Base(s, u), s.state # "connecting", "race" \notin u.faults => s.state = "open"
  PROVE  Base(Push(s, kind, terminal), u) /\ Push(s, kind, terminal).state = s.state
<1> DEFINE r == Push(s, kind, terminal)
           m == [kind |-> kind, terminal |-> terminal]
<1>1. s \in Connections /\ u \in Users /\ QueueInv(s, u)
  BY DEF Base, Core
<1>2. /\ r \in Connections /\ Kept(s, r, {"queue", "posted"})
      /\ r.queue = Append(s.queue, m)
  BY <1>1, PushEffect
<1>3. m.kind # "close"
  OBVIOUS
<1> HIDE DEF r, m
<1>4. r.state = s.state /\ r.wire = s.wire
  BY <1>2 DEF Kept, Fields
<1>5. /\ DOMAIN s.queue = 1..Len(s.queue) /\ Len(s.queue) \in Nat
      /\ DOMAIN r.queue = 1..(Len(s.queue) + 1) /\ r.queue[Len(s.queue) + 1] = m
      /\ \A i \in 1..Len(s.queue) : r.queue[i] = s.queue[i]
  BY <1>1, <1>2 DEF Connections
<1>6. QueueInv(r, u)
  <2>1. CASE "race" \in u.faults
    BY <2>1, <1>1, <1>4 DEF QueueInv
  <2>2. CASE "race" \notin u.faults
    <3>1. /\ ~s.wire.late /\ ~s.wire.closed
          /\ \A i \in DOMAIN s.queue : s.queue[i].kind # "close"
      BY <2>2, <1>1 DEF QueueInv
    <3>2. \A i \in DOMAIN r.queue : r.queue[i].kind # "close"
      BY <3>1, <1>3, <1>5
    <3> QED
      BY <3>1, <3>2, <1>4 DEF QueueInv
  <2> QED
    BY <2>1, <2>2
<1> QED
  BY <1>6, Queued DEF r

\* A connection that is not yet reported as ended, or on which a close has crossed its
\* end, closes in order.
\* A close frame is put together on a connection that is closing from then on.
LEMMA ClosingEffect ==
  ASSUME NEW s \in Connections, NEW clean \in BOOLEAN
  PROVE  LET c == [s EXCEPT !.state = "closing", !.clean = clean] IN
         c \in Connections /\ c.state = "closing" /\ Kept(s, c, {"state", "clean"})
<1> DEFINE c == [s EXCEPT !.state = "closing", !.clean = clean]
<1>1. c \in Connections
  BY DEF Connections, States
<1>2. c.state = "closing"
  BY DEF Connections
<1>3. Kept(s, c, {"state", "clean"})
  BY DEF Connections, Kept, Fields
<1> QED
  BY <1>1, <1>2, <1>3

LEMMA CloseSent ==
  ASSUME NEW s, NEW u, NEW ack \in BOOLEAN, NEW terminal \in BOOLEAN,
         Base(s, u), s.state # "connecting",
         s.calls.close + Due(s, "closed") + 1 <= s.calls.open + Crossed(u)
  PROVE  /\ Base(SendCloseFrame(s, ack, terminal), u)
         /\ SendCloseFrame(s, ack, terminal).state = "closing"
<1> DEFINE t == CHOOSE c \in {"close1", "close2", "close3"} :
                  s.timer[c] = "unset" \/ \A d \in {"close1", "close2", "close3"} : s.timer[d] # "unset"
           c == [s EXCEPT !.state = "closing", !.clean = @ \/ ack]
           q == SetHandshake(c, t)
           r == Push(q, "close", terminal)
           m == [kind |-> "close", terminal |-> terminal]
<1>1. s \in Connections /\ u \in Users
  BY DEF Base, Core
<1>2. t \in CloseTimers
  BY DEF CloseTimers
<1>3. SendCloseFrame(s, ack, terminal) = r
  BY DEF SendCloseFrame
<1> DEFINE clean == s.clean \/ ack
<1>0. c = [s EXCEPT !.state = "closing", !.clean = clean] /\ clean \in BOOLEAN
  OBVIOUS
<1> HIDE DEF t, c, clean
<1>4. c \in Connections /\ c.state = "closing" /\ Kept(s, c, {"state", "clean"})
  BY <1>0, <1>1, ClosingEffect
<1>5. /\ q \in Connections /\ Kept(c, q, {"timer", "handshake"})
      /\ q.timer = [c.timer EXCEPT ![t] = "set"]
  BY <1>2, <1>4, SetHandshakeEffect
<1>6. t \in Timers
  BY <1>2 DEF CloseTimers, Timers
<1> HIDE DEF q
<1>7. Pending(q, t)
  BY <1>4, <1>5, <1>6 DEF Pending, Connections, TimerStates
<1>8. /\ q.calls = s.calls /\ q.ops = s.ops /\ q.current = s.current /\ q.stops = s.stops
      /\ q.writing = s.writing /\ q.wire = s.wire /\ q.http = s.http /\ q.queue = s.queue
      /\ q.ec = s.ec /\ q.posted = s.posted /\ q.state = "closing"
  BY <1>4, <1>5 DEF Kept, Fields
<1>9. Due(q, "failed") = Due(s, "failed") /\ Due(q, "closed") = Due(s, "closed")
  BY <1>8 DEF Due
<1>10. TellInv(q, u)
  BY <1>8, <1>9 DEF Base, Core, TellInv
<1>11. InTurn(q) /\ WriteInv(q) /\ ReadInv(q, u)
  BY <1>8 DEF Base, Core, InTurn, WriteInv, ReadInv
<1>12. UserInv(q, u) /\ HttpInv(q)
  BY <1>8 DEF Base, Core, UserInv, HttpInv
<1>13. ClosingInv(q)
  BY <1>2, <1>7 DEF ClosingInv
<1>14. QueueInv(q, u)
  BY <1>8 DEF Base, Core, QueueInv
<1>15. Base(q, u)
  BY <1>1, <1>5, <1>10, <1>11, <1>12, <1>13, <1>14 DEF Base, Core
<1>16. r \in Connections /\ Kept(q, r, {"queue", "posted"}) /\ r.queue = Append(q.queue, m)
  BY <1>5, PushEffect
<1>17. m.kind = "close"
  OBVIOUS
<1> HIDE DEF r, m
<1>18. r.state = "closing" /\ r.wire = q.wire
  BY <1>8, <1>16 DEF Kept, Fields
<1>19. /\ DOMAIN q.queue = 1..Len(q.queue) /\ Len(q.queue) \in Nat
       /\ DOMAIN r.queue = 1..(Len(q.queue) + 1) /\ r.queue[Len(q.queue) + 1] = m
       /\ \A i \in 1..Len(q.queue) : r.queue[i] = q.queue[i]
  BY <1>5, <1>16 DEF Connections
<1>20. QueueInv(r, u)
  <2>1. ASSUME NEW i \in DOMAIN r.queue
        PROVE  \/ i \in DOMAIN q.queue /\ r.queue[i] = q.queue[i]
               \/ i = Len(q.queue) + 1 /\ r.queue[i].kind = "close"
    BY <1>17, <1>19
  <2>2. ASSUME "race" \notin u.faults, r.wire.closed, NEW i \in DOMAIN r.queue
        PROVE  r.queue[i].kind = "close"
    BY <2>1, <2>2, <1>14, <1>18 DEF QueueInv
  <2>3. ASSUME "race" \notin u.faults, NEW i \in DOMAIN r.queue, NEW j \in DOMAIN r.queue,
               i < j, r.queue[i].kind = "close"
        PROVE  r.queue[j].kind = "close"
    <3>1. CASE j = Len(q.queue) + 1
      BY <3>1, <2>1, <1>19
    <3>2. CASE j # Len(q.queue) + 1
      <4>1. j \in DOMAIN q.queue /\ r.queue[j] = q.queue[j]
        BY <3>2, <2>1
      <4>2. i \in DOMAIN q.queue /\ r.queue[i] = q.queue[i]
        BY <2>3, <4>1, <1>19
      <4> QED
        BY <4>1, <4>2, <2>3, <1>14 DEF QueueInv
    <3> QED
      BY <3>1, <3>2
  <2> QED
    BY <2>2, <2>3, <1>14, <1>18 DEF QueueInv
<1> QED
  BY <1>3, <1>8, <1>15, <1>20, Queued DEF r

\* As long as it is open or closing there is an end to be reported.
LEMMA EndDue ==
  ASSUME NEW s, NEW u, Base(s, u), s.state \in {"open", "closing"}
  PROVE  s.calls.close + Due(s, "closed") + 1 <= s.calls.open + Crossed(u)
BY DEF Base, Core, TellInv

LEMMA Closes ==
  ASSUME NEW s, NEW u, NEW terminal \in BOOLEAN, Base(s, u), s.state # "connecting"
  PROVE  /\ Base(Close(s, terminal), u) /\ Close(s, terminal).state # "connecting"
         /\ Base(Pong(s), u) /\ Pong(s).state # "connecting"
<1>1. CASE s.state = "open"
  BY <1>1, EndDue, CloseSent, Pushed DEF Close, Pong
<1>2. CASE s.state # "open"
  BY <1>2 DEF Close, Pong
<1> QED
  BY <1>1, <1>2

-----------------------------------------------------------------------------
(***************************************************************************)
(* Receiving                                                               *)
(***************************************************************************)

\* What the invariant does not look at may change.
LEMMA CoreKept ==
  ASSUME NEW s, NEW u, Core(s, u), NEW r \in Connections,
         Kept(s, r, {"istate", "ec", "status", "clean", "reading", "cancelled", "handshake", "timer"})
  PROVE  Core(r, u)
<1>1. /\ r.calls = s.calls /\ r.ops = s.ops /\ r.current = s.current /\ r.stops = s.stops
      /\ r.writing = s.writing /\ r.wire = s.wire /\ r.state = s.state /\ r.http = s.http
      /\ r.posted = s.posted /\ r.queue = s.queue
  BY DEF Kept, Fields
<1>2. Due(r, "failed") = Due(s, "failed") /\ Due(r, "closed") = Due(s, "closed")
  BY <1>1 DEF Due
<1>3. TellInv(r, u)
  BY <1>1, <1>2 DEF Core, TellInv
<1>4. InTurn(r) /\ WriteInv(r) /\ ReadInv(r, u) /\ QueueInv(r, u) /\ UserInv(r, u)
  BY <1>1 DEF Core, InTurn, WriteInv, ReadInv, QueueInv, UserInv
<1> QED
  BY <1>3, <1>4 DEF Core

LEMMA Unconcerned ==
  ASSUME NEW s, NEW u, Base(s, u), NEW r \in Connections,
         Kept(s, r, {"istate", "status", "clean", "reading", "cancelled", "handshake", "timer"}),
         \A t \in CloseTimers : r.timer[t] = s.timer[t]
  PROVE  Base(r, u)
<1>1. Kept(s, r, {"istate", "ec", "status", "clean", "reading", "cancelled", "handshake", "timer"})
  BY DEF Kept
<1>2. r.state = s.state /\ r.http = s.http /\ r.ec = s.ec
  BY DEF Kept, Fields
<1>3. Core(r, u)
  BY <1>1, CoreKept DEF Base
<1>4. HttpInv(r)
  BY <1>2 DEF Base, HttpInv
<1>5. ClosingInv(r)
  BY <1>2 DEF Base, ClosingInv, Pending
<1> QED
  BY <1>3, <1>4, <1>5 DEF Base

\* Once the opening handshake is over, a handler that asks nothing of the transport
\* brings a connection on to r.
Onward(s, r, u) ==
  /\ Base(r, u) /\ r.state # "connecting"
  /\ r.ops = s.ops /\ r.posted.resume = s.posted.resume

LEMMA OnwardFurther ==
  ASSUME NEW s, NEW r, NEW q, NEW u, Onward(s, r, u), Onward(r, q, u)
  PROVE  Onward(s, q, u)
BY DEF Onward

LEMMA NothingAsked ==
  ASSUME NEW s \in Connections
  PROVE  /\ \A e \in Errors : /\ Terminate(s, e).ops = s.ops
                              /\ Terminate(s, e).posted.resume = s.posted.resume
         /\ \A kind \in {"data", "ping", "pong", "close"}, terminal \in BOOLEAN :
              /\ Push(s, kind, terminal).ops = s.ops
              /\ Push(s, kind, terminal).posted.resume = s.posted.resume
         /\ \A ack \in BOOLEAN, terminal \in BOOLEAN :
              /\ SendCloseFrame(s, ack, terminal).ops = s.ops
              /\ SendCloseFrame(s, ack, terminal).posted.resume = s.posted.resume
<1>1. ASSUME NEW e \in Errors
      PROVE  Terminate(s, e).ops = s.ops /\ Terminate(s, e).posted.resume = s.posted.resume
  <2>1. Kept(s, Terminate(s, e), {"timer", "handshake", "ec", "http", "state", "stops"})
    BY TerminateEffect
  <2> QED
    BY <2>1 DEF Kept, Fields
<1>2. ASSUME NEW kind \in {"data", "ping", "pong", "close"}, NEW terminal \in BOOLEAN
      PROVE  /\ Push(s, kind, terminal).ops = s.ops
             /\ Push(s, kind, terminal).posted.resume = s.posted.resume
  <2>1. /\ Kept(s, Push(s, kind, terminal), {"queue", "posted"})
        /\ Push(s, kind, terminal).posted.resume = s.posted.resume
    BY PushEffect
  <2> QED
    BY <2>1 DEF Kept, Fields
<1>3. ASSUME NEW ack \in BOOLEAN, NEW terminal \in BOOLEAN
      PROVE  /\ SendCloseFrame(s, ack, terminal).ops = s.ops
             /\ SendCloseFrame(s, ack, terminal).posted.resume = s.posted.resume
  <2> DEFINE t == CHOOSE c \in {"close1", "close2", "close3"} :
                    s.timer[c] = "unset" \/ \A d \in {"close1", "close2", "close3"} : s.timer[d] # "unset"
             c == [s EXCEPT !.state = "closing", !.clean = @ \/ ack]
             q == SetHandshake(c, t)
             r == Push(q, "close", terminal)
  <2>1. t \in CloseTimers
    BY DEF CloseTimers
  <2>2. SendCloseFrame(s, ack, terminal) = r
    BY DEF SendCloseFrame
  <2> DEFINE clean == s.clean \/ ack
  <2>3. c = [s EXCEPT !.state = "closing", !.clean = clean] /\ clean \in BOOLEAN
    OBVIOUS
  <2> HIDE DEF t, c, clean
  <2>7. c \in Connections /\ Kept(s, c, {"state", "clean"})
    BY <2>3, ClosingEffect
  <2>4. q \in Connections /\ Kept(c, q, {"timer", "handshake"})
    BY <2>1, <2>7, SetHandshakeEffect
  <2> HIDE DEF q
  <2>5. Kept(q, r, {"queue", "posted"}) /\ r.posted.resume = q.posted.resume
    BY <2>4, PushEffect
  <2> HIDE DEF r
  <2>6. c.ops = s.ops /\ c.posted = s.posted /\ q.ops = c.ops /\ q.posted = c.posted /\ r.ops = q.ops
    BY <2>4, <2>5, <2>7 DEF Kept, Fields
  <2> QED
    BY <2>2, <2>5, <2>6
<1> QED
  BY <1>1, <1>2, <1>3

\* The ways onward.
LEMMA Ends ==
  ASSUME NEW s, NEW u, Base(s, u), NEW e \in {"none", "error"}
  PROVE  Onward(s, Terminate(s, e), u) /\ Terminate(s, e).state = "closed"
<1>1. (IF e = "none" THEN s.ec ELSE e) = "http_connection_ended" => s.http # "none"
  BY DEF Base, HttpInv
<1>2. Core(s, u) /\ s \in Connections /\ e \in Errors
  BY DEF Base, Core, Errors
<1> QED
  BY <1>1, <1>2, Terminated, NothingAsked DEF Onward

LEMMA Sends ==
  ASSUME NEW s, NEW u, NEW kind \in {"data", "pong"}, Base(s, u), s.state = "open"
  PROVE  Onward(s, Push(s, kind, FALSE), u)
<1>1. s \in Connections
  BY DEF Base, Core
<1>2. Base(Push(s, kind, FALSE), u) /\ Push(s, kind, FALSE).state = "open"
  BY Pushed
<1>3. /\ Push(s, kind, FALSE).ops = s.ops
      /\ Push(s, kind, FALSE).posted.resume = s.posted.resume
  BY <1>1, NothingAsked
<1> QED
  BY <1>2, <1>3 DEF Onward

LEMMA SendsClose ==
  ASSUME NEW s, NEW u, NEW ack \in BOOLEAN, NEW terminal \in BOOLEAN,
         Base(s, u), s.state \in {"open", "closing"}
  PROVE  Onward(s, SendCloseFrame(s, ack, terminal), u)
<1>1. s \in Connections
  BY DEF Base, Core
<1>2. s.calls.close + Due(s, "closed") + 1 <= s.calls.open + Crossed(u)
  BY EndDue
<1>3. /\ Base(SendCloseFrame(s, ack, terminal), u)
      /\ SendCloseFrame(s, ack, terminal).state = "closing"
  BY <1>2, CloseSent
<1> QED
  BY <1>1, <1>3, NothingAsked DEF Onward

LEMMA Replies ==
  ASSUME NEW s, NEW u, NEW reply, Base(s, u), s.state # "connecting"
  PROVE  Onward(s, Reply(s, reply), u)
<1>1. Onward(s, s, u)
  BY DEF Onward
<1>2. CASE reply = "close"
  <2>1. Reply(s, reply) = Close(s, FALSE)
    BY <1>2 DEF Reply
  <2> QED
    BY <2>1, <1>1, SendsClose DEF Close
<1>3. CASE reply = "send" /\ s.state = "open"
  <2>1. Reply(s, reply) = Push(s, "data", FALSE)
    BY <1>3 DEF Reply
  <2> QED
    BY <2>1, <1>3, Sends
<1>4. CASE reply # "close" /\ ~(reply = "send" /\ s.state = "open")
  BY <1>4, <1>1 DEF Reply
<1> QED
  BY <1>2, <1>3, <1>4

LEMMA ControlFrameProcessed ==
  ASSUME NEW s, NEW u, NEW frame \in FrameKinds, Base(s, u), s.state # "connecting"
  PROVE  Onward(s, ProcessControlFrame(s, frame), u)
<1> DEFINE r == ProcessControlFrame(s, frame)
<1>1. Onward(s, s, u)
  BY DEF Onward
<1>2. s \in Connections /\ s.state \in {"open", "closing", "closed"} /\ s.server \in BOOLEAN
  BY DEF Base, Core, Connections, States
<1>3. CASE s.state = "closed" \/ (frame \in {"ping", "pong"} /\ s.state # "open")
  BY <1>1, <1>3 DEF ProcessControlFrame
<1>4. CASE frame = "ping" /\ s.state = "open"
  <2>1. r = Push(s, "pong", FALSE)
    BY <1>4 DEF ProcessControlFrame, Pong
  <2> QED
    BY <2>1, <1>4, Sends
<1>5. CASE frame = "pong" /\ s.state = "open"
  <2>1. r = Cancel(s, "ping")
    BY <1>5 DEF ProcessControlFrame
  <2>2. "ping" \in Timers /\ CloseTimers \subseteq Timers \ {"ping"}
    BY DEF Timers, CloseTimers
  <2>3. /\ r \in Connections /\ Kept(s, r, {"timer"})
        /\ \A t \in CloseTimers : r.timer[t] = s.timer[t]
    BY <1>2, <2>1, <2>2, CancelEffect
  <2> HIDE DEF r
  <2>4. Kept(s, r, {"istate", "status", "clean", "reading", "cancelled", "handshake", "timer"})
    BY <2>3 DEF Kept
  <2>5. Base(r, u)
    BY <2>3, <2>4, Unconcerned
  <2>6. r.state = s.state /\ r.ops = s.ops /\ r.posted = s.posted
    BY <2>3 DEF Kept, Fields
  <2> QED
    BY <2>5, <2>6 DEF Onward, r
<1>6. CASE s.state # "closed" /\ (frame = "badclose" \/ (frame = "close" /\ s.state = "open"))
  <2>1. r = SendCloseFrame(s, TRUE, s.server)
    BY <1>6 DEF ProcessControlFrame, SendCloseAck
  <2> QED
    BY <2>1, <1>2, <1>6, SendsClose
<1>7. CASE frame = "close" /\ s.state = "closing" /\ ~s.clean
  <2> DEFINE clean == [s EXCEPT !.clean = TRUE]
  <2>1. r = IF s.server THEN Terminate(clean, "none") ELSE clean
    BY <1>7 DEF ProcessControlFrame
  <2>2. clean \in Connections /\ Kept(s, clean, {"clean"})
    BY <1>2 DEF Connections, Kept, Fields
  <2> HIDE DEF clean
  <2>3. Kept(s, clean, {"istate", "status", "clean", "reading", "cancelled", "handshake", "timer"})
    BY <2>2 DEF Kept
  <2>4. /\ clean.timer = s.timer /\ clean.state = s.state /\ clean.ops = s.ops
        /\ clean.posted = s.posted
    BY <2>2 DEF Kept, Fields
  <2>5. Base(clean, u)
    BY <2>2, <2>3, <2>4, Unconcerned
  <2>6. Onward(s, clean, u)
    BY <1>7, <2>4, <2>5 DEF Onward
  <2>7. Onward(clean, Terminate(clean, "none"), u)
    BY <2>5, Ends
  <2> QED
    BY <2>1, <2>6, <2>7, OnwardFurther
<1>8. CASE /\ s.state # "closed" /\ frame \notin {"ping", "pong", "badclose"}
           /\ ~(frame = "close" /\ (s.state = "open" \/ (s.state = "closing" /\ ~s.clean)))
  BY <1>1, <1>8 DEF ProcessControlFrame
<1> QED
  BY <1>2, <1>3, <1>4, <1>5, <1>6, <1>7, <1>8

LEMMA FrameProcessed ==
  ASSUME NEW s, NEW u, NEW frame \in FrameKinds, NEW reply, Base(s, u), s.state # "connecting"
  PROVE  Onward(s, ProcessFrame(s, frame, reply), u)
<1>1. Onward(s, s, u)
  BY DEF Onward
<1>2. CASE frame = "data"
  <2>1. ProcessFrame(s, frame, reply) = IF s.state = "open" THEN Reply(s, reply) ELSE s
    BY <1>2 DEF ProcessFrame
  <2> QED
    BY <2>1, <1>1, Replies
<1>3. CASE frame = "garbage"
  <2>1. ProcessFrame(s, frame, reply) = IF s.state = "open" THEN SendCloseFrame(s, FALSE, TRUE)
                                        ELSE Terminate(s, "error")
    BY <1>3 DEF ProcessFrame, Close
  <2> QED
    BY <2>1, SendsClose, Ends
<1>4. CASE frame \notin {"data", "garbage"}
  <2>1. ProcessFrame(s, frame, reply) = ProcessControlFrame(s, frame)
    BY <1>4 DEF ProcessFrame
  <2> QED
    BY <2>1, ControlFrameProcessed
<1> QED
  BY <1>2, <1>3, <1>4

TwoFrames == {<<>>} \cup {<<f>> : f \in FrameKinds} \cup {<<f, g>> : f, g \in FrameKinds}

LEMMA FramesProcessed ==
  ASSUME NEW s, NEW u, NEW chunk \in TwoFrames, NEW reply, Base(s, u), s.state # "connecting"
  PROVE  Onward(s, ProcessFrames(s, chunk, reply), u)
<1>1. CASE chunk = <<>>
  BY <1>1 DEF ProcessFrames, Onward
<1>2. ASSUME NEW f \in FrameKinds, chunk = <<f>>
      PROVE  Onward(s, ProcessFrames(s, chunk, reply), u)
  <2>1. ProcessFrames(s, chunk, reply) = ProcessFrame(s, f, reply)
    BY <1>2 DEF ProcessFrames
  <2> QED
    BY <2>1, FrameProcessed
<1>3. ASSUME NEW f \in FrameKinds, NEW g \in FrameKinds, chunk = <<f, g>>
      PROVE  Onward(s, ProcessFrames(s, chunk, reply), u)
  <2> DEFINE q == ProcessFrame(s, f, reply)
  <2>1. ProcessFrames(s, chunk, reply) = IF f = "garbage" THEN q ELSE ProcessFrame(q, g, reply)
    BY <1>3 DEF ProcessFrames
  <2>2. Onward(s, q, u)
    BY FrameProcessed
  <2> HIDE DEF q
  <2>3. Onward(q, ProcessFrame(q, g, reply), u)
    BY <2>2, FrameProcessed DEF Onward
  <2> QED
    BY <2>1, <2>2, <2>3, OnwardFurther
<1> QED
  BY <1>1, <1>2, <1>3 DEF TwoFrames

\* One more read may be under way.
Room(s, u) == s.ops["read_frame"] + 1 <= IF "resume" \in u.todo \/ s.posted.resume THEN 1 ELSE 2

LEMMA ReadAsked ==
  ASSUME NEW s, NEW u, Base(s, u), s.state # "connecting", Room(s, u)
  PROVE  Base(ReadFrame(s), u) /\ ReadFrame(s).state # "connecting"
<1> DEFINE r == Ask(s, "read_frame")
<1>1. s \in Connections /\ u \in Users /\ "read_frame" \in Ops
  BY DEF Base, Core, Ops
<1>2. /\ r \in Connections /\ Kept(s, r, {"ops"})
      /\ r.ops = [s.ops EXCEPT !["read_frame"] = @ + 1]
  BY <1>1, AskEffect
<1>3. ReadFrame(s) = IF s.reading THEN r ELSE s
  BY DEF ReadFrame
<1> HIDE DEF r
<1>4. /\ r.calls = s.calls /\ r.current = s.current /\ r.stops = s.stops
      /\ r.writing = s.writing /\ r.wire = s.wire /\ r.state = s.state /\ r.http = s.http
      /\ r.ec = s.ec /\ r.posted = s.posted /\ r.queue = s.queue /\ r.timer = s.timer
  BY <1>2 DEF Kept, Fields
<1>5. s.ops \in [Ops -> Nat]
  BY <1>1 DEF Connections
<1>6. /\ r.ops["read_frame"] = s.ops["read_frame"] + 1
      /\ \A op \in Ops \ {"read_frame"} : r.ops[op] = s.ops[op]
  BY <1>1, <1>2, <1>5
<1>7. Due(r, "failed") = Due(s, "failed") /\ Due(r, "closed") = Due(s, "closed")
  BY <1>4 DEF Due
<1>8. TellInv(r, u)
  BY <1>4, <1>7 DEF Base, Core, TellInv
<1>9. InTurn(r)
  BY <1>6 DEF Base, Core, InTurn, Handshakes
<1>10. WriteInv(r)
  BY <1>4, <1>6 DEF Base, Core, WriteInv, Ops
<1>11. ReadInv(r, u)
  BY <1>4, <1>6 DEF Base, Core, ReadInv, Room
<1>12. QueueInv(r, u) /\ UserInv(r, u) /\ HttpInv(r)
  BY <1>4 DEF Base, Core, QueueInv, UserInv, HttpInv
<1>13. ClosingInv(r)
  BY <1>4 DEF Base, ClosingInv, Pending
<1> QED
  BY <1>1, <1>2, <1>3, <1>4, <1>8, <1>9, <1>10, <1>11, <1>12, <1>13 DEF Base, Core

LEMMA FramesRead ==
  ASSUME NEW s, NEW u, NEW chunk \in TwoFrames, NEW reply, NEW result,
         Base(s, u), s.state # "connecting", Room(s, u)
  PROVE  /\ Base(HandleReadFrame(s, result, chunk, reply), u)
         /\ HandleReadFrame(s, result, chunk, reply).state # "connecting"
<1> DEFINE end == ProcessFrames(s, chunk, reply)
           e == IF result = "eof" /\ s.state = "closing" /\ ~s.server THEN "none" ELSE "error"
<1>1. Onward(s, end, u)
  BY FramesProcessed
<1>2. e \in {"none", "error"}
  OBVIOUS
<1>3. HandleReadFrame(s, result, chunk, reply)
        \in {end, ReadFrame(end), s, Terminate(s, e)}
  BY DEF HandleReadFrame
<1> HIDE DEF end, e
<1>4. Room(end, u)
  BY <1>1 DEF Onward, Room
<1>5. Base(ReadFrame(end), u) /\ ReadFrame(end).state # "connecting"
  BY <1>1, <1>4, ReadAsked DEF Onward
<1>6. Base(Terminate(s, e), u) /\ Terminate(s, e).state # "connecting"
  BY <1>2, Ends DEF Onward
<1> QED
  BY <1>1, <1>3, <1>5, <1>6 DEF Onward

\* A connection that may be opened: nothing has been read, queued or told yet, except
\* that the negotiation of an extension may have failed.
Openable(s, u) ==
  /\ Core(s, u) /\ HttpInv(s) /\ s.http # "deferred"
  /\ s.queue = <<>> /\ ~s.wire.closed
  /\ s.ops["read_frame"] = 0 /\ ~s.posted.resume
  /\ s.calls.open = 0 /\ s.calls.close = 0 /\ Due(s, "closed") = 0
  /\ s.calls.fail + Due(s, "failed") > 0 => "extension" \in u.faults

LEMMA OpensWell ==
  ASSUME NEW s, NEW u, NEW chunk \in TwoFrames, NEW reply, Openable(s, u)
  PROVE  Base(Opened(s, chunk, reply), u) /\ Opened(s, chunk, reply).state # "connecting"
<1> DEFINE calls == [s.calls EXCEPT !.open = @ + 1]
           open == [s EXCEPT !.istate = "PROCESS_CONNECTION", !.state = "open", !.calls = calls]
           r == Reply(open, reply)
<1>1. s \in Connections /\ u \in Users
  BY DEF Openable, Core
<1>2. Opened(s, chunk, reply) = HandleReadFrame(r, "ok", chunk, reply)
  BY <1>1 DEF Opened, Connections
<1>3. /\ calls \in [open : Nat, fail : Nat, close : Nat]
      /\ calls.open = 1 /\ calls.fail = s.calls.fail /\ calls.close = 0
  <2>1. s.calls \in [open : Nat, fail : Nat, close : Nat]
    BY <1>1 DEF Connections
  <2> QED
    BY <2>1 DEF Openable
<1> HIDE DEF calls
<1>4. open \in Connections /\ open.calls = calls /\ open.state = "open"
  BY <1>1, <1>3 DEF Connections, States
<1>5. Kept(s, open, {"istate", "state", "calls"})
  BY <1>1 DEF Connections, Kept, Fields
<1> HIDE DEF open
<1>6. /\ open.ops = s.ops /\ open.current = s.current /\ open.stops = s.stops
      /\ open.writing = s.writing /\ open.wire = s.wire /\ open.http = s.http
      /\ open.ec = s.ec /\ open.posted = s.posted /\ open.queue = s.queue
  BY <1>5 DEF Kept, Fields
<1>7. Due(open, "failed") = Due(s, "failed") /\ Due(open, "closed") = Due(s, "closed")
  BY <1>6 DEF Due
<1>8. TellInv(open, u)
  <2>1. Due(s, "failed") \in Nat /\ Crossed(u) \in {0, 1}
    BY <1>1, DueFinite DEF Crossed
  <2>2. s.calls.fail + Due(s, "failed") <= 1 /\ s.calls.fail \in Nat
    BY <1>1 DEF Openable, Core, TellInv, Connections
  <2> QED
    BY <2>1, <2>2, <1>3, <1>4, <1>7 DEF TellInv, Openable
<1>9. InTurn(open) /\ WriteInv(open)
  BY <1>6 DEF Openable, Core, InTurn, WriteInv
<1>10. ReadInv(open, u) /\ Room(open, u)
  BY <1>4, <1>6 DEF Openable, Core, ReadInv, Room
<1>11. QueueInv(open, u)
  BY <1>4, <1>6 DEF Openable, Core, QueueInv
<1>12. HttpInv(open) /\ ClosingInv(open)
  BY <1>4, <1>6 DEF Openable, HttpInv, ClosingInv
<1>13. UserInv(open, u)
  BY <1>4 DEF Openable, Core, UserInv
<1>14. Base(open, u)
  BY <1>1, <1>4, <1>8, <1>9, <1>10, <1>11, <1>12, <1>13 DEF Base, Core
<1>15. Onward(open, r, u)
  BY <1>4, <1>14, Replies
<1> HIDE DEF r
<1>16. Room(r, u)
  BY <1>10, <1>15 DEF Onward, Room
<1> QED
  BY <1>2, <1>15, <1>16, FramesRead DEF Onward

-----------------------------------------------------------------------------
(***************************************************************************)
(* The opening handshake                                                   *)
(***************************************************************************)

\* A handler is done.
Done(r, u) == Base(r, u) /\ PhaseInv(r)

HandshakeTimers == {"dns", "connect", "proxy", "post", "open"}

LEMMA TimersOfHandshakes ==
  /\ HandshakeTimers \subseteq Timers /\ HandshakeTimers \cap CloseTimers = {}
  /\ Handshakes \subseteq Ops
  /\ \A op \in Handshakes : TimerOf(op) \in HandshakeTimers
BY DEF HandshakeTimers, Timers, CloseTimers, Handshakes, Ops, TimerOf

\* When the handshake is over nothing need watch over it.
LEMMA OverDone ==
  ASSUME NEW r, NEW u, Base(r, u), r.state # "connecting"
  PROVE  Done(r, u)
BY DEF Done, PhaseInv

LEMMA FailureDone ==
  ASSUME NEW s, NEW u, Base(s, u)
  PROVE  Done(Terminate(s, "error"), u)
<1>1. Onward(s, Terminate(s, "error"), u)
  BY Ends
<1> QED
  BY <1>1, OverDone DEF Onward

\* What a handler of the handshake's operation op finds: none is under way any more,
\* and the timer that watched over this one.
Ready(s, u, op) ==
  /\ Base(s, u) /\ Idle(s)
  /\ s.state = "connecting" =>
       /\ s.http # "deferred"
       /\ s.http = "written" => op = "send_response"
       /\ s.http # "written" => Pending(s, TimerOf(op))

\* It may go on with an operation that the same timer watches over, ...
LEMMA Armed ==
  ASSUME NEW s, NEW u, NEW op \in Handshakes, Ready(s, u, op)
  PROVE  Done(Ask(s, op), u)
<1> DEFINE r == Ask(s, op)
<1>1. s \in Connections /\ u \in Users /\ op \in Ops
  BY TimersOfHandshakes DEF Ready, Base, Core
<1>2. r \in Connections /\ Kept(s, r, {"ops"}) /\ r.ops = [s.ops EXCEPT ![op] = @ + 1]
  BY <1>1, AskEffect
<1> HIDE DEF r
<1>3. /\ r.calls = s.calls /\ r.current = s.current /\ r.stops = s.stops
      /\ r.writing = s.writing /\ r.wire = s.wire /\ r.state = s.state /\ r.http = s.http
      /\ r.ec = s.ec /\ r.posted = s.posted /\ r.queue = s.queue /\ r.timer = s.timer
  BY <1>2 DEF Kept, Fields
<1>4. s.ops \in [Ops -> Nat]
  BY <1>1 DEF Connections
<1>5. r.ops[op] = s.ops[op] + 1 /\ \A p \in Ops \ {op} : r.ops[p] = s.ops[p]
  BY <1>1, <1>2, <1>4
<1>6. r.ops[op] = 1 /\ \A p \in Handshakes \ {op} : r.ops[p] = 0
  BY <1>5, TimersOfHandshakes DEF Ready, Idle
<1>7. "read_frame" \in Ops \ {op} /\ "write_frame" \in Ops \ {op}
  BY DEF Ops, Handshakes
<1>8. Due(r, "failed") = Due(s, "failed") /\ Due(r, "closed") = Due(s, "closed")
  BY <1>3 DEF Due
<1>9. TellInv(r, u)
  BY <1>3, <1>8 DEF Ready, Base, Core, TellInv
<1>10. InTurn(r)
  <2>1. \A p \in Handshakes : r.ops[p] <= 1
    BY <1>6
  <2>2. ASSUME NEW p \in Handshakes, r.ops[p] > 0 PROVE p = op
    BY <1>6, <2>2
  <2> QED
    BY <2>1, <2>2 DEF InTurn
<1>11. WriteInv(r) /\ ReadInv(r, u)
  BY <1>3, <1>5, <1>7 DEF Ready, Base, Core, WriteInv, ReadInv
<1>12. QueueInv(r, u) /\ UserInv(r, u) /\ HttpInv(r) /\ ClosingInv(r)
  BY <1>3 DEF Ready, Base, Core, QueueInv, UserInv, HttpInv, ClosingInv, Pending
<1>13. Base(r, u)
  BY <1>1, <1>2, <1>9, <1>10, <1>11, <1>12 DEF Base, Core
<1>14. PhaseInv(r)
  <2>1. \A p \in Handshakes : r.ops[p] > 0 => TimerOf(p) = TimerOf(op)
    <3>1. ASSUME NEW p \in Handshakes, r.ops[p] > 0 PROVE p = op
      BY <1>6, <3>1
    <3> QED
      BY <3>1
  <2>2. TimerOf(op) \in {"dns", "connect", "proxy", "post", "open"}
    BY TimersOfHandshakes DEF HandshakeTimers
  <2>3. ASSUME s.state = "connecting", s.http # "written" PROVE Pending(r, TimerOf(op))
    BY <2>3, <1>3 DEF Ready, Pending
  <2>4. ASSUME s.state = "connecting" PROVE s.http # "deferred" /\ (s.http = "written" => r.ops["send_response"] = 1)
    BY <2>4, <1>6 DEF Ready
  <2> QED
    BY <1>3, <2>1, <2>2, <2>3, <2>4 DEF PhaseInv
<1> QED
  BY <1>13, <1>14 DEF Done, r

\* ... or leave the rest to the timer.
LEMMA LeftToTimer ==
  ASSUME NEW s, NEW u, NEW op \in Handshakes, op # "send_response", Ready(s, u, op)
  PROVE  Done(s, u)
<1>1. TimerOf(op) \in {"dns", "connect", "proxy", "post", "open"}
  BY TimersOfHandshakes DEF HandshakeTimers
<1>2. s.state = "connecting" => s.http \notin {"deferred", "written"} /\ Pending(s, TimerOf(op))
  BY DEF Ready
<1>3. Base(s, u) /\ \A p \in Handshakes : ~(s.ops[p] > 0)
  BY DEF Ready, Idle
<1> QED
  BY <1>1, <1>2, <1>3 DEF Done, PhaseInv

\* Nothing of the handshake is under way, and no response.
Free(s, u) ==
  /\ Base(s, u) /\ Idle(s)
  /\ s.state = "connecting" => s.http \notin {"deferred", "written"}

LEMMA ReadyFree ==
  ASSUME NEW s, NEW u, NEW op \in Handshakes, op # "send_response", Ready(s, u, op)
  PROVE  Free(s, u)
BY DEF Ready, Free

LEMMA FreeKept ==
  ASSUME NEW s, NEW u, Free(s, u), NEW r \in Connections,
         Kept(s, r, {"istate", "handshake", "timer"}),
         \A t \in CloseTimers : r.timer[t] = s.timer[t]
  PROVE  Free(r, u)
<1>1. Kept(s, r, {"istate", "status", "clean", "reading", "cancelled", "handshake", "timer"})
  BY DEF Kept
<1>2. Base(r, u)
  BY <1>1, Unconcerned DEF Free
<1>3. r.ops = s.ops /\ r.state = s.state /\ r.http = s.http
  BY DEF Kept, Fields
<1> QED
  BY <1>2, <1>3 DEF Free, Idle

LEMMA CancelFree ==
  ASSUME NEW s, NEW u, Free(s, u), NEW t \in HandshakeTimers
  PROVE  Free(Cancel(s, t), u)
<1> DEFINE r == Cancel(s, t)
<1>1. s \in Connections
  BY DEF Free, Base, Core
<1>2. t \in Timers /\ CloseTimers \subseteq Timers \ {t}
  BY DEF HandshakeTimers, CloseTimers, Timers
<1>3. r \in Connections /\ Kept(s, r, {"timer"}) /\ \A c \in CloseTimers : r.timer[c] = s.timer[c]
  BY <1>1, <1>2, CancelEffect
<1> HIDE DEF r
<1>4. Kept(s, r, {"istate", "handshake", "timer"})
  BY <1>3 DEF Kept
<1> QED
  BY <1>3, <1>4, FreeKept DEF r

\* An operation is started with its timer.
LEMMA Watched ==
  ASSUME NEW s, NEW u, Free(s, u), NEW op \in Handshakes, NEW q \in Connections,
         Kept(s, q, {"istate", "handshake", "timer"}),
         q.timer = [s.timer EXCEPT ![TimerOf(op)] = "set"]
  PROVE  Done(Ask(q, op), u)
<1>1. s \in Connections
  BY DEF Free, Base, Core
<1>2. /\ TimerOf(op) \in HandshakeTimers /\ TimerOf(op) \in Timers
      /\ CloseTimers \subseteq Timers \ {TimerOf(op)}
  BY TimersOfHandshakes, SMT DEF HandshakeTimers, CloseTimers, Timers
<1>3. s.timer \in TimerStates
  BY <1>1 DEF Connections
<1>4. \A c \in CloseTimers : q.timer[c] = s.timer[c]
  BY <1>2, <1>3 DEF TimerStates
<1>5. Free(q, u)
  BY <1>4, FreeKept
<1>6. Pending(q, TimerOf(op))
  BY <1>2, <1>3 DEF TimerStates, Pending
<1>7. Ready(q, u, op)
  BY <1>5, <1>6 DEF Free, Ready
<1> QED
  BY <1>7, Armed

LEMMA SetWatches ==
  ASSUME NEW s, NEW u, Free(s, u), NEW op \in Handshakes
  PROVE  Done(Ask(Set(s, TimerOf(op)), op), u)
<1> DEFINE q == Set(s, TimerOf(op))
<1>1. s \in Connections /\ TimerOf(op) \in Timers
  BY TimersOfHandshakes DEF Free, Base, Core
<1>2. q \in Connections /\ Kept(s, q, {"timer"}) /\ q.timer = [s.timer EXCEPT ![TimerOf(op)] = "set"]
  BY <1>1, SetEffect
<1> HIDE DEF q
<1>3. Kept(s, q, {"istate", "handshake", "timer"})
  BY <1>2 DEF Kept
<1> QED
  BY <1>2, <1>3, Watched DEF q

IStates == {"USER_INIT", "TRANSPORT_INIT", "READ_HTTP_REQUEST", "WRITE_HTTP_REQUEST",
            "READ_HTTP_RESPONSE", "PROCESS_HTTP_REQUEST", "PROCESS_CONNECTION"}

LEMMA IStateEffect ==
  ASSUME NEW s \in Connections, NEW i \in IStates
  PROVE  /\ [s EXCEPT !.istate = i] \in Connections
         /\ Kept(s, [s EXCEPT !.istate = i], {"istate"})
         /\ [s EXCEPT !.istate = i].timer = s.timer
<1>1. [s EXCEPT !.istate = i] \in Connections
  BY DEF Connections, IStates
<1>2. Kept(s, [s EXCEPT !.istate = i], {"istate"})
  BY DEF Connections, Kept, Fields
<1>3. [s EXCEPT !.istate = i].timer = s.timer
  BY <1>2 DEF Kept, Fields
<1> QED
  BY <1>1, <1>2, <1>3

LEMMA HandshakeStarts ==
  ASSUME NEW s, NEW u, Free(s, u)
  PROVE  Done(SendHttpRequest(s), u) /\ Done(ReadHandshake(s), u)
<1>1. s \in Connections
  BY DEF Free, Base, Core
<1>2. ASSUME NEW i \in IStates, NEW op \in Handshakes, TimerOf(op) = "open"
      PROVE  Done(Ask(SetHandshake([s EXCEPT !.istate = i], "open"), op), u)
  <2> DEFINE c == [s EXCEPT !.istate = i]
             q == SetHandshake(c, "open")
  <2>1. c \in Connections /\ Kept(s, c, {"istate"}) /\ c.timer = s.timer
    BY <1>1, IStateEffect
  <2> HIDE DEF c
  <2>2. /\ q \in Connections /\ Kept(c, q, {"timer", "handshake"})
        /\ q.timer = [c.timer EXCEPT !["open"] = "set"]
    BY <2>1, SetHandshakeEffect
  <2> HIDE DEF q
  <2>3. Kept(s, q, {"istate", "handshake", "timer"})
    BY <2>1, <2>2 DEF Kept
  <2>4. q.timer = [s.timer EXCEPT ![TimerOf(op)] = "set"]
    BY <1>2, <2>1, <2>2
  <2> QED
    BY <2>2, <2>3, <2>4, Watched DEF q, c
<1>3. /\ {"send_request", "read_request"} \subseteq Handshakes
      /\ {"READ_HTTP_REQUEST", "WRITE_HTTP_REQUEST"} \subseteq IStates
      /\ TimerOf("send_request") = "open" /\ TimerOf("read_request") = "open"
  BY DEF Handshakes, Ops, TimerOf, IStates
<1> QED
  BY <1>2, <1>3 DEF SendHttpRequest, ReadHandshake

LEMMA TransportInitDone ==
  ASSUME NEW s, NEW u, Free(s, u), NEW ok \in BOOLEAN
  PROVE  Done(HandleTransportInit(s, ok), u)
<1>1. Base(s, u)
  BY DEF Free
<1>2. HandleTransportInit(s, ok) \in {Terminate(s, "error"), ReadHandshake(s), SendHttpRequest(s)}
  BY DEF HandleTransportInit
<1> QED
  BY <1>1, <1>2, FailureDone, HandshakeStarts

LEMMA PreInitDone ==
  ASSUME NEW s, NEW u, Free(s, u)
  PROVE  Done(PostInit(s), u) /\ Done(ProxyWrite(s), u) /\ Done(HandlePreInit(s), u)
<1>1. /\ {"tls", "proxy_write"} \subseteq Handshakes
      /\ TimerOf("tls") = "post" /\ TimerOf("proxy_write") = "proxy"
  BY DEF Handshakes, Ops, TimerOf
<1>2. Done(Ask(Set(s, "post"), "tls"), u) /\ Done(Ask(Set(s, "proxy"), "proxy_write"), u)
  BY <1>1, SetWatches
<1> QED
  BY <1>2 DEF PostInit, ProxyWrite, HandlePreInit

LEMMA Started ==
  ASSUME NEW s, NEW u, Free(s, u)
  PROVE  Done(Start(s), u)
<1> DEFINE c == [s EXCEPT !.istate = "TRANSPORT_INIT"]
<1>1. s \in Connections /\ Base(s, u)
  BY DEF Free, Base, Core
<1>2. c \in Connections /\ Kept(s, c, {"istate"}) /\ c.timer = s.timer
  BY <1>1, IStateEffect DEF IStates
<1>3. Start(s) = IF s.istate # "USER_INIT" THEN Terminate(s, "error") ELSE HandlePreInit(c)
  BY DEF Start
<1> HIDE DEF c
<1>4. Kept(s, c, {"istate", "handshake", "timer"})
  BY <1>2 DEF Kept
<1>5. Free(c, u)
  BY <1>2, <1>4, FreeKept
<1> QED
  BY <1>1, <1>3, <1>5, FailureDone, PreInitDone

LEMMA ConnectedDone ==
  ASSUME NEW s, NEW u, Free(s, u), NEW ok \in BOOLEAN
  PROVE  Done(HandleConnected(s, ok), u)
<1>1. Base(s, u)
  BY DEF Free
<1> QED
  BY <1>1, Started, FailureDone DEF HandleConnected

\* The operations up to the TLS handshake.
LEMMA TransportDone ==
  ASSUME NEW s, NEW u, NEW result, NEW answer
  PROVE  /\ Ready(s, u, "resolve") => Done(HandleResolve(s, result), u)
         /\ Ready(s, u, "connect") => Done(HandleConnect(s, result), u)
         /\ Ready(s, u, "proxy_write") => Done(HandleProxyWrite(s, result), u)
         /\ Ready(s, u, "proxy_read") => Done(HandleProxyRead(s, result, answer), u)
         /\ Ready(s, u, "tls") => Done(HandlePostInit(s, result), u)
<1>1. /\ {"resolve", "connect", "proxy_write", "proxy_read", "tls"} \subseteq Handshakes
      /\ "send_response" \notin {"resolve", "connect", "proxy_write", "proxy_read", "tls"}
      /\ {"dns", "connect", "proxy", "post"} \subseteq HandshakeTimers
      /\ TimerOf("proxy_write") = TimerOf("proxy_read") /\ TimerOf("connect") = "connect"
  BY DEF Handshakes, Ops, HandshakeTimers, TimerOf
<1>2. ASSUME NEW op \in {"resolve", "connect", "proxy_write", "proxy_read", "tls"}, Ready(s, u, op)
      PROVE  Done(s, u) /\ \A t \in {"dns", "connect", "proxy", "post"} : Free(Cancel(s, t), u)
  BY <1>1, <1>2, LeftToTimer, ReadyFree, CancelFree
<1>3. ASSUME Ready(s, u, "resolve") PROVE Done(HandleResolve(s, result), u)
  <2> DEFINE q == Cancel(s, "dns")
  <2>1. Done(s, u) /\ Free(q, u)
    BY <1>2, <1>3
  <2>2. HandleResolve(s, result) \in
          {s, Ask(Set(q, "connect"), "connect"), HandleConnected(q, FALSE)}
    BY DEF HandleResolve, Timed
  <2> HIDE DEF q
  <2>3. Done(Ask(Set(q, "connect"), "connect"), u)
    BY <1>1, <2>1, SetWatches
  <2> QED
    BY <2>1, <2>2, <2>3, ConnectedDone
<1>4. ASSUME Ready(s, u, "connect") PROVE Done(HandleConnect(s, result), u)
  <2> DEFINE q == Cancel(s, "connect")
  <2>1. Done(s, u) /\ Free(q, u)
    BY <1>2, <1>4
  <2>2. HandleConnect(s, result) \in {s, HandleConnected(q, TRUE), HandleConnected(q, FALSE)}
    BY DEF HandleConnect, Timed
  <2> HIDE DEF q
  <2> QED
    BY <2>1, <2>2, ConnectedDone
<1>5. ASSUME Ready(s, u, "proxy_write") PROVE Done(HandleProxyWrite(s, result), u)
  <2> DEFINE q == Cancel(s, "proxy")
  <2>1. Done(s, u) /\ Free(q, u)
    BY <1>2, <1>5
  <2>2. HandleProxyWrite(s, result) \in
          {s, Ask(s, "proxy_read"), HandleTransportInit(q, FALSE)}
    BY DEF HandleProxyWrite, Timed, ProxyRead
  <2> HIDE DEF q
  <2>3. Ready(s, u, "proxy_read")
    BY <1>1, <1>5 DEF Ready
  <2>4. Done(Ask(s, "proxy_read"), u)
    BY <1>1, <2>3, Armed
  <2> QED
    BY <2>1, <2>2, <2>4, TransportInitDone
<1>6. ASSUME Ready(s, u, "proxy_read") PROVE Done(HandleProxyRead(s, result, answer), u)
  <2> DEFINE q == Cancel(s, "proxy")
  <2>1. Done(s, u) /\ Free(q, u)
    BY <1>2, <1>6
  <2>2. HandleProxyRead(s, result, answer) \in {s, PostInit(q), HandleTransportInit(q, FALSE)}
    BY DEF HandleProxyRead, Timed
  <2> HIDE DEF q
  <2> QED
    BY <2>1, <2>2, PreInitDone, TransportInitDone
<1>7. ASSUME Ready(s, u, "tls") PROVE Done(HandlePostInit(s, result), u)
  <2> DEFINE q == Cancel(s, "post")
  <2>1. Done(s, u) /\ Free(q, u)
    BY <1>2, <1>7
  <2>2. HandlePostInit(s, result) \in
          {s, HandleTransportInit(q, TRUE), HandleTransportInit(q, FALSE)}
    BY DEF HandlePostInit, Timed
  <2> HIDE DEF q
  <2> QED
    BY <2>1, <2>2, TransportInitDone
<1> QED
  BY <1>3, <1>4, <1>5, <1>6, <1>7

-----------------------------------------------------------------------------
(***************************************************************************)
(* The http part of the opening handshake                                  *)
(***************************************************************************)

\* What a handler may change as long as the handshake lasts.
LEMMA StillConnecting ==
  ASSUME NEW s, NEW u, Base(s, u), s.state = "connecting", NEW r \in Connections,
         Kept(s, r, {"istate", "ec", "http", "status", "handshake", "timer"}),
         r.http # "closed", r.ec # "http_connection_ended"
  PROVE  Base(r, u)
<1>1. /\ r.calls = s.calls /\ r.ops = s.ops /\ r.current = s.current /\ r.stops = s.stops
      /\ r.writing = s.writing /\ r.wire = s.wire /\ r.state = s.state
      /\ r.posted = s.posted /\ r.queue = s.queue
  BY DEF Kept, Fields
<1>2. Due(r, "failed") = Due(s, "failed") /\ Due(r, "closed") = Due(s, "closed")
  BY <1>1 DEF Due
<1>3. TellInv(r, u)
  BY <1>1, <1>2 DEF Base, Core, TellInv
<1>4. InTurn(r) /\ WriteInv(r) /\ ReadInv(r, u) /\ QueueInv(r, u) /\ UserInv(r, u)
  BY <1>1 DEF Base, Core, InTurn, WriteInv, ReadInv, QueueInv, UserInv
<1>5. HttpInv(r) /\ ClosingInv(r)
  BY <1>1 DEF HttpInv, ClosingInv
<1> QED
  BY <1>3, <1>4, <1>5 DEF Base, Core

LEMMA SendRequestDone ==
  ASSUME NEW s, NEW u, NEW result, Ready(s, u, "send_request")
  PROVE  Done(HandleSendHttpRequest(s, result), u)
<1> DEFINE c == [s EXCEPT !.istate = "READ_HTTP_RESPONSE"]
<1>1. /\ {"send_request", "read_response"} \subseteq Handshakes
      /\ TimerOf("send_request") = TimerOf("read_response")
  BY DEF Handshakes, Ops, TimerOf
<1>2. s \in Connections /\ Base(s, u) /\ Done(s, u)
  BY <1>1, LeftToTimer DEF Ready, Base, Core
<1>3. HandleSendHttpRequest(s, result) \in {s, Ask(c, "read_response"), Terminate(s, "error")}
  <2>1. CASE Over(s, result)
    BY <2>1 DEF HandleSendHttpRequest, Expected, Over
  <2>2. CASE ~Over(s, result) /\ result = "ok" /\ Expected(s, "WRITE_HTTP_REQUEST")
    BY <2>2 DEF HandleSendHttpRequest
  <2>3. CASE ~Over(s, result) /\ ~(result = "ok" /\ Expected(s, "WRITE_HTTP_REQUEST"))
    BY <2>3 DEF HandleSendHttpRequest
  <2> QED
    BY <2>1, <2>2, <2>3
<1>4. c \in Connections /\ Kept(s, c, {"istate"}) /\ c.timer = s.timer
  BY <1>2, IStateEffect DEF IStates
<1> HIDE DEF c
<1>5. Kept(s, c, {"istate", "handshake", "timer"})
  BY <1>4 DEF Kept
<1>6. Free(c, u)
  BY <1>1, <1>4, <1>5, FreeKept, ReadyFree
<1>7. c.state = s.state /\ c.http = s.http
  BY <1>4 DEF Kept, Fields
<1>8. Ready(c, u, "read_response")
  BY <1>1, <1>4, <1>6, <1>7 DEF Ready, Free, Pending
<1> QED
  BY <1>1, <1>2, <1>3, <1>8, Armed, FailureDone

\* A handshake that is done, with its timer cancelled, opens the connection.
LEMMA QuietOpenable ==
  ASSUME NEW s, NEW u, Base(s, u), s.state = "connecting", s.http # "deferred"
  PROVE  /\ Openable(CancelHandshake(s), u) /\ Core(CancelHandshake(s), u)
         /\ CancelHandshake(s).state = "connecting" /\ CancelHandshake(s).http = s.http
         /\ CancelHandshake(s).ec = s.ec /\ CancelHandshake(s).stops = <<>>
         /\ CancelHandshake(s).status = s.status
<1> DEFINE q == CancelHandshake(s)
<1>1. s \in Connections
  BY DEF Base, Core
<1>2. q \in Connections /\ Kept(s, q, {"timer", "handshake"})
  BY <1>1, CancelHandshakeEffect
<1> HIDE DEF q
<1>3. /\ q.calls = s.calls /\ q.ops = s.ops /\ q.stops = s.stops /\ q.wire = s.wire
      /\ q.state = s.state /\ q.http = s.http /\ q.ec = s.ec
      /\ q.posted = s.posted /\ q.queue = s.queue /\ q.status = s.status
  BY <1>2 DEF Kept, Fields
<1>4. Kept(s, q, {"istate", "ec", "status", "clean", "reading", "cancelled", "handshake", "timer"})
  BY <1>2 DEF Kept
<1>5. Core(q, u)
  BY <1>2, <1>4, CoreKept DEF Base
<1>6. q.stops = <<>> /\ q.calls.open = 0 /\ q.calls.fail = 0 /\ q.calls.close = 0
  BY <1>3 DEF Base, Core, TellInv
<1>7. Due(q, "failed") = 0 /\ Due(q, "closed") = 0
  BY <1>2, <1>6, DueFinite
<1>8. q.queue = <<>> /\ ~q.wire.closed /\ q.ops["read_frame"] = 0 /\ ~q.posted.resume
  BY <1>3 DEF Base, Core, QueueInv, ReadInv
<1>9. HttpInv(q) /\ q.http # "deferred"
  BY <1>3 DEF Base, HttpInv
<1>10. Openable(q, u)
  BY <1>5, <1>6, <1>7, <1>8, <1>9 DEF Openable
<1> QED
  BY <1>3, <1>5, <1>6, <1>10 DEF q

\* After a malformed extension header it is opened although it has ended.
LEMMA EndedOpenable ==
  ASSUME NEW q, NEW u, Openable(q, u), q.state = "connecting", q.stops = <<>>,
         "extension" \in u.faults
  PROVE  Openable(Terminate(q, "error"), u)
<1> DEFINE r == Terminate(q, "error")
<1>1. q \in Connections /\ "error" \in Errors
  BY DEF Openable, Core, Errors
<1>2. /\ r \in Connections /\ r.http = IF q.http = "none" THEN "none" ELSE "closed"
      /\ Kept(q, r, {"timer", "handshake", "ec", "http", "state", "stops"})
      /\ \E x \in Shutdowns : r.stops = Append(q.stops, x) /\ x.tstat = "failed"
  BY <1>1, TerminateEffect
<1>3. Base(r, u)
  BY <1>1, Terminated DEF Openable
<1> HIDE DEF r
<1>4. r.calls = q.calls /\ r.ops = q.ops /\ r.wire = q.wire /\ r.posted = q.posted /\ r.queue = q.queue
  BY <1>2 DEF Kept, Fields
<1>5. Due(r, "closed") = Due(q, "closed")
  <2>1. PICK x \in Shutdowns : r.stops = Append(q.stops, x) /\ x.tstat = "failed"
    BY <1>2
  <2>2. \A y : y # x.tstat => Due(r, y) = Due(q, y)
    BY <1>1, <1>2, <2>1, DueAppended, ZenonT(60)
  <2> QED
    BY <2>1, <2>2
<1> QED
  BY <1>2, <1>3, <1>4, <1>5 DEF Openable, Base, r

LEMMA OpenedDone ==
  ASSUME NEW s, NEW u, NEW chunk \in TwoFrames, NEW reply, Openable(s, u)
  PROVE  Done(Opened(s, chunk, reply), u)
BY OpensWell, OverDone

LEMMA ReadResponseDone ==
  ASSUME NEW s, NEW u, NEW result, NEW answer, NEW chunk \in TwoFrames, NEW reply,
         Ready(s, u, "read_response"), answer = "badextension" => "extension" \in u.faults
  PROVE  Done(HandleReadHttpResponse(s, result, answer, chunk, reply), u)
<1> DEFINE q == CancelHandshake(s)
           r == HandleReadHttpResponse(s, result, answer, chunk, reply)
<1>1. "read_response" \in Handshakes
  BY DEF Handshakes, Ops
<1>2. Base(s, u) /\ Done(s, u) /\ Done(Ask(s, "read_response"), u) /\ Done(Terminate(s, "error"), u)
  BY <1>1, LeftToTimer, Armed, FailureDone DEF Ready
<1>3. CASE Over(s, result) \/ result # "ok" \/ ~Expected(s, "READ_HTTP_RESPONSE")
  <2>1. r \in {s, Terminate(s, "error")}
    BY <1>3 DEF HandleReadHttpResponse
  <2> QED
    BY <2>1, <1>2
<1>4. CASE ~Over(s, result) /\ result = "ok" /\ Expected(s, "READ_HTTP_RESPONSE")
  <2>1. s.state = "connecting" /\ s.http # "deferred"
    BY <1>4 DEF Expected, Ready
  <2>2. Openable(q, u) /\ Core(q, u) /\ q.state = "connecting" /\ q.stops = <<>> /\ q.ec = s.ec
    BY <2>1, <1>2, QuietOpenable
  <2>3. Done(Terminate(q, "error"), u)
    <3>1. "error" \in Errors
      BY DEF Errors
    <3>2. Base(Terminate(q, "error"), u) /\ Terminate(q, "error").state = "closed"
      BY <2>2, <3>1, Terminated
    <3> QED
      BY <3>2, OverDone
  <2>4. Done(Opened(q, chunk, reply), u)
    BY <2>2, OpenedDone
  <2>5. answer = "badextension" => Done(Opened(Terminate(q, "error"), chunk, reply), u)
    BY <2>2, EndedOpenable, OpenedDone
  <2>6. \/ r \in {Ask(s, "read_response"), Terminate(s, "error"), Terminate(q, "error"),
                  Opened(q, chunk, reply)}
        \/ answer = "badextension" /\ r = Opened(Terminate(q, "error"), chunk, reply)
    BY <1>4 DEF HandleReadHttpResponse
  <2> HIDE DEF q, r
  <2>7. Done(r, u)
    BY <2>3, <2>4, <2>5, <2>6, <1>2
  <2> QED
    BY <2>7 DEF r
<1> QED
  BY <1>3, <1>4

\* A response is written as long as the timer of the handshake runs, or when it was
\* deferred.
LEMMA ResponseDone ==
  ASSUME NEW s, NEW u, NEW ec \in {"none", "error"},
         Base(s, u), Idle(s), s.state = "connecting", s.http # "deferred",
         s.http # "written" => Pending(s, "open")
  PROVE  Done(WriteHttpResponse(s, ec), u)
<1> DEFINE e == IF s.status = "unset" THEN "error" ELSE ec
           status == IF s.status = "unset" THEN "error" ELSE s.status
           c == [s EXCEPT !.ec = e, !.status = status]
<1>1. s \in Connections /\ "send_response" \in Handshakes /\ TimerOf("send_response") = "open"
  BY DEF Base, Core, Handshakes, Ops, TimerOf
<1>2. WriteHttpResponse(s, ec) = Ask(c, "send_response")
  BY <1>1 DEF WriteHttpResponse, Connections
<1>3. e \in {"none", "error"} /\ status \in {"error", "switching", "ok"}
  BY <1>1 DEF Connections
<1> HIDE DEF e, status
<1>4. c \in Connections /\ c.ec = e
  BY <1>1, <1>3, ZenonT(60) DEF Connections, Errors
<1>5. Kept(s, c, {"ec", "status"})
  BY <1>1 DEF Connections, Kept, Fields
<1> HIDE DEF c
<1>6. Kept(s, c, {"istate", "ec", "http", "status", "handshake", "timer"})
  BY <1>5 DEF Kept
<1>7. c.http = s.http /\ c.ops = s.ops /\ c.state = s.state /\ c.timer = s.timer
  BY <1>5 DEF Kept, Fields
<1>8. s.http # "closed"
  BY DEF Base, HttpInv
<1>9. Base(c, u)
  BY <1>3, <1>4, <1>6, <1>7, <1>8, StillConnecting
<1>10. Ready(c, u, "send_response")
  BY <1>1, <1>7, <1>9 DEF Ready, Idle, Pending
<1> QED
  BY <1>1, <1>2, <1>10, Armed

LEMMA HandshakeRequestDone ==
  ASSUME NEW s, NEW u, NEW request \in {"upgrade", "refused", "unhandled", "answered", "silent", "deferred"},
         Ready(s, u, "read_request"), s.state = "connecting"
  PROVE  Done(ProcessHandshakeRequest(s, request), u)
<1> DEFINE of(http, status) == [s EXCEPT !.istate = "PROCESS_HTTP_REQUEST", !.http = http, !.status = status]
<1>1. /\ s \in Connections /\ Base(s, u) /\ Idle(s) /\ TimerOf("read_request") = "open"
      /\ s.http \notin {"deferred", "written", "closed"} /\ Pending(s, "open")
      /\ s.ec # "http_connection_ended"
  <2>1. s.http # "closed" /\ s.ec # "http_connection_ended"
    BY DEF Ready, Base, HttpInv
  <2> QED
    BY <2>1 DEF Ready, Base, Core, TimerOf
<1>2. s.http \in {"none", "init"} /\ s.status \in {"unset", "error", "switching", "ok"}
  BY <1>1 DEF Connections
<1>3. ASSUME NEW http \in {"none", "init", "deferred"},
             NEW status \in {"unset", "error", "switching", "ok"}
      PROVE  LET c == of(http, status) IN
             /\ c \in Connections /\ Base(c, u) /\ Idle(c) /\ c.state = "connecting"
             /\ c.http = http /\ Pending(c, "open")
  <2> DEFINE c == of(http, status)
  <2>1. c \in Connections /\ c.http = http
    BY <1>1, <1>3 DEF Connections
  <2>2. Kept(s, c, {"istate", "http", "status"})
    BY <1>1 DEF Connections, Kept, Fields
  <2> HIDE DEF c
  <2>3. Kept(s, c, {"istate", "ec", "http", "status", "handshake", "timer"})
    BY <2>2 DEF Kept
  <2>4. c.ec = s.ec /\ c.ops = s.ops /\ c.state = s.state /\ c.timer = s.timer
    BY <2>2 DEF Kept, Fields
  <2>5. Base(c, u)
    BY <1>1, <1>3, <2>1, <2>3, <2>4, StillConnecting
  <2>6. Idle(c) /\ Pending(c, "open")
    BY <1>1, <2>4 DEF Idle, Pending
  <2> QED
    BY <2>1, <2>4, <2>5, <2>6 DEF c
<1>4. ASSUME NEW http \in {"none", "init"}, NEW ec \in {"none", "error"},
             NEW status \in {"unset", "error", "switching", "ok"}
      PROVE  Done(WriteHttpResponse(of(http, status), ec), u)
  <2> DEFINE c == of(http, status)
  <2>0. http \in {"none", "init", "deferred"}
    BY <1>4
  <2> HIDE DEF of
  <2>1. Base(c, u) /\ Idle(c) /\ c.state = "connecting" /\ c.http = http /\ Pending(c, "open")
    BY <2>0, <1>3, <1>4
  <2> HIDE DEF c
  <2>2. Done(WriteHttpResponse(c, ec), u)
    BY <2>1, ResponseDone
  <2> QED
    BY <2>2 DEF c
<1>5. CASE request = "upgrade"
  <2>1. ProcessHandshakeRequest(s, request) = WriteHttpResponse(of(s.http, "switching"), "none")
    BY <1>1, <1>5 DEF ProcessHandshakeRequest, Connections
  <2> QED
    BY <2>1, <1>2, <1>4
<1>6. CASE request \in {"refused", "unhandled"}
  <2>1. ProcessHandshakeRequest(s, request) = WriteHttpResponse(of(s.http, "error"), "error")
    BY <1>1, <1>6 DEF ProcessHandshakeRequest, Connections
  <2> QED
    BY <2>1, <1>2, <1>4
<1>7. CASE request = "answered"
  <2>1. ProcessHandshakeRequest(s, request) = WriteHttpResponse(of("init", "ok"), "none")
    BY <1>1, <1>7 DEF ProcessHandshakeRequest, Connections
  <2> QED
    BY <2>1, <1>4
<1>8. CASE request = "silent"
  <2>1. ProcessHandshakeRequest(s, request) = WriteHttpResponse(of("init", s.status), "none")
    BY <1>1, <1>8 DEF ProcessHandshakeRequest, Connections
  <2> QED
    BY <2>1, <1>2, <1>4
<1>9. CASE request = "deferred"
  <2> DEFINE c == of("init", "ok")
             q == CancelHandshake(c)
             r == [q EXCEPT !.http = "deferred"]
  <2>1. ProcessHandshakeRequest(s, request) = r
    BY <1>1, <1>9 DEF ProcessHandshakeRequest, DeferHttpResponse, Connections
  <2>2. /\ c \in Connections /\ Base(c, u) /\ Idle(c) /\ c.state = "connecting" /\ c.http = "init"
    BY <1>3
  <2> HIDE DEF c
  <2>3. q \in Connections /\ Kept(c, q, {"timer", "handshake"})
    BY <2>2, CancelHandshakeEffect
  <2> HIDE DEF q
  <2>4. r \in Connections /\ r.http = "deferred"
    BY <2>3 DEF Connections
  <2>5. Kept(q, r, {"http"})
    BY <2>3 DEF Connections, Kept, Fields
  <2> HIDE DEF r
  <2>6. Kept(c, r, {"istate", "ec", "http", "status", "handshake", "timer"})
    BY <2>3, <2>5 DEF Kept
  <2>7. c.ec # "http_connection_ended"
    BY <2>2 DEF Base, HttpInv
  <2>8. r.ec = c.ec /\ r.ops = c.ops /\ r.state = c.state
    BY <2>3, <2>5 DEF Kept, Fields
  <2>9. Base(r, u)
    BY <2>2, <2>4, <2>6, <2>7, <2>8, StillConnecting
  <2>10. PhaseInv(r)
    BY <2>2, <2>4, <2>8 DEF PhaseInv, Idle
  <2> QED
    BY <2>1, <2>9, <2>10 DEF Done
<1> QED
  BY <1>5, <1>6, <1>7, <1>8, <1>9

LEMMA ReadRequestDone ==
  ASSUME NEW s, NEW u, NEW result, NEW answer, Ready(s, u, "read_request"),
         result = "ok" => answer \in Requests
  PROVE  Done(HandleReadHandshake(s, result, answer), u)
<1> DEFINE r == HandleReadHandshake(s, result, answer)
<1>1. "read_request" \in Handshakes /\ TimerOf("read_request") = "open"
  BY DEF Handshakes, Ops, TimerOf
<1>2. /\ s \in Connections /\ Base(s, u) /\ Done(s, u)
      /\ Done(Ask(s, "read_request"), u) /\ Done(Terminate(s, "error"), u)
  BY <1>1, LeftToTimer, Armed, FailureDone DEF Ready, Base, Core
<1>3. CASE Over(s, result) \/ result # "ok" \/ ~Expected(s, "READ_HTTP_REQUEST")
  <2>1. r \in {s, Terminate(s, "error")}
    BY <1>3 DEF HandleReadHandshake
  <2> QED
    BY <2>1, <1>2
<1>4. CASE ~Over(s, result) /\ result = "ok" /\ Expected(s, "READ_HTTP_REQUEST")
  <2>0. s.state = "connecting" /\ s.istate = "READ_HTTP_REQUEST"
    BY <1>4 DEF Expected
  <2>1. CASE answer = "more"
    <3>1. r = Ask(s, "read_request")
      BY <1>4, <2>1 DEF HandleReadHandshake
    <3> QED
      BY <3>1, <1>2
  <2>2. CASE answer = "malformed"
    <3> DEFINE c == [s EXCEPT !.istate = "PROCESS_HTTP_REQUEST", !.status = "error"]
    <3>1. r = WriteHttpResponse(c, "error")
      BY <1>4, <2>0, <2>2 DEF HandleReadHandshake, WriteHttpResponseError
    <3>2. c \in Connections
      BY <1>2 DEF Connections
    <3>3. Kept(s, c, {"istate", "status"})
      BY <1>2 DEF Connections, Kept, Fields
    <3> HIDE DEF c
    <3>4. Kept(s, c, {"istate", "ec", "http", "status", "handshake", "timer"})
      BY <3>3 DEF Kept
    <3>5. c.http = s.http /\ c.ec = s.ec /\ c.ops = s.ops /\ c.state = s.state /\ c.timer = s.timer
      BY <3>3 DEF Kept, Fields
    <3>6. s.http # "closed" /\ s.ec # "http_connection_ended"
      BY <1>2, <2>0 DEF Base, HttpInv
    <3>7. Base(c, u)
      BY <1>2, <2>0, <3>2, <3>4, <3>5, <3>6, StillConnecting
    <3>8. Idle(c) /\ c.http # "deferred" /\ Pending(c, "open")
      BY <1>1, <2>0, <3>5 DEF Ready, Idle, Pending
    <3> QED
      BY <2>0, <3>1, <3>5, <3>7, <3>8, ResponseDone
  <2>3. CASE answer \notin {"more", "malformed"}
    <3>1. r = ProcessHandshakeRequest(s, answer)
      BY <1>4, <2>3 DEF HandleReadHandshake
    <3>2. answer \in {"upgrade", "refused", "unhandled", "answered", "silent", "deferred"}
      BY <1>4, <2>3 DEF Requests
    <3> QED
      BY <2>0, <3>1, <3>2, HandshakeRequestDone
  <2> QED
    BY <2>1, <2>2, <2>3
<1> QED
  BY <1>3, <1>4

LEMMA SendResponseDone ==
  ASSUME NEW s, NEW u, NEW result, NEW chunk \in TwoFrames, NEW reply, Ready(s, u, "send_response")
  PROVE  Done(HandleWriteHttpResponse(s, result, chunk, reply), u)
<1> DEFINE q == CancelHandshake(s)
           ended == IF s.http = "none" THEN s.ec ELSE "http_connection_ended"
           c == [q EXCEPT !.ec = ended]
           r == HandleWriteHttpResponse(s, result, chunk, reply)
<1>1. s \in Connections /\ Base(s, u) /\ Done(Terminate(s, "error"), u)
  BY FailureDone DEF Ready, Base, Core
<1>2. CASE Over(s, result)
  <2>1. r = s /\ s.state = "closed"
    BY <1>2 DEF HandleWriteHttpResponse, Over
  <2> QED
    BY <1>1, <2>1, OverDone
<1>3. CASE ~Over(s, result) /\ (result # "ok" \/ ~Expected(s, "PROCESS_HTTP_REQUEST"))
  <2>1. r = Terminate(s, "error")
    BY <1>3 DEF HandleWriteHttpResponse
  <2> QED
    BY <1>1, <2>1
<1>4. CASE ~Over(s, result) /\ result = "ok" /\ Expected(s, "PROCESS_HTTP_REQUEST")
  <2>1. s.state = "connecting" /\ s.http # "deferred"
    BY <1>4 DEF Expected, Ready
  <2>2. Openable(q, u) /\ Core(q, u) /\ q \in Connections /\ q.http = s.http
    BY <2>1, <1>1, QuietOpenable DEF Core
  <2>3. Done(Opened(q, chunk, reply), u)
    BY <2>2, OpenedDone
  <2>4. ended \in Errors /\ (ended = "http_connection_ended" => s.http # "none")
    <3>1. s.ec = "http_connection_ended" => s.http = "closed"
      BY <1>1 DEF Base, HttpInv
    <3>2. s.ec \in Errors
      BY <1>1 DEF Connections
    <3> QED
      BY <3>1, <3>2 DEF Errors
  <2>5. r \in {Terminate(c, ended), Opened(q, chunk, reply)}
    BY <1>4 DEF HandleWriteHttpResponse
  <2> HIDE DEF q, ended, r
  <2>6. c \in Connections /\ c.ec = ended
    BY <2>2, <2>4 DEF Connections
  <2>7. Kept(q, c, {"ec"})
    BY <2>2 DEF Connections, Kept, Fields
  <2> HIDE DEF c
  <2>8. Kept(q, c, {"istate", "ec", "status", "clean", "reading", "cancelled", "handshake", "timer"})
    BY <2>7 DEF Kept
  <2>9. Core(c, u)
    BY <2>2, <2>6, <2>8, CoreKept
  <2>10. c.http = s.http
    BY <2>2, <2>7 DEF Kept, Fields
  <2>11. Base(Terminate(c, ended), u) /\ Terminate(c, ended).state = "closed"
    BY <2>4, <2>6, <2>9, <2>10, Terminated
  <2>12. Done(Terminate(c, ended), u)
    BY <2>11, OverDone
  <2>13. Done(r, u)
    BY <2>3, <2>5, <2>12
  <2> QED
    BY <2>13 DEF r
<1> QED
  BY <1>2, <1>3, <1>4

-----------------------------------------------------------------------------
(***************************************************************************)
(* The frames that are written and read                                    *)
(***************************************************************************)

LEMMA TogetherWritten ==
  ASSUME NEW queue \in Seq(Messages), queue # <<>>
  PROVE  Together(queue) \in 1..Len(queue)
<1> DEFINE S == {n \in 1..Len(queue) : queue[n].terminal \/ n = Len(queue)}
<1>1. Len(queue) \in Nat /\ Len(queue) > 0 /\ DOMAIN queue = 1..Len(queue)
  OBVIOUS
<1>2. Len(queue) \in S /\ S \in SUBSET Nat
  BY <1>1
<1> HIDE DEF S
<1>3. \E x \in S : \A y \in S : ~(<<y, x>> \in OpToRel(<, Nat))
  BY <1>2, NatLessThanWellFounded, WFMin
<1>4. PICK x \in S : \A y \in S : ~(y < x)
  BY <1>2, <1>3 DEF OpToRel
<1>5. x \in DOMAIN queue /\ (queue[x].terminal \/ x = Len(queue))
  BY <1>1 DEF S
<1>6. ASSUME NEW i \in 1..(x - 1), queue[i].terminal PROVE FALSE
  <2>0. i \in 1..Len(queue) /\ i < x
    BY <1>1, <1>5, <1>6
  <2>1. i \in S
    BY <2>0, <1>6 DEF S
  <2> QED
    BY <1>4, <2>0, <2>1
<1> QED
  BY <1>1, <1>5, <1>6 DEF Together

\* A handler that changes neither the state nor a handshake's operation or timer.
LEMMA Turned ==
  ASSUME NEW s, NEW u, Base(s, u), NEW r \in Connections,
         Kept(s, r, {"reading", "writing", "current", "ops", "cancelled", "posted"}),
         \A op \in Handshakes : r.ops[op] = s.ops[op],
         WriteInv(r), ReadInv(r, u)
  PROVE  Base(r, u) /\ (PhaseInv(s) => PhaseInv(r))
<1>1. /\ r.calls = s.calls /\ r.stops = s.stops /\ r.wire = s.wire /\ r.state = s.state
      /\ r.http = s.http /\ r.ec = s.ec /\ r.queue = s.queue /\ r.timer = s.timer
  BY DEF Kept, Fields
<1>2. Due(r, "failed") = Due(s, "failed") /\ Due(r, "closed") = Due(s, "closed")
  BY <1>1 DEF Due
<1>3. TellInv(r, u)
  BY <1>1, <1>2 DEF Base, Core, TellInv
<1>4. InTurn(r)
  BY DEF Base, Core, InTurn
<1>5. QueueInv(r, u) /\ UserInv(r, u) /\ HttpInv(r) /\ ClosingInv(r)
  BY <1>1 DEF Base, Core, QueueInv, UserInv, HttpInv, ClosingInv, Pending
<1>6. PhaseInv(s) => PhaseInv(r)
  <2>1. "send_response" \in Handshakes
    BY DEF Handshakes, Ops
  <2> QED
    BY <1>1, <2>1 DEF PhaseInv, Idle, Pending
<1> QED
  BY <1>3, <1>4, <1>5, <1>6 DEF Base, Core

\* What of the queue is written, and what is left of it.
LEMMA QueueWritten ==
  ASSUME NEW s, NEW u, s \in Connections, QueueInv(s, u), s.queue # <<>>, s.state # "connecting",
         NEW n \in 1..Len(s.queue), NEW r, r.state = s.state,
         r.queue = SubSeq(s.queue, n + 1, Len(s.queue)),
         r.wire = Written(s.wire, s.queue, n)
  PROVE  QueueInv(r, u) /\ r.wire \in [closed : BOOLEAN, late : BOOLEAN]
<1> DEFINE q == s.queue
<1>1. /\ q \in Seq(Messages) /\ Len(q) \in Nat /\ DOMAIN q = 1..Len(q)
      /\ s.wire.closed \in BOOLEAN /\ s.wire.late \in BOOLEAN
      /\ n \in 1..Len(q) /\ n \in Nat
  BY DEF Connections
<1>2. /\ Len(r.queue) = Len(q) - n /\ DOMAIN r.queue = 1..(Len(q) - n)
      /\ \A i \in 1..(Len(q) - n) : r.queue[i] = q[n + i] /\ n + i \in 1..Len(q)
  BY <1>1
<1> HIDE DEF q
<1> DEFINE closed(i) == s.wire.closed \/ \E j \in 1..i : q[j].kind = "close"
<1>3. /\ r.wire.closed <=> closed(n)
      /\ r.wire.late <=> s.wire.late \/ \E i \in 1..n : q[i].kind # "close" /\ closed(i - 1)
      /\ r.wire \in [closed : BOOLEAN, late : BOOLEAN]
  <2>1. r.wire = [closed |-> closed(n),
                  late |-> s.wire.late \/ \E i \in 1..n : q[i].kind # "close" /\ closed(i - 1)]
    BY DEF Written, q
  <2>2. closed(n) \in BOOLEAN /\ \A i \in 1..n : closed(i - 1) \in BOOLEAN
    OBVIOUS
  <2> HIDE DEF closed
  <2> QED
    BY <2>1, <2>2, <1>1
<1> HIDE DEF closed
<1>4. CASE "race" \in u.faults
  BY <1>3, <1>4 DEF QueueInv
<1>5. CASE "race" \notin u.faults
  <2>1. /\ ~s.wire.late
        /\ s.wire.closed => \A i \in 1..Len(q) : q[i].kind = "close"
        /\ \A i, j \in 1..Len(q) : i < j /\ q[i].kind = "close" => q[j].kind = "close"
        /\ s.state = "open" => ~s.wire.closed /\ \A i \in 1..Len(q) : q[i].kind # "close"
    BY <1>1, <1>5 DEF QueueInv, q
  <2>2. ASSUME NEW i \in 1..n, closed(i - 1) PROVE q[i].kind = "close"
    <3>1. CASE s.wire.closed
      BY <2>1, <3>1, <1>1
    <3>2. CASE ~s.wire.closed
      <4>1. PICK j \in 1..(i - 1) : q[j].kind = "close"
        BY <2>2, <3>2 DEF closed
      <4> QED
        BY <2>1, <4>1, <1>1
    <3> QED
      BY <3>1, <3>2
  <2>3. ASSUME NEW i \in 1..(Len(q) - n), closed(n) PROVE r.queue[i].kind = "close"
    <3>0. r.queue[i] = q[n + i] /\ n + i \in 1..Len(q)
      BY <1>2
    <3>1. CASE s.wire.closed
      BY <2>1, <3>0, <3>1
    <3>2. CASE ~s.wire.closed
      <4>1. PICK j \in 1..n : q[j].kind = "close"
        BY <2>3, <3>2 DEF closed
      <4>2. j \in 1..Len(q) /\ j < n + i
        <5>1. i > 0 /\ i \in Int
          OBVIOUS
        <5> QED
          BY <5>1, <1>1
      <4> QED
        BY <2>1, <3>0, <4>1, <4>2
    <3> QED
      BY <3>1, <3>2
  <2>4. ASSUME NEW i \in 1..(Len(q) - n), NEW j \in 1..(Len(q) - n), i < j,
               r.queue[i].kind = "close"
        PROVE  r.queue[j].kind = "close"
    <3>1. /\ r.queue[i] = q[n + i] /\ n + i \in 1..Len(q)
          /\ r.queue[j] = q[n + j] /\ n + j \in 1..Len(q)
      BY <2>4, <1>2
    <3>2. i \in Nat /\ j \in Nat
      BY <1>1
    <3>3. n + i < n + j
      BY <2>4, <3>2, <1>1
    <3> QED
      BY <2>1, <2>4, <3>1, <3>3
  <2>5. ASSUME s.state = "open"
        PROVE  ~closed(n) /\ \A i \in 1..(Len(q) - n) : r.queue[i].kind # "close"
    <3>1. ~s.wire.closed /\ \A i \in 1..Len(q) : q[i].kind # "close"
      BY <2>1, <2>5
    <3>2. \A i \in 1..n : q[i].kind # "close"
      BY <3>1, <1>1
    <3> QED
      BY <3>1, <3>2, <1>2 DEF closed
  <2>6. ~r.wire.late
    BY <2>1, <2>2, <1>3
  <2> QED
    BY <2>3, <2>4, <2>5, <2>6, <1>2, <1>3 DEF QueueInv
<1> QED
  BY <1>3, <1>4, <1>5

LEMMA FrameWritten ==
  ASSUME NEW s, NEW u, Done(s, u)
  PROVE  Done(WriteFrame(s), u)
<1>1. CASE s.writing \/ s.queue = <<>>
  BY <1>1 DEF WriteFrame
<1>2. CASE ~(s.writing \/ s.queue = <<>>)
  <2> DEFINE n == Together(s.queue)
             current == SubSeq(s.queue, 1, n)
             queue == SubSeq(s.queue, n + 1, Len(s.queue))
             wire == Written(s.wire, s.queue, n)
             q == [s EXCEPT !.writing = TRUE, !.current = current, !.queue = queue, !.wire = wire]
             r == Ask(q, "write_frame")
  <2>1. /\ s \in Connections /\ s.queue \in Seq(Messages) /\ s.state # "connecting"
        /\ QueueInv(s, u) /\ Base(s, u)
    BY <1>2 DEF Done, Base, Core, Connections, QueueInv
  <2>2. n \in 1..Len(s.queue)
    BY <1>2, <2>1, TogetherWritten
  <2>3. WriteFrame(s) = r
    BY <1>2, <2>1 DEF WriteFrame, Connections
  <2> HIDE DEF n
  <2>4. current \in Seq(Messages) /\ current # <<>> /\ queue \in Seq(Messages)
    BY <2>1, <2>2
  <2> HIDE DEF current, queue, wire
  <2>5. /\ q.state = s.state /\ q.queue = queue /\ q.wire = wire /\ q.current = current
        /\ q.writing = TRUE
    BY <2>1 DEF Connections
  <2>6. QueueInv(q, u) /\ wire \in [closed : BOOLEAN, late : BOOLEAN]
    <3> HIDE DEF q
    <3> QED
      BY <1>2, <2>1, <2>2, <2>5, QueueWritten DEF queue, wire
  <2>7. q \in Connections
    BY <2>1, <2>4, <2>6 DEF Connections
  <2>8. Kept(s, q, {"writing", "current", "queue", "wire"})
    BY <2>1 DEF Connections, Kept, Fields
  <2> HIDE DEF q
  <2>9. "write_frame" \in Ops /\ "read_frame" \in Ops /\ Handshakes \subseteq Ops \ {"write_frame"}
    BY DEF Ops, Handshakes
  <2>10. /\ r \in Connections /\ Kept(q, r, {"ops"})
         /\ r.ops = [q.ops EXCEPT !["write_frame"] = @ + 1]
    BY <2>7, <2>9, AskEffect
  <2> HIDE DEF r
  <2>11. /\ r.calls = s.calls /\ r.stops = s.stops /\ r.wire = wire /\ r.state = s.state
         /\ r.http = s.http /\ r.ec = s.ec /\ r.queue = queue /\ r.timer = s.timer
         /\ r.posted = s.posted /\ r.writing /\ r.current = current /\ q.ops = s.ops
    BY <2>5, <2>8, <2>10 DEF Kept, Fields
  <2>12. s.ops \in [Ops -> Nat]
    BY <2>1 DEF Connections
  <2>13. /\ r.ops["write_frame"] = s.ops["write_frame"] + 1
         /\ \A op \in Ops \ {"write_frame"} : r.ops[op] = s.ops[op]
    BY <2>9, <2>10, <2>11, <2>12
  <2>14. r.ops["write_frame"] = 1
    BY <1>2, <2>1, <2>13 DEF Base, Core, WriteInv
  <2>15. Due(r, "failed") = Due(s, "failed") /\ Due(r, "closed") = Due(s, "closed")
    BY <2>11 DEF Due
  <2>16. TellInv(r, u)
    BY <2>1, <2>11, <2>15 DEF Base, Core, TellInv
  <2>17. InTurn(r)
    BY <2>1, <2>9, <2>13 DEF Base, Core, InTurn
  <2>18. WriteInv(r)
    BY <2>4, <2>11, <2>14 DEF WriteInv
  <2>19. ReadInv(r, u)
    BY <2>1, <2>9, <2>11, <2>13 DEF Base, Core, ReadInv
  <2>20. QueueInv(r, u)
    BY <2>5, <2>6, <2>11 DEF QueueInv
  <2>21. UserInv(r, u) /\ HttpInv(r) /\ ClosingInv(r)
    BY <2>1, <2>11 DEF Base, Core, UserInv, HttpInv, ClosingInv, Pending
  <2>22. Base(r, u)
    BY <2>1, <2>10, <2>16, <2>17, <2>18, <2>19, <2>20, <2>21 DEF Base, Core
  <2> QED
    BY <2>1, <2>3, <2>11, <2>22, OverDone
<1> QED
  BY <1>1, <1>2

LEMMA WriteEffect ==
  ASSUME NEW s \in Connections, NEW w \in Nat, NEW writing \in BOOLEAN
  PROVE  LET r == [s EXCEPT !.writing = writing, !.posted.write = w] IN
         /\ r \in Connections /\ Kept(s, r, {"writing", "posted"})
         /\ r.posted.resume = s.posted.resume
<1> DEFINE posted == [s.posted EXCEPT !.write = w]
           r == [s EXCEPT !.writing = writing, !.posted = posted]
<1>1. r = [s EXCEPT !.writing = writing, !.posted.write = w]
  BY DEF Connections
<1>2. posted \in [write : Nat, pause : BOOLEAN, resume : BOOLEAN] /\ posted.resume = s.posted.resume
  <2>1. s.posted \in [write : Nat, pause : BOOLEAN, resume : BOOLEAN]
    BY DEF Connections
  <2> QED
    BY <2>1
<1> HIDE DEF posted
<1>3. r \in Connections /\ r.posted = posted
  BY <1>2 DEF Connections
<1>4. Kept(s, r, {"writing", "posted"})
  BY DEF Connections, Kept, Fields
<1> QED
  BY <1>1, <1>2, <1>3, <1>4

LEMMA OpsEffect ==
  ASSUME NEW s \in Connections, NEW op \in Ops, s.ops[op] > 0
  PROVE  LET r == [s EXCEPT !.ops[op] = @ - 1, !.cancelled = @ \ {op}] IN
         /\ r \in Connections /\ Kept(s, r, {"ops", "cancelled"})
         /\ r.ops[op] = s.ops[op] - 1 /\ \A p \in Ops \ {op} : r.ops[p] = s.ops[p]
<1> DEFINE ops == [s.ops EXCEPT ![op] = @ - 1]
           cancelled == s.cancelled \ {op}
           r == [s EXCEPT !.ops = ops, !.cancelled = cancelled]
<1>1. r = [s EXCEPT !.ops[op] = @ - 1, !.cancelled = @ \ {op}]
  BY DEF Connections
<1>2. /\ ops \in [Ops -> Nat] /\ ops[op] = s.ops[op] - 1
      /\ \A p \in Ops \ {op} : ops[p] = s.ops[p]
  BY DEF Connections
<1>3. cancelled \in SUBSET Ops
  BY DEF Connections
<1> HIDE DEF ops, cancelled
<1>4. r \in Connections /\ r.ops = ops
  BY <1>2, <1>3 DEF Connections
<1>5. Kept(s, r, {"ops", "cancelled"})
  BY DEF Connections, Kept, Fields
<1> QED
  BY <1>1, <1>2, <1>4, <1>5

-----------------------------------------------------------------------------
(***************************************************************************)
(* What the transport calls back                                           *)
(***************************************************************************)

\* What the handler of an operation finds.
Taken(s, op) == [s EXCEPT !.ops[op] = @ - 1, !.cancelled = @ \ {op}]

LEMMA TakenReady ==
  ASSUME NEW s, NEW u, Done(s, u), NEW op \in Handshakes, s.ops[op] > 0
  PROVE  Ready(Taken(s, op), u, op)
<1> DEFINE r == Taken(s, op)
<1>1. s \in Connections /\ Base(s, u) /\ op \in Ops
  BY TimersOfHandshakes DEF Done, Base, Core
<1>2. /\ r \in Connections /\ Kept(s, r, {"ops", "cancelled"})
      /\ r.ops[op] = s.ops[op] - 1 /\ \A p \in Ops \ {op} : r.ops[p] = s.ops[p]
  BY <1>1, OpsEffect DEF Taken
<1> HIDE DEF r
<1>3. /\ r.calls = s.calls /\ r.current = s.current /\ r.stops = s.stops
      /\ r.writing = s.writing /\ r.wire = s.wire /\ r.state = s.state /\ r.http = s.http
      /\ r.ec = s.ec /\ r.posted = s.posted /\ r.queue = s.queue /\ r.timer = s.timer
  BY <1>2 DEF Kept, Fields
<1>4. s.ops \in [Ops -> Nat]
  BY <1>1 DEF Connections
<1>5. s.ops[op] = 1 /\ \A p \in Handshakes \ {op} : s.ops[p] = 0
  <2>1. \A p \in Handshakes \ {op} : ~(s.ops[p] > 0)
    BY <1>1 DEF Base, Core, InTurn
  <2>2. s.ops[op] <= 1
    BY <1>1 DEF Base, Core, InTurn
  <2> QED
    BY <2>1, <2>2, <1>1, <1>4, TimersOfHandshakes
<1>6. Idle(r)
  BY <1>2, <1>5, TimersOfHandshakes DEF Idle
<1>7. "read_frame" \in Ops \ {op} /\ "write_frame" \in Ops \ {op}
  BY DEF Ops, Handshakes
<1>8. Due(r, "failed") = Due(s, "failed") /\ Due(r, "closed") = Due(s, "closed")
  BY <1>3 DEF Due
<1>9. TellInv(r, u)
  BY <1>1, <1>3, <1>8 DEF Base, Core, TellInv
<1>10. InTurn(r)
  BY <1>6 DEF InTurn, Idle
<1>11. WriteInv(r) /\ ReadInv(r, u)
  BY <1>1, <1>2, <1>3, <1>7 DEF Base, Core, WriteInv, ReadInv
<1>12. QueueInv(r, u) /\ UserInv(r, u) /\ HttpInv(r) /\ ClosingInv(r)
  BY <1>1, <1>3 DEF Base, Core, QueueInv, UserInv, HttpInv, ClosingInv, Pending
<1>13. Base(r, u)
  BY <1>1, <1>2, <1>9, <1>10, <1>11, <1>12 DEF Base, Core
<1>14. ASSUME r.state = "connecting"
       PROVE  /\ r.http # "deferred"
              /\ r.http = "written" => op = "send_response"
              /\ r.http # "written" => Pending(r, TimerOf(op))
  <2>1. s.http # "deferred"
    BY <1>3, <1>5, <1>14 DEF Done, PhaseInv, Idle
  <2>2. s.http = "written" => op = "send_response"
    <3>1. s.http = "written" => s.ops["send_response"] = 1
      BY <1>3, <1>14 DEF Done, PhaseInv
    <3>2. "send_response" \in Handshakes
      BY DEF Handshakes, Ops
    <3> QED
      BY <3>1, <3>2, <1>5
  <2>3. ASSUME s.http # "written" PROVE Pending(s, TimerOf(op))
    <3>1. PICK t \in {"dns", "connect", "proxy", "post", "open"} :
            Pending(s, t) /\ \A p \in Handshakes : s.ops[p] > 0 => TimerOf(p) = t
      BY <1>3, <1>14, <2>1, <2>3 DEF Done, PhaseInv
    <3> QED
      BY <3>1
  <2> QED
    BY <2>1, <2>2, <2>3, <1>3 DEF Pending
<1> QED
  BY <1>6, <1>13, <1>14 DEF Ready, r

LEMMA TakenRead ==
  ASSUME NEW s, NEW u, Done(s, u), s.ops["read_frame"] > 0
  PROVE  /\ Base(Taken(s, "read_frame"), u) /\ Taken(s, "read_frame").state # "connecting"
         /\ Room(Taken(s, "read_frame"), u)
<1> DEFINE r == Taken(s, "read_frame")
<1>1. s \in Connections /\ Base(s, u) /\ "read_frame" \in Ops
  BY DEF Done, Base, Core, Ops
<1>2. /\ r \in Connections /\ Kept(s, r, {"ops", "cancelled"})
      /\ r.ops["read_frame"] = s.ops["read_frame"] - 1
      /\ \A p \in Ops \ {"read_frame"} : r.ops[p] = s.ops[p]
  BY <1>1, OpsEffect DEF Taken
<1> HIDE DEF r
<1>3. /\ r.current = s.current /\ r.writing = s.writing /\ r.state = s.state
      /\ r.posted = s.posted
  BY <1>2 DEF Kept, Fields
<1>4. s.ops["read_frame"] \in Nat
  BY <1>1 DEF Connections
<1>5. "write_frame" \in Ops \ {"read_frame"} /\ Handshakes \subseteq Ops \ {"read_frame"}
  BY DEF Ops, Handshakes
<1>6. WriteInv(r)
  BY <1>1, <1>2, <1>3, <1>5 DEF Base, Core, WriteInv
<1>7. ReadInv(r, u)
  BY <1>1, <1>2, <1>3, <1>4 DEF Base, Core, ReadInv
<1>8. r.state # "connecting" /\ Room(r, u)
  BY <1>1, <1>2, <1>3, <1>4 DEF Base, Core, ReadInv, Room
<1>9. Kept(s, r, {"reading", "writing", "current", "ops", "cancelled", "posted"})
  BY <1>2 DEF Kept
<1>10. Base(r, u)
  BY <1>1, <1>2, <1>5, <1>6, <1>7, <1>9, Turned
<1> QED
  BY <1>8, <1>10 DEF r

LEMMA WriteDone ==
  ASSUME NEW s, NEW u, Done(s, u), s.ops["write_frame"] > 0, NEW ok \in BOOLEAN
  PROVE  Done(HandleWriteFrame(Taken(s, "write_frame"), ok), u)
<1> DEFINE q == Taken(s, "write_frame")
           c == [q EXCEPT !.current = <<>>]
           w == IF q.queue = <<>> THEN q.posted.write ELSE q.posted.write + 1
           r == [c EXCEPT !.writing = FALSE, !.posted.write = w]
<1>1. s \in Connections /\ Base(s, u) /\ "write_frame" \in Ops
  BY DEF Done, Base, Core, Ops
<1>2. /\ q \in Connections /\ Kept(s, q, {"ops", "cancelled"})
      /\ q.ops["write_frame"] = s.ops["write_frame"] - 1
      /\ \A p \in Ops \ {"write_frame"} : q.ops[p] = s.ops[p]
  BY <1>1, OpsEffect DEF Taken
<1>3. HandleWriteFrame(q, ok) \in {Terminate(c, "error"), Terminate(c, "none"), r}
  <2>1. q.posted = c.posted
    BY <1>2 DEF Connections
  <2> HIDE DEF q
  <2>2. r = [c EXCEPT !.writing = FALSE, !.posted.write = IF q.queue = <<>> THEN @ ELSE @ + 1]
    BY <1>2, <2>1 DEF Connections
  <2> QED
    BY <2>2 DEF HandleWriteFrame
<1> HIDE DEF q
<1>4. c \in Connections /\ c.current = <<>>
  <2> DEFINE none == <<>>
  <2>1. none \in Seq(Messages)
    OBVIOUS
  <2> HIDE DEF none
  <2>2. [q EXCEPT !.current = none] \in Connections /\ [q EXCEPT !.current = none].current = none
    BY <1>2, <2>1 DEF Connections
  <2> QED
    BY <2>2 DEF none
<1>5. Kept(q, c, {"current"})
  BY <1>2 DEF Connections, Kept, Fields
<1>6. w \in Nat
  BY <1>2 DEF Connections
<1> HIDE DEF c, w
<1>7. c.ops = q.ops /\ c.state = s.state /\ c.posted = s.posted
  BY <1>2, <1>5 DEF Kept, Fields
<1>8. /\ "read_frame" \in Ops \ {"write_frame"} /\ Handshakes \subseteq Ops \ {"write_frame"}
  BY DEF Ops, Handshakes
<1>9. c.ops["write_frame"] = 0
  <2>1. s.ops["write_frame"] <= 1 /\ s.ops["write_frame"] \in Nat
    BY <1>1 DEF Base, Core, WriteInv, Connections
  <2> QED
    BY <2>1, <1>2, <1>7
<1>10. WriteInv(c)
  BY <1>4, <1>9 DEF WriteInv
<1>11. ReadInv(c, u)
  BY <1>1, <1>2, <1>7, <1>8 DEF Base, Core, ReadInv
<1>12. Kept(s, c, {"reading", "writing", "current", "ops", "cancelled", "posted"})
  BY <1>2, <1>5 DEF Kept
<1>13. \A op \in Handshakes : c.ops[op] = s.ops[op]
  BY <1>2, <1>7, <1>8
<1>14. Done(c, u)
  BY <1>1, <1>4, <1>10, <1>11, <1>12, <1>13, Turned DEF Done
<1>15. Done(Terminate(c, "error"), u) /\ Done(Terminate(c, "none"), u)
  <2>1. /\ Onward(c, Terminate(c, "error"), u) /\ Onward(c, Terminate(c, "none"), u)
    BY <1>14, Ends DEF Done
  <2> QED
    BY <2>1, OverDone DEF Onward
<1>16. r \in Connections /\ Kept(c, r, {"writing", "posted"}) /\ r.posted.resume = c.posted.resume
  BY <1>4, <1>6, WriteEffect
<1> HIDE DEF r
<1>17. r.ops = c.ops /\ r.current = c.current /\ r.state = c.state
  BY <1>16 DEF Kept, Fields
<1>18. WriteInv(r) /\ ReadInv(r, u)
  BY <1>4, <1>9, <1>11, <1>16, <1>17 DEF WriteInv, ReadInv
<1>19. Kept(c, r, {"reading", "writing", "current", "ops", "cancelled", "posted"})
  BY <1>16 DEF Kept
<1>20. Done(r, u)
  BY <1>14, <1>16, <1>17, <1>18, <1>19, Turned DEF Done
<1> QED
  BY <1>3, <1>15, <1>20 DEF q

\* An operation of the transport completes.
LEMMA CompletedDone ==
  ASSUME NEW s, NEW u, Done(s, u), NEW op \in Ops, s.ops[op] > 0,
         NEW result, NEW chunk \in TwoFrames, NEW reply, NEW answer,
         op = "read_response" /\ answer = "badextension" => "extension" \in u.faults,
         op = "read_request" /\ result = "ok" => answer \in Requests
  PROVE  Done(Completed(Taken(s, op), op, result, chunk, reply, answer), u)
<1> DEFINE q == Taken(s, op)
<1>1. CASE op \in {"resolve", "connect", "proxy_write", "proxy_read", "tls"}
  <2>1. Ready(q, u, op)
    BY <1>1, TakenReady DEF Handshakes
  <2> HIDE DEF q
  <2>2. Done(Completed(q, op, result, chunk, reply, answer), u)
    BY <1>1, <2>1, TransportDone DEF Completed
  <2> QED
    BY <2>2 DEF q
<1>2. CASE op \in {"send_request", "read_response", "read_request", "send_response"}
  <2>1. Ready(q, u, op)
    BY <1>2, TakenReady DEF Handshakes
  <2> HIDE DEF q
  <2>2. Done(Completed(q, op, result, chunk, reply, answer), u)
    BY <1>2, <2>1, SendRequestDone, ReadResponseDone, ReadRequestDone, SendResponseDone DEF Completed
  <2> QED
    BY <2>2 DEF q
<1>3. CASE op = "read_frame"
  <2>1. Base(q, u) /\ q.state # "connecting" /\ Room(q, u)
    BY <1>3, TakenRead
  <2> HIDE DEF q
  <2>2. Completed(q, op, result, chunk, reply, answer) = HandleReadFrame(q, result, chunk, reply)
    BY <1>3 DEF Completed
  <2>3. Done(Completed(q, op, result, chunk, reply, answer), u)
    BY <2>1, <2>2, FramesRead, OverDone
  <2> QED
    BY <2>3 DEF q
<1>4. CASE op = "write_frame"
  <2>1. Done(HandleWriteFrame(q, result = "ok"), u)
    BY <1>4, WriteDone
  <2>2. Completed(q, op, result, chunk, reply, answer) = HandleWriteFrame(q, result = "ok")
    BY <1>4 DEF Completed
  <2> QED
    BY <2>1, <2>2
<1> QED
  BY <1>1, <1>2, <1>3, <1>4 DEF Ops

-----------------------------------------------------------------------------
(***************************************************************************)
(* Timers and shutdowns                                                    *)
(***************************************************************************)

LEMMA TimerFired ==
  ASSUME NEW s, NEW u, Done(s, u), NEW t \in Timers, s.timer[t] = "set"
  PROVE  Done([s EXCEPT !.timer[t] = "fired"], u) /\ [s EXCEPT !.timer[t] = "fired"].state = s.state
<1> DEFINE r == [s EXCEPT !.timer[t] = "fired"]
<1>1. s \in Connections /\ Base(s, u)
  BY DEF Done, Base, Core
<1>2. /\ r \in Connections /\ Kept(s, r, {"timer"})
      /\ r.timer = [s.timer EXCEPT ![t] = "fired"]
  BY <1>1, TimerEffect
<1> HIDE DEF r
<1>3. Kept(s, r, {"istate", "ec", "status", "clean", "reading", "cancelled", "handshake", "timer"})
  BY <1>2 DEF Kept
<1>4. r.state = s.state /\ r.http = s.http /\ r.ec = s.ec /\ r.ops = s.ops
  BY <1>2 DEF Kept, Fields
<1>5. s.timer \in TimerStates
  BY <1>1 DEF Connections
<1>6. \A c \in Timers : Pending(s, c) => Pending(r, c)
  BY <1>2, <1>5 DEF TimerStates, Pending
<1>7. /\ CloseTimers \subseteq Timers
      /\ {"dns", "connect", "proxy", "post", "open"} \subseteq Timers
  BY DEF CloseTimers, Timers
<1>8. Core(r, u)
  BY <1>1, <1>2, <1>3, CoreKept DEF Base
<1>9. HttpInv(r) /\ ClosingInv(r)
  BY <1>1, <1>4, <1>6, <1>7 DEF Base, HttpInv, ClosingInv
<1>10. PhaseInv(r)
  BY <1>4, <1>6, <1>7 DEF Done, PhaseInv, Idle
<1> QED
  BY <1>4, <1>8, <1>9, <1>10 DEF Done, Base, r

\* The flags of the shutdowns change, and what has been cancelled.
LEMMA FlagsKept ==
  ASSUME NEW s, NEW u, NEW r \in Connections, Kept(s, r, {"cancelled", "stops"}),
         DOMAIN r.stops = DOMAIN s.stops,
         \A i \in DOMAIN s.stops : r.stops[i].tstat = s.stops[i].tstat,
         s.stops = <<>> => r.stops = <<>>
  PROVE  /\ \A x : Due(r, x) = Due(s, x)
         /\ Core(s, u) => Core(r, u)
         /\ Done(s, u) => Done(r, u)
<1>1. /\ r.calls = s.calls /\ r.ops = s.ops /\ r.current = s.current /\ r.http = s.http
      /\ r.writing = s.writing /\ r.wire = s.wire /\ r.state = s.state /\ r.ec = s.ec
      /\ r.posted = s.posted /\ r.queue = s.queue /\ r.timer = s.timer
  BY DEF Kept, Fields
<1>2. ASSUME NEW x PROVE Due(r, x) = Due(s, x)
  <2>1. {i \in DOMAIN r.stops : r.stops[i].tstat = x} = {i \in DOMAIN s.stops : s.stops[i].tstat = x}
    OBVIOUS
  <2> QED
    BY <2>1 DEF Due
<1>3. TellInv(s, u) => TellInv(r, u)
  BY <1>1, <1>2 DEF TellInv
<1>4. Core(s, u) => Core(r, u)
  <2>1. /\ InTurn(s) => InTurn(r)
        /\ WriteInv(s) => WriteInv(r)
        /\ ReadInv(s, u) => ReadInv(r, u)
        /\ QueueInv(s, u) => QueueInv(r, u)
        /\ UserInv(s, u) => UserInv(r, u)
    BY <1>1 DEF InTurn, WriteInv, ReadInv, QueueInv, UserInv
  <2> QED
    BY <1>3, <2>1 DEF Core
<1>5. /\ HttpInv(s) => HttpInv(r)
      /\ ClosingInv(s) => ClosingInv(r)
      /\ PhaseInv(s) => PhaseInv(r)
  BY <1>1 DEF HttpInv, ClosingInv, PhaseInv, Idle, Pending
<1> QED
  BY <1>2, <1>4, <1>5 DEF Done, Base

LEMMA StopsEffect ==
  ASSUME NEW s \in Connections, NEW stops \in Seq(Shutdowns), NEW cancelled \in SUBSET Ops
  PROVE  LET r == [s EXCEPT !.cancelled = cancelled, !.stops = stops] IN
         r \in Connections /\ Kept(s, r, {"cancelled", "stops"}) /\ r.stops = stops
<1>1. [s EXCEPT !.cancelled = cancelled, !.stops = stops] \in Connections
  BY DEF Connections
<1>2. Kept(s, [s EXCEPT !.cancelled = cancelled, !.stops = stops], {"cancelled", "stops"})
  BY DEF Connections, Kept, Fields
<1>3. [s EXCEPT !.cancelled = cancelled, !.stops = stops].stops = stops
  BY DEF Connections
<1> QED
  BY <1>1, <1>2, <1>3

LEMMA SocketCancelled ==
  ASSUME NEW s, NEW u, s \in Connections
  PROVE  /\ CancelSocket(s) \in Connections
         /\ Kept(s, CancelSocket(s), {"cancelled", "stops"})
         /\ \A x : Due(CancelSocket(s), x) = Due(s, x)
         /\ Core(s, u) => Core(CancelSocket(s), u)
         /\ Done(s, u) => Done(CancelSocket(s), u)
<1> DEFINE stops == [i \in DOMAIN s.stops |-> [s.stops[i] EXCEPT !.cancelled = TRUE]]
           cancelled == {op \in Ops : s.ops[op] > 0}
           r == [s EXCEPT !.cancelled = cancelled, !.stops = stops]
<1>1. CancelSocket(s) = r
  BY DEF CancelSocket, Connections
<1>2. s.stops \in Seq(Shutdowns) /\ Len(s.stops) \in Nat /\ DOMAIN s.stops = 1..Len(s.stops)
  BY DEF Connections
<1>3. \A i \in DOMAIN s.stops : stops[i] \in Shutdowns /\ stops[i].tstat = s.stops[i].tstat
  <2>1. ASSUME NEW x \in Shutdowns
        PROVE  [x EXCEPT !.cancelled = TRUE] \in Shutdowns /\ [x EXCEPT !.cancelled = TRUE].tstat = x.tstat
    BY DEF Shutdowns
  <2>2. \A i \in DOMAIN s.stops : s.stops[i] \in Shutdowns
    BY <1>2
  <2>3. \A i \in DOMAIN s.stops : stops[i] = [s.stops[i] EXCEPT !.cancelled = TRUE]
    OBVIOUS
  <2> HIDE DEF stops
  <2> QED
    BY <2>1, <2>2, <2>3
<1>4. DOMAIN stops = DOMAIN s.stops
  OBVIOUS
<1>5. s.stops = <<>> => stops = <<>>
  BY <1>2
<1>6. cancelled \in SUBSET Ops
  OBVIOUS
<1> HIDE DEF stops, cancelled
<1>7. stops \in Seq(Shutdowns)
  <2>1. stops = [i \in 1..Len(s.stops) |-> stops[i]]
    BY <1>2, <1>4 DEF stops
  <2>2. \A i \in 1..Len(s.stops) : stops[i] \in Shutdowns
    BY <1>2, <1>3
  <2> HIDE DEF stops
  <2>3. [i \in 1..Len(s.stops) |-> stops[i]] \in Seq(Shutdowns)
    BY <1>2, <2>2, IsASeq
  <2> QED
    BY <2>1, <2>3
<1>8. r \in Connections /\ Kept(s, r, {"cancelled", "stops"}) /\ r.stops = stops
  BY <1>6, <1>7, StopsEffect
<1> HIDE DEF r
<1> QED
  BY <1>1, <1>3, <1>4, <1>5, <1>8, FlagsKept

\* A timeout ends the connection, but for that of a ping.
LEMMA TimedOutDone ==
  ASSUME NEW s, NEW u, Done(s, u), NEW t \in Timers
  PROVE  Done(TimedOut([s EXCEPT !.timer[t] = "over"], t), u)
<1> DEFINE q == [s EXCEPT !.timer[t] = "over"]
<1>1. s \in Connections /\ Base(s, u)
  BY DEF Done, Base, Core
<1>2. /\ q \in Connections /\ Kept(s, q, {"timer"})
      /\ q.timer = [s.timer EXCEPT ![t] = "over"]
  BY <1>1, TimerEffect
<1> HIDE DEF q
<1>3. /\ Kept(s, q, {"istate", "ec", "status", "clean", "reading", "cancelled", "handshake", "timer"})
      /\ Kept(s, q, {"istate", "status", "clean", "reading", "cancelled", "handshake", "timer"})
  BY <1>2 DEF Kept
<1>4. Core(q, u)
  BY <1>1, <1>2, <1>3, CoreKept DEF Base
<1>5. CASE t = "ping"
  <2>1. TimedOut(q, t) = q
    BY <1>5 DEF TimedOut, HandlePongTimeout
  <2>2. /\ CloseTimers \subseteq Timers \ {"ping"}
        /\ {"dns", "connect", "proxy", "post", "open"} \subseteq Timers \ {"ping"}
    BY DEF CloseTimers, Timers
  <2>3. s.timer \in TimerStates
    BY <1>1 DEF Connections
  <2>4. \A c \in Timers \ {"ping"} : q.timer[c] = s.timer[c]
    BY <1>2, <1>5, <2>3 DEF TimerStates
  <2>5. Base(q, u)
    BY <1>1, <1>2, <1>3, <2>2, <2>4, Unconcerned
  <2>6. q.state = s.state /\ q.http = s.http /\ q.ops = s.ops
    BY <1>2 DEF Kept, Fields
  <2>7. PhaseInv(q)
    BY <2>2, <2>4, <2>6 DEF Done, PhaseInv, Idle, Pending
  <2> QED
    BY <2>1, <2>5, <2>7 DEF Done, q
<1>6. CASE t # "ping"
  <2> DEFINE c == CancelSocket(q)
  <2>1. TimedOut(q, t) \in {Terminate(q, "error"), Terminate(c, "error")}
    BY <1>6 DEF TimedOut, HandleResolveTimeout, HandleConnectTimeout, HandleProxyTimeout,
                HandlePostInitTimeout, HandleOpenHandshakeTimeout, HandleCloseHandshakeTimeout,
                HandleConnected, HandleTransportInit
  <2>2. Core(c, u)
    BY <1>2, <1>4, SocketCancelled
  <2> HIDE DEF c
  <2>3. "error" \in Errors
    BY DEF Errors
  <2>4. /\ Base(Terminate(q, "error"), u) /\ Terminate(q, "error").state = "closed"
        /\ Base(Terminate(c, "error"), u) /\ Terminate(c, "error").state = "closed"
    BY <1>4, <2>2, <2>3, Terminated
  <2>5. Done(Terminate(q, "error"), u) /\ Done(Terminate(c, "error"), u)
    BY <2>4, OverDone
  <2> QED
    BY <2>1, <2>5 DEF q
<1> QED
  BY <1>5, <1>6

\* A shutdown that is done takes one end off those that are due.
LEMMA DueRemoved ==
  ASSUME NEW s \in Connections, NEW r \in Connections, NEW i \in DOMAIN s.stops,
         r.stops = RemoveAt(s.stops, i)
  PROVE  \A x : Due(r, x) = IF s.stops[i].tstat = x THEN Due(s, x) - 1 ELSE Due(s, x)
<1> DEFINE n == Len(s.stops)
           due(c, x) == {j \in DOMAIN c.stops : c.stops[j].tstat = x}
           f(j) == IF j < i THEN j ELSE j + 1
<1>1. s.stops \in Seq(Shutdowns) /\ n \in Nat /\ DOMAIN s.stops = 1..n /\ i \in 1..n
  BY DEF Connections
<1>2. /\ DOMAIN r.stops = 1..(n - 1)
      /\ \A j \in 1..(n - 1) : r.stops[j] = s.stops[f(j)]
  <2> DEFINE a == SubSeq(s.stops, 1, i - 1)
             b == SubSeq(s.stops, i + 1, n)
  <2>1. /\ a \in Seq(Shutdowns) /\ Len(a) = i - 1
        /\ \A j \in 1..(i - 1) : a[j] = s.stops[j]
    BY <1>1
  <2>2. /\ b \in Seq(Shutdowns) /\ Len(b) = n - i
        /\ \A j \in 1..(n - i) : b[j] = s.stops[i + j]
    BY <1>1
  <2>3. r.stops = a \o b
    BY DEF RemoveAt
  <2> HIDE DEF a, b
  <2>4. /\ a \o b \in Seq(Shutdowns) /\ Len(a \o b) = Len(a) + Len(b)
        /\ \A j \in 1..(Len(a) + Len(b)) :
             (a \o b)[j] = IF j <= Len(a) THEN a[j] ELSE b[j - Len(a)]
    BY <2>1, <2>2, ConcatProperties
  <2>5. Len(a) + Len(b) = n - 1
    BY <2>1, <2>2, <1>1
  <2>6. DOMAIN r.stops = 1..(n - 1)
    BY <2>3, <2>4, <2>5
  <2>7. ASSUME NEW j \in 1..(n - 1) PROVE r.stops[j] = s.stops[f(j)]
    <3>1. r.stops[j] = IF j <= i - 1 THEN a[j] ELSE b[j - (i - 1)]
      BY <2>1, <2>3, <2>4, <2>5
    <3>2. CASE j < i
      <4>1. j \in 1..(i - 1) /\ j <= i - 1
        BY <3>2, <1>1
      <4> QED
        BY <3>1, <3>2, <4>1, <2>1
    <3>3. CASE ~(j < i)
      <4>1. j - (i - 1) \in 1..(n - i) /\ ~(j <= i - 1) /\ i + (j - (i - 1)) = j + 1
        BY <3>3, <1>1
      <4> QED
        BY <3>1, <3>3, <4>1, <2>2
    <3> QED
      BY <3>2, <3>3
  <2> QED
    BY <2>6, <2>7
<1>3. ASSUME NEW x
      PROVE  Due(r, x) = IF s.stops[i].tstat = x THEN Due(s, x) - 1 ELSE Due(s, x)
  <2> DEFINE R == due(r, x)
             S == due(s, x)
             T == S \ {i}
             g == [j \in R |-> f(j)]
  <2>1. IsFiniteSet(R) /\ IsFiniteSet(S)
    BY DueFinite
  <2>2. \A j \in R : f(j) \in T
    BY <1>1, <1>2
  <2>3. \A j, k \in R : f(j) = f(k) => j = k
    BY <1>1, <1>2
  <2>4. ASSUME NEW k \in T PROVE \E j \in R : f(j) = k
    <3>1. k \in 1..n /\ k # i /\ s.stops[k].tstat = x
      BY <1>1
    <3> DEFINE j == IF k < i THEN k ELSE k - 1
    <3>2. j \in 1..(n - 1) /\ f(j) = k
      BY <3>1, <1>1
    <3>3. j \in R
      BY <3>1, <3>2, <1>2
    <3> QED
      BY <3>2, <3>3
  <2> HIDE DEF R, T, f
  <2>5. g \in Injection(R, T)
    <3>1. g \in [R -> T]
      BY <2>2
    <3> QED
      BY <3>1, <2>3 DEF Injection, IsInjective
  <2>6. g \in Surjection(R, T)
    <3>1. g \in [R -> T]
      BY <2>2
    <3> QED
      BY <3>1, <2>4 DEF Surjection
  <2>7. ExistsBijection(R, T)
    BY <2>5, <2>6 DEF ExistsBijection, Bijection
  <2>8. Cardinality(T) = Cardinality(R)
    BY <2>1, <2>7, FS_Bijection
  <2>9. Cardinality(T) = IF i \in S THEN Cardinality(S) - 1 ELSE Cardinality(S)
    BY <2>1, FS_RemoveElement DEF T
  <2>10. i \in S <=> s.stops[i].tstat = x
    BY <1>1
  <2>11. Due(r, x) = Cardinality(R) /\ Due(s, x) = Cardinality(S)
    BY DEF Due, R
  <2> HIDE DEF S
  <2> QED
    BY <2>8, <2>9, <2>10, <2>11
<1> QED
  BY <1>3

LEMMA RemovedType ==
  ASSUME NEW s \in Connections, NEW i \in DOMAIN s.stops
  PROVE  /\ RemoveAt(s.stops, i) \in Seq(Shutdowns) /\ s.stops[i] \in Shutdowns
<1>1. s.stops \in Seq(Shutdowns) /\ Len(s.stops) \in Nat /\ i \in 1..Len(s.stops)
  BY DEF Connections
<1>2. /\ SubSeq(s.stops, 1, i - 1) \in Seq(Shutdowns)
      /\ SubSeq(s.stops, i + 1, Len(s.stops)) \in Seq(Shutdowns)
  BY <1>1
<1>3. RemoveAt(s.stops, i) \in Seq(Shutdowns)
  BY <1>2, ConcatProperties DEF RemoveAt
<1> QED
  BY <1>1, <1>3

\* It is reported once and for all.
LEMMA ShutdownDoneDone ==
  ASSUME NEW s, NEW u, Done(s, u), NEW i \in DOMAIN s.stops, NEW q \in Connections,
         Kept(s, q, {"cancelled", "stops"}),
         \A x : Due(q, x) = IF s.stops[i].tstat = x THEN Due(s, x) - 1 ELSE Due(s, x)
  PROVE  Done(HandleTerminate(q, s.stops[i].tstat), u)
<1> DEFINE tstat == s.stops[i].tstat
           calls == IF tstat = "closed" THEN [q.calls EXCEPT !.close = @ + 1]
                    ELSE IF q.ec = "http_connection_ended" THEN q.calls
                    ELSE [q.calls EXCEPT !.fail = @ + 1]
           r == [q EXCEPT !.calls = calls]
<1>1. s \in Connections /\ Base(s, u) /\ tstat \in {"failed", "closed"}
  <2>1. s \in Connections
    BY DEF Done, Base, Core
  <2> QED
    BY <2>1, RemovedType DEF Done, Base, Core, Shutdowns
<1>2. HandleTerminate(q, tstat) = r
  BY DEF HandleTerminate, Connections
<1>3. /\ q.calls = s.calls /\ q.ops = s.ops /\ q.current = s.current /\ q.http = s.http
      /\ q.writing = s.writing /\ q.wire = s.wire /\ q.state = s.state /\ q.ec = s.ec
      /\ q.posted = s.posted /\ q.queue = s.queue /\ q.timer = s.timer
  BY DEF Kept, Fields
<1>4. \A x : Due(q, x) = IF tstat = x THEN Due(s, x) - 1 ELSE Due(s, x)
  OBVIOUS
<1>5. s.state # "connecting"
  <2>1. s.stops # <<>>
    BY <1>1 DEF Connections
  <2> QED
    BY <2>1, <1>1 DEF Base, Core, TellInv
<1> HIDE DEF tstat
<1>6. /\ calls \in [open : Nat, fail : Nat, close : Nat] /\ calls.open = s.calls.open
      /\ calls.close = IF tstat = "closed" THEN s.calls.close + 1 ELSE s.calls.close
      /\ calls.fail = IF tstat = "failed" /\ s.ec # "http_connection_ended"
                      THEN s.calls.fail + 1 ELSE s.calls.fail
  <2>1. q.calls \in [open : Nat, fail : Nat, close : Nat]
    BY DEF Connections
  <2> QED
    BY <2>1, <1>1, <1>3
<1> HIDE DEF calls
<1>7. r \in Connections /\ r.calls = calls
  BY <1>6 DEF Connections
<1>8. Kept(q, r, {"calls"})
  BY DEF Connections, Kept, Fields
<1> HIDE DEF r
<1>9. /\ r.ops = s.ops /\ r.current = s.current /\ r.http = s.http
      /\ r.writing = s.writing /\ r.wire = s.wire /\ r.state = s.state /\ r.ec = s.ec
      /\ r.posted = s.posted /\ r.queue = s.queue /\ r.timer = s.timer /\ r.stops = q.stops
  BY <1>3, <1>8 DEF Kept, Fields
<1>10. \A x : Due(r, x) = Due(q, x)
  BY <1>9 DEF Due
<1>11. /\ r.calls.close + Due(r, "closed") = s.calls.close + Due(s, "closed")
       /\ r.calls.fail + Due(r, "failed") = s.calls.fail + Due(s, "failed")
          \/ /\ s.ec = "http_connection_ended" /\ tstat = "failed"
             /\ r.calls.fail + Due(r, "failed") = s.calls.fail + Due(s, "failed") - 1
       /\ r.calls.open = s.calls.open
  <2>1. /\ s.calls.close \in Nat /\ s.calls.fail \in Nat
        /\ Due(s, "closed") \in Nat /\ Due(s, "failed") \in Nat
    BY <1>1, DueFinite DEF Connections
  <2>2. CASE tstat = "closed"
    BY <2>1, <2>2, <1>4, <1>6, <1>7, <1>10
  <2>3. CASE tstat = "failed"
    BY <2>1, <2>3, <1>4, <1>6, <1>7, <1>10
  <2> QED
    BY <2>2, <2>3, <1>1
<1>12. TellInv(r, u)
  <2>1. /\ s.calls.open \in Nat /\ s.calls.close \in Nat /\ s.calls.fail \in Nat
        /\ r.calls.close \in Nat /\ r.calls.fail \in Nat
        /\ Due(s, "closed") \in Nat /\ Due(s, "failed") \in Nat
        /\ Due(r, "closed") \in Nat /\ Due(r, "failed") \in Nat
    BY <1>1, <1>7, DueFinite DEF Connections
  <2>2. s.ec = "http_connection_ended" => s.http = "closed"
    BY <1>1 DEF Base, HttpInv
  <2>3. TellInv(s, u)
    BY <1>1 DEF Base, Core
  <2>4. r.calls.fail + Due(r, "failed") <= 1
    BY <2>1, <2>3, <1>11 DEF TellInv
  <2>5. r.calls.open <= 1 /\ (r.calls.open + r.calls.fail + Due(r, "failed") = 2 => "extension" \in u.faults)
    <3>1. s.calls.open <= 1 /\ s.calls.fail + Due(s, "failed") <= 1
      BY <2>3 DEF TellInv
    <3>2. CASE r.calls.fail + Due(r, "failed") = s.calls.fail + Due(s, "failed")
      <4>1. r.calls.open + r.calls.fail + Due(r, "failed") = s.calls.open + s.calls.fail + Due(s, "failed")
        BY <3>2, <2>1, <1>11
      <4> QED
        BY <3>1, <4>1, <2>3, <1>11 DEF TellInv
    <3>3. CASE r.calls.fail + Due(r, "failed") = s.calls.fail + Due(s, "failed") - 1
      <4>1. r.calls.open + r.calls.fail + Due(r, "failed") <= 1
        BY <3>1, <3>3, <2>1, <1>11
      <4> QED
        BY <3>1, <4>1, <1>11
    <3> QED
      BY <3>2, <3>3, <1>11
  <2>6. r.calls.close + Due(r, "closed") + (IF r.state \in {"open", "closing"} THEN 1 ELSE 0)
          <= r.calls.open + Crossed(u)
    BY <2>3, <1>9, <1>11 DEF TellInv
  <2>7. ASSUME r.state = "closed", r.http # "closed"
        PROVE  r.calls.fail + Due(r, "failed") + r.calls.close + Due(r, "closed") > 0
    <3>1. s.calls.fail + Due(s, "failed") + s.calls.close + Due(s, "closed") > 0
      BY <2>3, <2>7, <1>9 DEF TellInv
    <3>2. r.calls.fail + Due(r, "failed") = s.calls.fail + Due(s, "failed")
      BY <2>2, <2>7, <1>9, <1>11
    <3> QED
      BY <3>1, <3>2, <2>1, <1>11
  <2> QED
    BY <2>4, <2>5, <2>6, <2>7, <1>5, <1>9 DEF TellInv
<1>13. InTurn(r) /\ WriteInv(r) /\ ReadInv(r, u) /\ QueueInv(r, u) /\ UserInv(r, u)
  BY <1>1, <1>9 DEF Base, Core, InTurn, WriteInv, ReadInv, QueueInv, UserInv
<1>14. HttpInv(r) /\ ClosingInv(r)
  BY <1>1, <1>9 DEF Base, HttpInv, ClosingInv, Pending
<1>15. Base(r, u)
  BY <1>1, <1>7, <1>12, <1>13, <1>14 DEF Base, Core
<1> QED
  BY <1>2, <1>5, <1>9, <1>15, OverDone DEF tstat

-----------------------------------------------------------------------------
(***************************************************************************)
(* What other threads have posted and call                                 *)
(***************************************************************************)

Posteds == [write : Nat, pause : BOOLEAN, resume : BOOLEAN]

Posts(s, posted, reading) == [s EXCEPT !.posted = posted, !.reading = reading]

LEMMA PostedEffect ==
  ASSUME NEW s \in Connections, NEW posted \in Posteds, NEW reading \in BOOLEAN
  PROVE  LET r == Posts(s, posted, reading) IN
         /\ r \in Connections /\ r.posted = posted
         /\ Kept(s, r, {"reading", "writing", "current", "ops", "cancelled", "posted"})
         /\ r.ops = s.ops /\ r.current = s.current /\ r.writing = s.writing /\ r.state = s.state
<1> DEFINE r == Posts(s, posted, reading)
<1>1. r \in Connections /\ r.posted = posted
  BY DEF Connections, Posts, Posteds
<1>2. Kept(s, r, {"posted", "reading"})
  BY DEF Connections, Kept, Fields, Posts
<1> HIDE DEF r
<1>3. Kept(s, r, {"reading", "writing", "current", "ops", "cancelled", "posted"})
  BY <1>2 DEF Kept
<1>4. r.ops = s.ops /\ r.current = s.current /\ r.writing = s.writing /\ r.state = s.state
  BY <1>2 DEF Kept, Fields
<1> QED
  BY <1>1, <1>3, <1>4 DEF r

LEMMA PostsDone ==
  ASSUME NEW s, NEW u, Done(s, u),
         NEW posted \in Posteds, NEW reading \in BOOLEAN,
         posted.resume => s.posted.resume
  PROVE  Done(Posts(s, posted, reading), u)
<1> DEFINE r == Posts(s, posted, reading)
<1>1. s \in Connections /\ Base(s, u)
  BY DEF Done, Base, Core
<1>2. /\ r \in Connections /\ r.posted = posted
      /\ Kept(s, r, {"reading", "writing", "current", "ops", "cancelled", "posted"})
      /\ r.ops = s.ops /\ r.current = s.current /\ r.writing = s.writing /\ r.state = s.state
  BY <1>1, PostedEffect
<1> HIDE DEF r
<1>3. s.ops["read_frame"] \in Nat
  BY <1>1 DEF Connections, Ops
<1>4. WriteInv(r) /\ ReadInv(r, u)
  BY <1>1, <1>2, <1>3 DEF Base, Core, WriteInv, ReadInv
<1>5. Base(r, u) /\ PhaseInv(r)
  BY <1>1, <1>2, <1>4, Turned DEF Done
<1> QED
  BY <1>5 DEF Done, r

LEMMA ResumedDone ==
  ASSUME NEW s, NEW u, Done(s, u), s.posted.resume,
         NEW posted \in Posteds, ~posted.resume
  PROVE  Done(ReadFrame(Posts(s, posted, TRUE)), u)
<1> DEFINE r == Posts(s, posted, TRUE)
<1>1. s \in Connections /\ Base(s, u)
  BY DEF Done, Base, Core
<1>2. Done(r, u)
  BY PostsDone
<1>3. r.posted = posted /\ r.ops = s.ops /\ r.state = s.state
  BY <1>1, PostedEffect
<1> HIDE DEF r
<1>4. s.ops["read_frame"] <= 1 /\ s.ops["read_frame"] \in Nat /\ s.state # "connecting" /\ "resume" \notin u.todo
  <2>1. s.ops["read_frame"] \in Nat
    BY <1>1 DEF Connections, Ops
  <2> QED
    BY <2>1, <1>1 DEF Base, Core, ReadInv
<1>5. Room(r, u)
  BY <1>3, <1>4 DEF Room
<1>6. Base(ReadFrame(r), u) /\ ReadFrame(r).state # "connecting"
  BY <1>2, <1>3, <1>4, <1>5, ReadAsked DEF Done
<1> QED
  BY <1>6, OverDone DEF r

\* The users' side of the invariant.
LEMMA UserChanged ==
  ASSUME NEW s, NEW u, Done(s, u), NEW v \in Users, v.faults = u.faults,
         Crossed(u) <= Crossed(v), v.todo \subseteq u.todo, UserInv(s, v)
  PROVE  Done(s, v)
<1>1. s \in Connections /\ Base(s, u) /\ u \in Users
  BY DEF Done, Base, Core
<1>2. /\ Crossed(u) \in {0, 1} /\ Crossed(v) \in {0, 1}
      /\ s.calls.open \in Nat /\ s.calls.close \in Nat /\ Due(s, "closed") \in Nat
  BY <1>1, DueFinite DEF Connections, Crossed
<1>3. TellInv(s, v)
  <2>1. TellInv(s, u)
    BY <1>1 DEF Base, Core
  <2>2. s.calls.close + Due(s, "closed") + (IF s.state \in {"open", "closing"} THEN 1 ELSE 0)
          <= s.calls.open + Crossed(v)
    BY <2>1, <1>2 DEF TellInv
  <2> QED
    BY <2>1, <2>2 DEF TellInv
<1>4. ReadInv(s, v)
  <2>1. s.ops["read_frame"] \in Nat
    BY <1>1 DEF Connections, Ops
  <2>2. ReadInv(s, u)
    BY <1>1 DEF Base, Core
  <2> QED
    BY <2>1, <2>2 DEF ReadInv
<1>5. QueueInv(s, v)
  BY <1>1 DEF Base, Core, QueueInv
<1> QED
  BY <1>1, <1>3, <1>4, <1>5 DEF Done, Base, Core

Makes(u, todo, doing) == [u EXCEPT !.todo = todo, !.doing = doing]

LEMMA UserEffect ==
  ASSUME NEW u \in Users, NEW todo \in SUBSET Calls, NEW doing \in {"none", "close", "send", "ping"}
  PROVE  LET v == Makes(u, todo, doing) IN
         v \in Users /\ v.todo = todo /\ v.doing = doing /\ v.faults = u.faults
BY DEF Users, Makes

LEMMA CallChecksDone ==
  ASSUME NEW c, IInv, CallChecks(c)
  PROVE  IInv'
<1> DEFINE doing == IF con.state = "open" THEN c ELSE "none"
           todo == user.todo \ {c}
<1>1. /\ c \in {"close", "send", "ping"} /\ c \in user.todo /\ user.doing = "none"
      /\ user' = Makes(user, todo, doing)
      /\ con' = con /\ frames' = frames
  BY DEF CallChecks, Makes
<1>2. Done(con, user) /\ user \in Users /\ frames \in Nat
  BY DEF IInv, Done, Base, Core
<1>3. todo \in SUBSET Calls /\ doing \in {"none", "close", "send", "ping"}
  BY <1>1, <1>2 DEF Users
<1>4. /\ user' \in Users /\ user'.todo = todo /\ user'.doing = doing /\ user'.faults = user.faults
  <2> HIDE DEF todo, doing
  <2> QED
    BY <1>1, <1>2, <1>3, UserEffect
<1>5. Crossed(user) <= Crossed(user')
  BY <1>1, <1>4 DEF Crossed
<1>6. UserInv(con, user') /\ RaceInv(con, user')
  BY <1>4 DEF UserInv, RaceInv
<1>7. Done(con, user')
  BY <1>2, <1>4, <1>5, <1>6, UserChanged
<1> QED
  BY <1>1, <1>2, <1>6, <1>7 DEF IInv, Done

LEMMA CallActsDone ==
  ASSUME IInv, CallActs
  PROVE  IInv'
<1>1. /\ Done(con, user) /\ con \in Connections /\ user \in Users /\ frames \in Nat
      /\ UserInv(con, user) /\ RaceInv(con, user) /\ Base(con, user) /\ TellInv(con, user)
  BY DEF IInv, Done, Base, Core
<1>2. user.doing # "none" /\ user' = Makes(user, user.todo, "none") /\ frames' = frames
  BY <1>1 DEF CallActs, Users, Makes
<1>3. user' \in Users /\ user'.todo = user.todo /\ user'.doing = "none" /\ user'.faults = user.faults
  <2>1. user.todo \in SUBSET Calls
    BY <1>1 DEF Users
  <2> QED
    BY <1>1, <1>2, <2>1, UserEffect
<1>4. con.state # "connecting" /\ ("race" \notin user.faults => con.state = "open")
  BY <1>1, <1>2 DEF UserInv, RaceInv
<1>5. Done(con, user')
  <2>1. Crossed(user) <= Crossed(user')
    BY <1>3 DEF Crossed
  <2>2. UserInv(con, user')
    BY <1>3 DEF UserInv
  <2> QED
    BY <2>1, <2>2, <1>1, <1>3, UserChanged
<1>6. CASE user.doing = "close"
  <2>1. PICK terminal \in BOOLEAN : con' = SendCloseFrame(con, FALSE, terminal)
    BY <1>6 DEF CallActs
  <2>2. con.calls.close + Due(con, "closed") + 1 <= con.calls.open + Crossed(user')
    <3>1. /\ con.calls.open \in Nat /\ con.calls.close \in Nat /\ Due(con, "closed") \in Nat
          /\ con.state \in States
      BY <1>1, DueFinite DEF Connections
    <3>2. CASE "race" \in user.faults
      <4>1. Crossed(user) = 0 /\ Crossed(user') = 1
        BY <1>1, <1>3, <1>6, <3>2 DEF Crossed, UserInv
      <4>2. con.calls.close + Due(con, "closed") <= con.calls.open
        BY <1>1, <3>1, <4>1 DEF TellInv
      <4> QED
        BY <3>1, <4>1, <4>2
    <3>3. CASE "race" \notin user.faults
      <4>1. con.state = "open" /\ Crossed(user) = 0 /\ Crossed(user') = 0
        BY <1>3, <1>4, <3>3 DEF Crossed
      <4> QED
        BY <1>1, <3>1, <4>1 DEF TellInv
    <3> QED
      BY <3>2, <3>3
  <2>3. Base(con', user') /\ con'.state = "closing"
    BY <1>4, <1>5, <2>1, <2>2, CloseSent DEF Done
  <2> QED
    BY <2>3, <1>1, <1>2, <1>3, OverDone DEF IInv, Done, RaceInv
<1>7. CASE user.doing = "send"
  <2>1. con' = Push(con, "data", FALSE)
    BY <1>7 DEF CallActs, Send
  <2>2. Base(con', user') /\ con'.state = con.state
    BY <1>3, <1>4, <1>5, <2>1, Pushed DEF Done
  <2> QED
    BY <2>2, <1>1, <1>2, <1>3, <1>4, OverDone DEF IInv, Done, RaceInv
<1>8. CASE user.doing = "ping"
  <2> DEFINE q == Cancel(con, "ping")
             r == Set(q, "ping")
  <2>1. con' = Push(r, "ping", FALSE)
    BY <1>8 DEF CallActs, Ping
  <2>2. "ping" \in Timers /\ CloseTimers \subseteq Timers \ {"ping"}
    BY DEF Timers, CloseTimers
  <2>3. q \in Connections /\ Kept(con, q, {"timer"}) /\ \A t \in CloseTimers : q.timer[t] = con.timer[t]
    BY <1>1, <2>2, CancelEffect
  <2> HIDE DEF q
  <2>4. r \in Connections /\ Kept(q, r, {"timer"}) /\ r.timer = [q.timer EXCEPT !["ping"] = "set"]
    BY <2>2, <2>3, SetEffect
  <2> HIDE DEF r
  <2>5. q.timer \in TimerStates
    BY <2>3 DEF Connections
  <2>6. \A t \in CloseTimers : r.timer[t] = con.timer[t]
    BY <2>2, <2>3, <2>4, <2>5 DEF TimerStates
  <2>7. Kept(con, r, {"istate", "status", "clean", "reading", "cancelled", "handshake", "timer"})
    BY <2>3, <2>4 DEF Kept
  <2>8. Base(r, user') /\ r.state = con.state
    <3>1. r.state = con.state
      BY <2>7 DEF Kept, Fields
    <3> QED
      BY <3>1, <1>5, <2>4, <2>6, <2>7, Unconcerned DEF Done
  <2>9. Base(con', user') /\ con'.state = con.state
    BY <1>3, <1>4, <2>1, <2>8, Pushed
  <2> QED
    BY <2>9, <1>1, <1>2, <1>3, <1>4, OverDone DEF IInv, Done, RaceInv
<1> QED
  BY <1>6, <1>7, <1>8 DEF CallActs

LEMMA PostsCallDone ==
  ASSUME NEW c, IInv, PostsCall(c)
  PROVE  IInv'
<1> DEFINE todo == user.todo \ {c}
<1>1. /\ Done(con, user) /\ con \in Connections /\ user \in Users /\ frames \in Nat
      /\ Base(con, user)
  BY DEF IInv, Done, Base, Core
<1>2. /\ c \in {"pause", "resume", "respond"} /\ c \in user.todo /\ user.doing = "none"
      /\ user' = Makes(user, todo, "none") /\ frames' = frames
  BY <1>1 DEF PostsCall, Users, Makes
<1>3. user' \in Users /\ user'.todo = todo /\ user'.doing = "none" /\ user'.faults = user.faults
  <2>1. todo \in SUBSET Calls /\ "none" \in {"none", "close", "send", "ping"}
    BY <1>1 DEF Users
  <2> HIDE DEF todo
  <2> QED
    BY <1>1, <1>2, <2>1, UserEffect
<1>4. RaceInv(con', user')
  BY <1>3 DEF RaceInv
<1>5. Done(con, user')
  <2>1. Crossed(user) <= Crossed(user')
    BY <1>2, <1>3 DEF Crossed
  <2>2. UserInv(con, user')
    BY <1>3 DEF UserInv
  <2> QED
    BY <2>1, <2>2, <1>1, <1>3, UserChanged
<1>6. con.posted \in [write : Nat, pause : BOOLEAN, resume : BOOLEAN] /\ con.reading \in BOOLEAN
  BY <1>1 DEF Connections
<1>7. CASE c = "pause"
  <2> DEFINE posted == [con.posted EXCEPT !.pause = TRUE]
  <2>1. con' = Posts(con, posted, con.reading)
    <3>1. con' = [con EXCEPT !.posted.pause = TRUE]
      BY <1>7 DEF PostsCall, PauseReading
    <3> QED
      BY <1>1, <3>1, ZenonT(60) DEF Connections, Posts
  <2>2. posted \in Posteds /\ posted.resume = con.posted.resume
    BY <1>6 DEF Posteds
  <2> HIDE DEF posted
  <2>3. Done(con', user')
    BY <1>5, <1>6, <2>1, <2>2, PostsDone
  <2> QED
    BY <2>3, <1>1, <1>2, <1>4 DEF IInv, Done
<1>8. CASE c = "resume"
  <2> DEFINE posted == [con.posted EXCEPT !.resume = TRUE]
  <2>1. con.state = "open" /\ con' = Posts(con, posted, con.reading)
    <3>1. con.state = "open" /\ con' = [con EXCEPT !.posted.resume = TRUE]
      BY <1>8 DEF PostsCall, ResumeReading
    <3> QED
      BY <1>1, <3>1, ZenonT(60) DEF Connections, Posts
  <2>2. posted \in Posteds /\ posted.resume
    BY <1>6 DEF Posteds
  <2> HIDE DEF posted
  <2>3. /\ con' \in Connections /\ con'.posted = posted
        /\ Kept(con, con', {"reading", "writing", "current", "ops", "cancelled", "posted"})
        /\ con'.ops = con.ops /\ con'.current = con.current /\ con'.writing = con.writing
        /\ con'.state = con.state
    BY <1>1, <1>6, <2>1, <2>2, PostedEffect
  <2>4. con.ops["read_frame"] <= 1
    BY <1>1, <1>2, <1>8 DEF Base, Core, ReadInv
  <2>5. ReadInv(con', user') /\ WriteInv(con')
    BY <1>1, <1>3, <1>8, <2>1, <2>2, <2>3, <2>4 DEF ReadInv, Base, Core, WriteInv
  <2>6. \A op \in Handshakes : con'.ops[op] = con.ops[op]
    BY <2>3
  <2>7. Base(con', user') /\ PhaseInv(con')
    BY <1>5, <2>3, <2>5, <2>6, Turned DEF Done
  <2> QED
    BY <2>7, <1>1, <1>2, <1>4 DEF IInv
<1>9. CASE c = "respond"
  <2> DEFINE r == [con EXCEPT !.http = "written"]
  <2>1. con.http = "deferred" /\ con' = WriteHttpResponse(r, "none")
    BY <1>9 DEF PostsCall, SendHttpResponse
  <2>2. con.state = "connecting" /\ con.ec # "http_connection_ended"
    BY <1>1, <2>1 DEF Base, HttpInv
  <2>3. Idle(con)
    BY <1>1, <2>1, <2>2 DEF Done, PhaseInv
  <2>4. r \in Connections /\ r.http = "written"
    BY <1>1 DEF Connections
  <2>5. Kept(con, r, {"http"})
    BY <1>1 DEF Connections, Kept, Fields
  <2> HIDE DEF r
  <2>6. Kept(con, r, {"istate", "ec", "http", "status", "handshake", "timer"})
    BY <2>5 DEF Kept
  <2>7. r.ec = con.ec /\ r.ops = con.ops /\ r.state = con.state
    BY <2>5 DEF Kept, Fields
  <2>8. Base(r, user')
    BY <1>5, <2>2, <2>4, <2>6, <2>7, StillConnecting DEF Done
  <2>9. Idle(r)
    BY <2>3, <2>7 DEF Idle
  <2>10. Done(con', user')
    BY <2>1, <2>2, <2>4, <2>7, <2>8, <2>9, ResponseDone
  <2> QED
    BY <2>10, <1>1, <1>2, <1>4 DEF IInv, Done
<1> QED
  BY <1>2, <1>7, <1>8, <1>9

-----------------------------------------------------------------------------
(***************************************************************************)
(* The invariant                                                           *)
(***************************************************************************)

LEMMA ChunksShort ==
  ASSUME NEW op, NEW chunk \in Chunks(op)
  PROVE  chunk \in TwoFrames /\ Len(chunk) \in Nat
<1>1. chunk \in TwoFrames
  BY DEF Chunks, TwoFrames
<1>2. CASE chunk = <<>>
  BY <1>1, <1>2
<1>3. ASSUME NEW f \in FrameKinds, chunk = <<f>> PROVE Len(chunk) = 1
  BY <1>3
<1>4. ASSUME NEW f \in FrameKinds, NEW g \in FrameKinds, chunk = <<f, g>> PROVE Len(chunk) = 2
  BY <1>4
<1> QED
  BY <1>1, <1>2, <1>3, <1>4 DEF TwoFrames

LEMMA CompletesDone ==
  ASSUME NEW op \in Ops, IInv, Complete(op)
  PROVE  Done(con', user) /\ frames' \in Nat /\ user' = user
<1>1. Done(con, user) /\ frames \in Nat /\ con.ops[op] > 0 /\ user' = user
  BY DEF IInv, Done, Complete
<1>2. PICK result \in Results(op) :
        \E answer \in IF result = "ok" THEN Answers(op) ELSE {"accepted"},
           chunk \in IF result = "ok" THEN Chunks(op) ELSE {<<>>},
           reply \in IF result = "ok" /\ Chunks(op) # {<<>>} THEN {"none", "close", "send"} ELSE {"none"} :
          /\ Len(chunk) <= frames
          /\ con' = Completed(Taken(con, op), op, result, chunk, reply, answer)
          /\ frames' = frames - Len(chunk)
  BY DEF Complete, Taken
<1>3. PICK answer \in IF result = "ok" THEN Answers(op) ELSE {"accepted"},
           chunk \in IF result = "ok" THEN Chunks(op) ELSE {<<>>},
           reply \in IF result = "ok" /\ Chunks(op) # {<<>>} THEN {"none", "close", "send"} ELSE {"none"} :
        /\ Len(chunk) <= frames
        /\ con' = Completed(Taken(con, op), op, result, chunk, reply, answer)
        /\ frames' = frames - Len(chunk)
  BY <1>2
<1>4. chunk \in TwoFrames /\ Len(chunk) \in Nat
  <2>1. chunk \in Chunks(op)
    BY <1>3 DEF Chunks
  <2> QED
    BY <2>1, ChunksShort
<1>5. op = "read_response" /\ answer = "badextension" => "extension" \in user.faults
  BY <1>3 DEF Answers, Responses
<1>6. op = "read_request" /\ result = "ok" => answer \in Requests
  BY <1>3 DEF Answers
<1>7. Done(con', user)
  BY <1>1, <1>3, <1>4, <1>5, <1>6, CompletedDone
<1>8. frames' \in Nat
  BY <1>1, <1>3, <1>4
<1> QED
  BY <1>1, <1>7, <1>8

LEMMA ShutdownsDone ==
  ASSUME NEW i \in DOMAIN con.stops, IInv, ShutdownDone(i) \/ ShutdownTimedOut(i)
  PROVE  Done(con', user)
<1>1. Done(con, user) /\ con \in Connections
  BY DEF IInv, Done, Base, Core
<1> DEFINE stops == RemoveAt(con.stops, i)
           q == [con EXCEPT !.stops = stops]
<1>2. stops \in Seq(Shutdowns) /\ con.stops[i] \in Shutdowns
  BY <1>1, RemovedType
<1> HIDE DEF stops
<1>3. q \in Connections /\ q.stops = stops
  BY <1>1, <1>2 DEF Connections
<1>4. Kept(con, q, {"stops"})
  BY <1>1 DEF Connections, Kept, Fields
<1> HIDE DEF q
<1>5. Kept(con, q, {"cancelled", "stops"})
  BY <1>4 DEF Kept
<1>6. /\ \A x : Due(q, x) = IF con.stops[i].tstat = x THEN Due(con, x) - 1 ELSE Due(con, x)
      /\ Done(HandleTerminate(q, con.stops[i].tstat), user)
  <2>1. \A x : Due(q, x) = IF con.stops[i].tstat = x THEN Due(con, x) - 1 ELSE Due(con, x)
    BY <1>1, <1>3, DueRemoved DEF stops
  <2> QED
    BY <2>1, <1>1, <1>3, <1>5, ShutdownDoneDone
<1>7. CASE ShutdownDone(i) /\ con' = HandleTerminate(q, con.stops[i].tstat)
  BY <1>6, <1>7
<1>8. CASE con' = [con EXCEPT !.stops[i].asked = FALSE]
  <2> DEFINE x == [con.stops[i] EXCEPT !.asked = FALSE]
             flags == [con.stops EXCEPT ![i] = x]
  <2>1. con' = [con EXCEPT !.stops = flags]
    BY <1>1, <1>8 DEF Connections
  <2>2. x \in Shutdowns /\ x.tstat = con.stops[i].tstat
    BY <1>2 DEF Shutdowns
  <2> HIDE DEF x
  <2>3. flags \in Seq(Shutdowns) /\ DOMAIN flags = DOMAIN con.stops /\ con.stops # <<>>
    BY <1>1, <2>2 DEF Connections
  <2>4. \A j \in DOMAIN con.stops : flags[j].tstat = con.stops[j].tstat
    BY <2>2
  <2> HIDE DEF flags
  <2>5. con' \in Connections /\ con'.stops = flags
    BY <1>1, <2>1, <2>3 DEF Connections
  <2>6. Kept(con, con', {"cancelled", "stops"})
    BY <1>1, <2>1 DEF Connections, Kept, Fields
  <2> QED
    BY <1>1, <2>3, <2>4, <2>5, <2>6, FlagsKept
<1>9. CASE ShutdownTimedOut(i)
  <2> DEFINE c == CancelSocket(q)
  <2>1. con' = HandleTerminate(c, con.stops[i].tstat)
    BY <1>9 DEF ShutdownTimedOut, q, stops
  <2>2. c \in Connections /\ Kept(q, c, {"cancelled", "stops"}) /\ \A x : Due(c, x) = Due(q, x)
    BY <1>3, SocketCancelled
  <2> HIDE DEF c
  <2>3. Kept(con, c, {"cancelled", "stops"})
    BY <1>5, <2>2 DEF Kept
  <2>4. \A x : Due(c, x) = IF con.stops[i].tstat = x THEN Due(con, x) - 1 ELSE Due(con, x)
    BY <1>6, <2>2
  <2> QED
    BY <1>1, <2>1, <2>2, <2>3, <2>4, ShutdownDoneDone
<1> QED
  BY <1>7, <1>8, <1>9 DEF ShutdownDone, q, stops

LEMMA PostedDone ==
  ASSUME IInv, PostedRuns
  PROVE  Done(con', user)
<1>1. Done(con, user) /\ con \in Connections
  BY DEF IInv, Done, Base, Core
<1>2. con.posted \in Posteds /\ con.reading \in BOOLEAN
  BY <1>1 DEF Connections, Posteds
<1>3. CASE con.posted.write > 0 /\ con' = WriteFrame([con EXCEPT !.posted.write = @ - 1])
  <2> DEFINE posted == [con.posted EXCEPT !.write = @ - 1]
  <2>1. con' = WriteFrame(Posts(con, posted, con.reading))
    BY <1>1, <1>3 DEF Connections, Posts
  <2>2. posted \in Posteds /\ posted.resume = con.posted.resume
    BY <1>2, <1>3 DEF Posteds
  <2> HIDE DEF posted
  <2>3. Done(Posts(con, posted, con.reading), user)
    BY <1>1, <1>2, <2>2, PostsDone
  <2> QED
    BY <2>1, <2>3, FrameWritten
<1>4. CASE con' = HandlePauseReading([con EXCEPT !.posted.pause = FALSE])
  <2> DEFINE posted == [con.posted EXCEPT !.pause = FALSE]
  <2>1. con' = Posts(con, posted, FALSE)
    BY <1>1, <1>4 DEF Connections, Posts, HandlePauseReading
  <2>2. posted \in Posteds /\ posted.resume = con.posted.resume
    BY <1>2 DEF Posteds
  <2> HIDE DEF posted
  <2> QED
    BY <1>1, <2>1, <2>2, PostsDone
<1>5. CASE con.posted.resume /\ con' = HandleResumeReading([con EXCEPT !.posted.resume = FALSE])
  <2> DEFINE posted == [con.posted EXCEPT !.resume = FALSE]
  <2>1. con' = ReadFrame(Posts(con, posted, TRUE))
    BY <1>1, <1>5 DEF Connections, Posts, HandleResumeReading
  <2>2. posted \in Posteds /\ ~posted.resume
    BY <1>2 DEF Posteds
  <2> HIDE DEF posted
  <2> QED
    BY <1>1, <1>5, <2>1, <2>2, ResumedDone
<1> QED
  BY <1>3, <1>4, <1>5 DEF PostedRuns

\* A connection begins in order, and an accepted one with its first operation.
LEMMA NewDone ==
  ASSUME NEW server \in BOOLEAN, NEW proxied \in BOOLEAN, NEW u \in Users, u.doing = "none"
  PROVE  Done(New(server, proxied), u)
<1> DEFINE timer == [t \in Timers |-> "unset"]
           ops == [op \in Ops |-> 0]
           blank ==
             [server |-> server, proxied |-> proxied, state |-> "connecting", istate |-> "USER_INIT",
              ec |-> "none", http |-> "none", status |-> "unset", clean |-> FALSE,
              reading |-> TRUE, writing |-> FALSE, queue |-> <<>>, current |-> <<>>,
              timer |-> timer, handshake |-> "none", ops |-> ops, cancelled |-> {}, stops |-> <<>>,
              posted |-> [write |-> 0, pause |-> FALSE, resume |-> FALSE],
              calls |-> [open |-> 0, fail |-> 0, close |-> 0],
              wire |-> [closed |-> FALSE, late |-> FALSE]]
<1>1. New(server, proxied) = IF server THEN Start(blank) ELSE Ask(Set(blank, "dns"), "resolve")
  BY DEF New, AsyncConnect
<1>2. /\ timer \in TimerStates
      /\ ops \in [Ops -> Nat] /\ \A op \in Ops : ops[op] = 0
      /\ <<>> \in Seq(Messages) /\ <<>> \in Seq(Shutdowns)
      /\ [write |-> 0, pause |-> FALSE, resume |-> FALSE] \in [write : Nat, pause : BOOLEAN, resume : BOOLEAN]
      /\ [open |-> 0, fail |-> 0, close |-> 0] \in [open : Nat, fail : Nat, close : Nat]
  BY DEF TimerStates
<1> HIDE DEF timer, ops
<1>3. blank \in Connections
  BY <1>2 DEF Connections, States, Errors
<1>4. /\ blank.state = "connecting" /\ blank.ec = "none" /\ blank.http = "none"
      /\ blank.queue = <<>> /\ blank.current = <<>> /\ blank.ops = ops /\ blank.stops = <<>>
      /\ blank.posted.resume = FALSE /\ blank.wire.closed = FALSE /\ blank.wire.late = FALSE
      /\ blank.calls.open = 0 /\ blank.calls.fail = 0 /\ blank.calls.close = 0
  OBVIOUS
<1> HIDE DEF blank
<1>5. Due(blank, "failed") = 0 /\ Due(blank, "closed") = 0
  BY <1>3, <1>4, DueFinite
<1>6. TellInv(blank, u)
  BY <1>4, <1>5 DEF TellInv, Crossed
<1>7. /\ {"read_frame", "write_frame", "resolve"} \subseteq Ops /\ Handshakes \subseteq Ops
      /\ "resolve" \in Handshakes /\ TimerOf("resolve") = "dns"
  BY DEF Ops, Handshakes, TimerOf
<1>8. Idle(blank) /\ InTurn(blank)
  BY <1>2, <1>4, <1>7 DEF Idle, InTurn
<1>9. ReadInv(blank, u) /\ WriteInv(blank)
  BY <1>2, <1>4, <1>7 DEF ReadInv, WriteInv
<1>10. QueueInv(blank, u)
  BY <1>4 DEF QueueInv
<1>11. UserInv(blank, u) /\ HttpInv(blank) /\ ClosingInv(blank)
  BY <1>4 DEF UserInv, HttpInv, ClosingInv
<1>12. Free(blank, u)
  BY <1>3, <1>4, <1>6, <1>8, <1>9, <1>10, <1>11 DEF Free, Base, Core
<1>13. Done(Ask(Set(blank, "dns"), "resolve"), u)
  BY <1>7, <1>12, SetWatches
<1> QED
  BY <1>1, <1>12, <1>13, Started

LEMMA InitIInv ==
  ASSUME Init
  PROVE  IInv
<1>1. PICK scenario \in Scenarios :
        /\ con = New(scenario.server, scenario.proxied)
        /\ user = [todo |-> scenario.todo, doing |-> "none", faults |-> scenario.faults]
        /\ frames = scenario.frames
  BY DEF Init
<1>2. /\ scenario.server \in BOOLEAN /\ scenario.proxied \in BOOLEAN /\ scenario.frames \in Nat
      /\ scenario.todo \in SUBSET Calls /\ scenario.faults \in SUBSET {"extension", "race"}
  BY ScenariosAssumption DEF Calls
<1>3. user \in Users /\ user.doing = "none"
  BY <1>1, <1>2 DEF Users
<1>4. Done(con, user)
  BY <1>1, <1>2, <1>3, NewDone
<1> QED
  BY <1>1, <1>2, <1>3, <1>4 DEF IInv, Done, RaceInv

LEMMA NextIInv ==
  ASSUME IInv, [Next]_vars
  PROVE  IInv'
<1>1. Done(con, user) /\ frames \in Nat /\ RaceInv(con, user)
  BY DEF IInv, Done
<1>2. ASSUME user.doing = "none" \/ "race" \in user.faults, Strand
      PROVE  IInv'
  <2>1. ASSUME NEW op \in Ops, Complete(op) PROVE IInv'
    BY <2>1, <1>2, CompletesDone DEF IInv, Done, RaceInv
  <2>2. ASSUME NEW t \in Timers, TimerRuns(t) PROVE IInv'
    <3>1. Done(con', user)
      BY <2>2, <1>1, TimedOutDone DEF TimerRuns
    <3> QED
      BY <3>1, <2>2, <1>1, <1>2 DEF TimerRuns, IInv, Done, RaceInv
  <2>3. ASSUME NEW i \in DOMAIN con.stops, ShutdownDone(i) \/ ShutdownTimedOut(i) PROVE IInv'
    <3>1. Done(con', user)
      BY <2>3, ShutdownsDone
    <3>2. user' = user /\ frames' = frames
      BY <2>3 DEF ShutdownDone, ShutdownTimedOut
    <3> QED
      BY <3>1, <3>2, <1>1, <1>2 DEF IInv, Done, RaceInv
  <2>4. ASSUME PostedRuns PROVE IInv'
    <3>1. Done(con', user)
      BY <2>4, PostedDone
    <3> QED
      BY <3>1, <2>4, <1>1, <1>2 DEF PostedRuns, IInv, Done, RaceInv
  <2> QED
    BY <1>2, <2>1, <2>2, <2>3, <2>4 DEF Strand
<1>3. ASSUME NEW t \in Timers, TimerFires(t) PROVE IInv'
  <2>1. Done(con', user) /\ con'.state = con.state
    BY <1>1, <1>3, TimerFired DEF TimerFires
  <2> QED
    BY <2>1, <1>1, <1>3 DEF TimerFires, IInv, Done, RaceInv
<1>4. ASSUME NEW i \in DOMAIN con.stops, ShutdownTimerFires(i) PROVE IInv'
  <2> DEFINE x == [con.stops[i] EXCEPT !.timer = "fired"]
             flags == [con.stops EXCEPT ![i] = x]
  <2>0. con \in Connections
    BY <1>1 DEF Done, Base, Core
  <2>1. con' = [con EXCEPT !.stops = flags] /\ user' = user /\ frames' = frames
    BY <1>4, <2>0 DEF ShutdownTimerFires, Connections
  <2>2. x \in Shutdowns /\ x.tstat = con.stops[i].tstat
    <3>1. con.stops[i] \in Shutdowns
      BY <2>0, RemovedType
    <3> QED
      BY <3>1 DEF Shutdowns
  <2> HIDE DEF x
  <2>3. flags \in Seq(Shutdowns) /\ DOMAIN flags = DOMAIN con.stops /\ con.stops # <<>>
    BY <2>0, <2>2 DEF Connections
  <2>4. \A j \in DOMAIN con.stops : flags[j].tstat = con.stops[j].tstat
    BY <2>2
  <2> HIDE DEF flags
  <2>5. con' \in Connections /\ con'.stops = flags
    BY <2>0, <2>1, <2>3 DEF Connections
  <2>6. Kept(con, con', {"stops"})
    BY <2>0, <2>1 DEF Connections, Kept, Fields
  <2>7. Kept(con, con', {"cancelled", "stops"}) /\ con'.state = con.state
    BY <2>6 DEF Kept, Fields
  <2>8. Done(con', user)
    BY <1>1, <2>3, <2>4, <2>5, <2>7, FlagsKept
  <2> QED
    BY <2>1, <2>7, <2>8, <1>1 DEF IInv, Done, RaceInv
<1>5. ASSUME NEW c \in Calls, CallChecks(c) \/ PostsCall(c) PROVE IInv'
  BY <1>5, CallChecksDone, PostsCallDone
<1>6. ASSUME CallActs PROVE IInv'
  BY <1>6, CallActsDone
<1>7. ASSUME UNCHANGED vars PROVE IInv'
  <2>1. con' = con /\ user' = user /\ frames' = frames
    BY <1>7 DEF vars
  <2> QED
    BY <2>1, <1>1 DEF IInv, Done
<1> QED
  BY <1>2, <1>3, <1>4, <1>5, <1>6, <1>7 DEF Next

-----------------------------------------------------------------------------
(***************************************************************************)
(* What it says                                                            *)
(***************************************************************************)

\* The invariant of a connection: its ends are counted as reported or due to be
\* reported, one operation of the opening handshake is under way at a time with its
\* own timer running, and a write under way holds the next one back
\* (connection_impl.hpp:774-784, 1434-1475, 1546-1925, 2065-2248,
\* asio/connection.hpp:496-525, 1036-1131).
THEOREM Invariance == Spec => []IInv
<1>1. Init => IInv
  BY InitIInv
<1>2. IInv /\ [Next]_vars => IInv'
  BY NextIInv
<1> QED
  BY <1>1, <1>2, PTL DEF Spec

\* Whatever the scenarios, the open, fail and close handlers are called as promised
\* and no connection is left that nothing will ever end (connection_impl.hpp:774-784,
\* 1434-1475, 1546-1792, 2065-2157).
THEOREM Reported == Spec => []ConnectionReported
<1>1. ASSUME IInv PROVE ConnectionReported
  <2>1. Base(con, user) /\ PhaseInv(con) /\ con \in Connections /\ TellInv(con, user)
    BY <1>1 DEF IInv, Base, Core
  <2>2. /\ con.calls.open \in Nat /\ con.calls.fail \in Nat /\ con.calls.close \in Nat
        /\ Due(con, "failed") \in Nat /\ Due(con, "closed") \in Nat
    BY <2>1, DueFinite DEF Connections
  <2>3. HandlersAsPromised
    <3>1. con.calls.open <= 1 /\ con.calls.fail + Due(con, "failed") <= 1
      BY <2>1 DEF TellInv
    <3>2. con.calls.open + con.calls.fail = 2 => "extension" \in user.faults
      <4>1. con.calls.open + con.calls.fail = 2 =>
              con.calls.open + con.calls.fail + Due(con, "failed") = 2
        BY <2>2, <3>1
      <4> QED
        BY <4>1, <2>1 DEF TellInv
    <3>3. con.calls.close <= con.calls.open + Crossed(user)
      <4>1. con.calls.close + Due(con, "closed") + (IF con.state \in {"open", "closing"} THEN 1 ELSE 0)
              <= con.calls.open + Crossed(user)
        BY <2>1 DEF TellInv
      <4>2. Crossed(user) \in {0, 1}
        BY DEF Crossed
      <4> QED
        BY <2>2, <4>1, <4>2
    <3>4. Crossed(user) <= IF "race" \in user.faults THEN 1 ELSE 0
      BY DEF Crossed
    <3>5. Crossed(user) \in {0, 1}
      BY DEF Crossed
    <3> QED
      BY <2>2, <3>1, <3>2, <3>3, <3>4, <3>5 DEF HandlersAsPromised
  <2>4. ASSUME con.state = "closing"
        PROVE  \E t \in Timers \ {"ping"} : con.timer[t] \in {"set", "fired"}
    BY <2>1, <2>4 DEF Base, ClosingInv, CloseTimers, Pending, Timers
  <2>5. ASSUME con.state = "connecting", con.http # "deferred"
        PROVE  \/ \E t \in Timers \ {"ping"} : con.timer[t] \in {"set", "fired"}
               \/ con.ops["send_response"] > 0 /\ con.http = "written"
    <3>1. CASE con.http = "written"
      BY <2>1, <2>5, <3>1 DEF PhaseInv
    <3>2. CASE con.http # "written"
      <4>1. PICK t \in {"dns", "connect", "proxy", "post", "open"} : Pending(con, t)
        BY <2>1, <2>5, <3>2 DEF PhaseInv
      <4> QED
        BY <4>1 DEF Pending, Timers
    <3> QED
      BY <3>1, <3>2
  <2>6. ASSUME con.state = "closed", con.stops = <<>>
        PROVE  con.calls.fail + con.calls.close > 0 \/ con.http = "closed"
    <3>1. Due(con, "failed") = 0 /\ Due(con, "closed") = 0
      BY <2>1, <2>6, DueFinite
    <3> QED
      BY <2>1, <2>2, <2>6, <3>1 DEF TellInv
  <2>7. NothingStuck
    BY <2>4, <2>5, <2>6 DEF NothingStuck
  <2> QED
    BY <2>3, <2>7 DEF ConnectionReported
<1> QED
  BY <1>1, Invariance, PTL

\* Whatever the scenarios, the transport never has two writes, two of the handshake's
\* operations of a kind or, without a resumption, two reads under way, and without a
\* race nothing but close frames follows a close frame (connection_impl.hpp:104-150,
\* 304-395, 1110-1128, 1793-1925).
THEOREM TakesTurns == Spec => []ConnectionInTurn
<1>1. ASSUME IInv PROVE ConnectionInTurn
  <2>1. Base(con, user) /\ con \in Connections
    BY <1>1 DEF IInv, Base, Core
  <2>2. /\ con.ops["write_frame"] <= 1
        /\ con.ops["write_frame"] = 1 <=> con.current # <<>>
        /\ con.current # <<>> => con.writing
    BY <2>1 DEF Base, Core, WriteInv
  <2>3. \A op \in Ops \ {"read_frame"} : con.ops[op] <= 1
    BY <2>1, <2>2 DEF Base, Core, InTurn, Handshakes
  <2>4. con.ops["read_frame"] <= IF "resume" \in user.todo \/ con.posted.resume THEN 1 ELSE 2
    BY <2>1 DEF Base, Core, ReadInv
  <2>5. SilentAfterClose
    BY <2>1 DEF Base, Core, QueueInv, SilentAfterClose
  <2> QED
    BY <2>2, <2>3, <2>4, <2>5 DEF ConnectionInTurn, OneAtATime
<1> QED
  BY <1>1, Invariance, PTL

-----------------------------------------------------------------------------
(* The payloads of a connection's frames, of any length and cut anywhere.      *)
CONSTANT SizeBasic

Payload == INSTANCE WsPayloads

Bytes == 0 .. 255

\* Which byte of a shifted key masks the byte at a place
LEMMA ShiftedKey ==
  ASSUME NEW K, NEW key \in [1 .. 4 -> K], NEW n \in Nat
  PROVE  /\ Payload!Shifted(key, n) \in [1 .. 4 -> K]
         /\ \A i \in Nat : Payload!KeyByte(Payload!Shifted(key, n), i) = Payload!KeyByte(key, i + n)
<1>1. Payload!Shifted(key, n) = [i \in 1 .. 4 |-> key[((i - 1 + n) % 4) + 1]]
  BY DEF Payload!Shifted, Payload!KeyByte, Payload!KeyLength
<1>2. \A i \in 1 .. 4 : ((i - 1 + n) % 4) + 1 \in 1 .. 4
  OBVIOUS
<1>3. ASSUME NEW i \in Nat
      PROVE  Payload!Shifted(key, n)[(i % 4) + 1] = key[((i + n) % 4) + 1]
  <2>1. (i % 4) + 1 \in 1 .. 4 /\ ((i % 4) + 1) - 1 + n = (i % 4) + n
    OBVIOUS
  <2>2. ((i % 4) + n) % 4 = (i + n) % 4
    OBVIOUS
  <2> QED BY <1>1, <2>1, <2>2
<1>4. Payload!Shifted(key, n) \in [1 .. 4 -> K]
  BY <1>1, <1>2
<1> QED BY <1>3, <1>4, Zenon DEF Payload!KeyByte, Payload!KeyLength

\* A key's bytes are those for the indexes from 0.
LEMMA KeyBytes ==
  ASSUME NEW K, NEW key \in [1 .. 4 -> K], NEW j \in 1 .. 4
  PROVE  key[j] = Payload!KeyByte(key, j - 1) /\ j - 1 \in Nat
<1>1. j - 1 \in Nat /\ ((j - 1) % 4) + 1 = j
  OBVIOUS
<1> QED BY <1>1, Zenon DEF Payload!KeyByte, Payload!KeyLength

\* Shifting a key twice is shifting it by the sum: the key that is kept between two pieces
\* of a frame is the key for all the bytes before (circshift_prepared_key,
\* frame.hpp:610-623).
THEOREM ShiftsAdd ==
  ASSUME NEW K, NEW key \in [1 .. 4 -> K], NEW m \in Nat, NEW n \in Nat
  PROVE  Payload!Shifted(Payload!Shifted(key, m), n) = Payload!Shifted(key, m + n)
<1> DEFINE once == Payload!Shifted(key, m)
           twice == Payload!Shifted(once, n)
           sum == Payload!Shifted(key, m + n)
<1>1. m + n \in Nat
  OBVIOUS
<1>2. once \in [1 .. 4 -> K] /\ twice \in [1 .. 4 -> K] /\ sum \in [1 .. 4 -> K]
  BY <1>1, ShiftedKey
<1>3. ASSUME NEW i \in Nat
      PROVE  Payload!KeyByte(twice, i) = Payload!KeyByte(sum, i)
  <2>1. i + n \in Nat /\ (i + n) + m = i + (m + n)
    OBVIOUS
  <2>2. Payload!KeyByte(once, i + n) = Payload!KeyByte(key, (i + n) + m)
    BY <2>1, ShiftedKey
  <2>3. Payload!KeyByte(sum, i) = Payload!KeyByte(key, i + (m + n))
    BY <1>1, ShiftedKey
  <2> HIDE DEF once, sum
  <2>4. Payload!KeyByte(twice, i) = Payload!KeyByte(once, i + n)
    BY <1>2, ShiftedKey
  <2> QED BY <2>1, <2>2, <2>3, <2>4
<1> HIDE DEF once, twice, sum
<1>4. ASSUME NEW j \in 1 .. 4
      PROVE  twice[j] = sum[j]
  BY <1>2, <1>3, KeyBytes
<1>5. twice = sum
  BY <1>2, <1>4
<1> QED BY <1>5 DEF once, twice, sum

\* However a masked payload is cut, the bytes that follow the first ones come out as they
\* went in, if the key has been shifted by those (byte_mask, frame.hpp:644-655;
\* byte_mask_circ, 830-842).
THEOREM UnmasksChunks ==
  ASSUME NEW S, NEW bytes \in Seq(S), NEW K, NEW key \in [1 .. 4 -> K],
         NEW done \in 0 .. Len(bytes), NEW n \in 0 .. Len(bytes) - done
  PROVE  LET chunk == SubSeq(Payload!MaskedCopy(bytes, key), done + 1, done + n)
         IN  Payload!UnmaskedCopy(chunk, Payload!Shifted(key, done))
               = SubSeq(bytes, done + 1, done + n)
<1> DEFINE masked == Payload!MaskedCopy(bytes, key)
           chunk == SubSeq(masked, done + 1, done + n)
           shifted == Payload!Shifted(key, done)
           plain == Payload!UnmaskedCopy(chunk, shifted)
           part == SubSeq(bytes, done + 1, done + n)
           K2(i) == Payload!KeyByte(key, i - 1)
<1>1. DOMAIN bytes = 1 .. Len(bytes) /\ Len(bytes) \in Nat /\ done \in Nat /\ n \in Nat
  OBVIOUS
<1>2. masked = [i \in 1 .. Len(bytes) |-> Payload!Mask(bytes[i], K2(i))]
  BY <1>1 DEF Payload!MaskedCopy
<1>3. masked \in Seq(Range(masked)) /\ Len(masked) = Len(bytes)
  BY <1>1, <1>2 DEF Range
<1>4. chunk = [i \in 1 .. n |-> masked[done + i]] /\ DOMAIN chunk = 1 .. n
  BY <1>1, <1>3
<1>5. part = [i \in 1 .. n |-> bytes[done + i]]
  BY <1>1
<1>6. ASSUME NEW i \in 1 .. n PROVE chunk[i] = Payload!Mask(bytes[done + i], Payload!KeyByte(shifted, i - 1))
  <2>1. done + i \in 1 .. Len(bytes) /\ i - 1 \in Nat /\ done + i - 1 = (i - 1) + done
    BY <1>1
  <2>2. Payload!KeyByte(shifted, i - 1) = Payload!KeyByte(key, (i - 1) + done)
    BY <2>1, <1>1, ShiftedKey
  <2> HIDE DEF masked, chunk, shifted
  <2> QED BY <1>2, <1>4, <2>1, <2>2
<1>7. \A b, k : Payload!Unmask(Payload!Mask(b, k), k) = b
  BY DEF Payload!Mask, Payload!Unmask
<1>8. plain = [i \in 1 .. n |-> Payload!Unmask(chunk[i], Payload!KeyByte(shifted, i - 1))]
  BY <1>4 DEF Payload!UnmaskedCopy
<1> HIDE DEF masked, chunk, shifted, plain, part
<1>9. plain = part
  BY <1>5, <1>6, <1>7, <1>8
<1> QED BY <1>9 DEF masked, chunk, shifted, plain, part

\* A code is the sum of its two bytes.
LEMMA CodeBytes ==
  ASSUME NEW code \in Nat, code < 65536
  PROVE  /\ Payload!HighByte(code) \in Bytes /\ Payload!LowByte(code) \in Bytes
         /\ Payload!HighByte(code) * 256 + Payload!LowByte(code) = code
<1>1. code \div 256 \in Int /\ code % 256 \in 0 .. 255
  OBVIOUS
<1>2. ((code \div 256) * 256) + (code % 256) = code
  OBVIOUS
<1>3. code \div 256 >= 0
  OBVIOUS
<1>4. code \div 256 <= 255
  OBVIOUS
<1> QED BY <1>1, <1>2, <1>3, <1>4 DEF Bytes, Payload!HighByte, Payload!LowByte

\* A code's two bytes before a reason.
LEMMA CodeThenReason ==
  ASSUME NEW high \in Bytes, NEW low \in Bytes, NEW reason \in Seq(Bytes),
         NEW both, both = <<high, low>> \o reason
  PROVE  /\ both \in Seq(Bytes) /\ Len(both) = 2 + Len(reason)
         /\ both[1] = high /\ both[2] = low
         /\ SubSeq(both, 3, Len(both)) = reason
<1> DEFINE pair == <<high, low>>
<1>1. pair \in Seq(Bytes) /\ Len(pair) = 2 /\ pair[1] = high /\ pair[2] = low
  OBVIOUS
<1>2. both = pair \o reason /\ Len(reason) \in Nat
  OBVIOUS
<1> HIDE DEF pair
<1>3. both \in Seq(Bytes) /\ Len(both) = 2 + Len(reason)
  BY <1>1, <1>2, ConcatProperties
<1>4. ASSUME NEW i \in 1 .. 2 + Len(reason) PROVE both[i] = IF i <= 2 THEN pair[i] ELSE reason[i - 2]
  BY <1>1, <1>2, ConcatProperties
<1>5. 1 \in 1 .. 2 + Len(reason) /\ 2 \in 1 .. 2 + Len(reason)
  BY <1>2
<1>6. both[1] = high /\ both[2] = low
  BY <1>1, <1>4, <1>5
<1> DEFINE rest == SubSeq(both, 3, Len(both))
<1>7. rest = [i \in 1 .. Len(reason) |-> both[i + 2]]
  BY <1>2, <1>3
<1>8. ASSUME NEW i \in 1 .. Len(reason) PROVE both[i + 2] = reason[i]
  <2>1. i + 2 \in 1 .. 2 + Len(reason) /\ ~(i + 2 <= 2) /\ (i + 2) - 2 = i
    BY <1>2
  <2> QED BY <1>4, <2>1
<1>9. reason = [i \in 1 .. Len(reason) |-> reason[i]]
  BY <1>2
<1> HIDE DEF rest
<1>10. rest = reason
  BY <1>7, <1>8, <1>9
<1> QED BY <1>3, <1>6, <1>10 DEF rest

\* A payload's first two bytes are taken for its code, if that may be received.
LEMMA CodeExtracted ==
  ASSUME NEW payload, NEW code \in Nat, payload # <<>>, Len(payload) # 1,
         Payload!CodeIn(payload) = code,
         ~Payload!InvalidClose(code), ~Payload!ReservedClose(code)
  PROVE  Payload!ExtractCode(payload) = [ok |-> TRUE, code |-> code]
BY DEF Payload!ExtractCode

\* A close code that may be sent, with any reason, arrives as it is, in a control frame's
\* length, and so does the reason (prepare_close, hybi13.hpp:696-731; extract_code and
\* extract_reason, close.hpp:294-348).
THEOREM CloseCodesArrive ==
  ASSUME SizeBasic \in Nat, SizeBasic >= 2,
         NEW code \in Nat, code < 65536, NEW reason \in Seq(Bytes),
         Payload!ClosePayload(code, reason) # "refused"
  PROVE  LET payload == Payload!ClosePayload(code, reason)
         IN  /\ payload \in Seq(Bytes) /\ Len(payload) <= SizeBasic
             /\ Payload!ExtractCode(payload) = [ok |-> TRUE, code |-> code]
             /\ Payload!ReasonOf(payload) = reason
<1> DEFINE payload == Payload!ClosePayload(code, reason)
           both == <<Payload!HighByte(code), Payload!LowByte(code)>> \o reason
<1>1. /\ ~(\/ Payload!ReservedClose(code)
           \/ Payload!InvalidClose(code) /\ code # Payload!NoStatus
           \/ code = Payload!NoStatus /\ reason # <<>>
           \/ Len(reason) > SizeBasic - 2)
      /\ payload = IF code = Payload!NoStatus THEN <<>> ELSE both
  BY DEF Payload!ClosePayload
<1> HIDE DEF payload, both
<1>2. Len(reason) \in Nat /\ Len(reason) <= SizeBasic - 2
  BY <1>1
<1>3. CASE code = Payload!NoStatus
  <2>1. payload = <<>> /\ reason = <<>>
    BY <1>1, <1>3
  <2>2. Payload!ExtractCode(<<>>) = [ok |-> TRUE, code |-> code]
    BY <1>3 DEF Payload!ExtractCode
  <2>3. Payload!ReasonOf(<<>>) = <<>>
    BY DEF Payload!ReasonOf
  <2>4. <<>> \in Seq(Bytes) /\ Len(<<>>) <= SizeBasic
    OBVIOUS
  <2>5. payload \in Seq(Bytes) /\ Len(payload) <= SizeBasic
    BY <2>1, <2>4
  <2>6. /\ Payload!ExtractCode(payload) = [ok |-> TRUE, code |-> code]
        /\ Payload!ReasonOf(payload) = reason
    BY <2>1, <2>2, <2>3
  <2> QED BY <2>5, <2>6 DEF payload
<1>4. CASE code # Payload!NoStatus
  <2> DEFINE high == Payload!HighByte(code)
             low == Payload!LowByte(code)
  <2>1. payload = both
    BY <1>1, <1>4
  <2>2. high \in Bytes /\ low \in Bytes /\ high * 256 + low = code
    BY CodeBytes
  <2>3. both = <<high, low>> \o reason
    BY DEF both
  <2> HIDE DEF high, low
  <2>4. /\ both \in Seq(Bytes) /\ Len(both) = 2 + Len(reason)
        /\ both[1] = high /\ both[2] = low
        /\ SubSeq(both, 3, Len(both)) = reason
    BY <2>2, <2>3, CodeThenReason
  <2>5. both # <<>> /\ Len(both) # 1
    BY <2>4, <1>2
  <2>6. ~Payload!InvalidClose(code) /\ ~Payload!ReservedClose(code)
    BY <1>1, <1>4
  <2>7. Payload!ExtractCode(both) = [ok |-> TRUE, code |-> code]
    <3>1. Payload!CodeIn(both) = code
      BY <2>2, <2>4 DEF Payload!CodeIn
    <3> QED BY <3>1, <2>5, <2>6, CodeExtracted
  <2>8. Payload!ReasonOf(both) = reason
    BY <2>4 DEF Payload!ReasonOf
  <2>9. Len(both) <= SizeBasic
    BY <1>2, <2>4
  <2> QED BY <2>1, <2>4, <2>7, <2>8, <2>9 DEF payload
<1> QED BY <1>3, <1>4
=============================================================================
