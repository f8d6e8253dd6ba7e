------------------------- MODULE WsEndpoint_proofs --------------------------
(***************************************************************************)
(* What WsEndpoint says of an endpoint, proved for any plan of a program:    *)
(* however many connections it makes, and however often it listens and       *)
(* starts to accept.                                                         *)
(***************************************************************************)
EXTENDS WsEndpoint, FiniteSetTheorems, TLAPS

Services == {"own", "given"}

Settings == [Kinds -> {"default", "set"}]

Endpoints ==
  [state : {"uninitialized", "ready", "listening"}, service : {"none", "own", "given"},
   external : BOOLEAN, acceptor : {"none", "closed", "listening"}, perpetual : BOOLEAN,
   settings : Settings, accepting : Nat, serving : BOOLEAN,
   timer : {"unset", "set", "ok", "error", "canceled"},
   listens : Nat, starts : Nat, again : BOOLEAN, alive : BOOLEAN]

Connections ==
  [status : {"made", "waiting", "started", "ended", "gone"},
   settings : Settings, asked : Settings, told : Seq({"start", "terminate"})]

Operations ==
  [what : {"accept", "connect", "timer"}, con : Nat,
   ec : {"pending", "ok", "error", "canceled"}]

\* Every variable has its type; what is under way is finite.
TypeInv ==
  /\ ep \in Endpoints
  /\ io \in [Services -> {"none", "idle", "running", "stopped", "deleted"}]
  /\ cons \in Seq(Connections)
  /\ ops \in SUBSET Operations /\ IsFiniteSet(ops)

\* What init_asio, listen and the destructor leave belongs together.
StateInv ==
  /\ ep.state = "uninitialized" <=> ep.service = "none"
  /\ ep.alive /\ ep.state = "uninitialized" => ep.acceptor = "none"
  /\ ep.alive /\ ep.state = "ready" => ep.acceptor = "closed"
  /\ ep.alive /\ ep.state = "listening" => ep.acceptor = "listening"
  /\ ~ep.alive => ep.acceptor = "none" /\ ep.accepting = NoCon /\ ops = {}

\* A service that is not the endpoint's own is not deleted with it, unless init_asio was
\* called a second time.
ServiceInv ==
  /\ ep.service = "own" => ~ep.external
  /\ ep.service = "given" /\ ~ep.external => ep.again
  /\ io["own"] = "deleted" <=> ep.service = "own" /\ ~ep.alive
  /\ io["given"] = "deleted" => ep.again /\ ~ep.alive

\* As long as it serves an endpoint listens and something accepts.
ServingInv ==
  ep.serving /\ ep.alive =>
    Listening /\ (ep.accepting # NoCon \/ \E o \in ops : o.what = "accept")

\* What is under way is so for one connection that waits for it, or for the timer.
OpsInv ==
  /\ \A o \in ops :
       IF o.what = "timer" THEN o.con = NoCon /\ ep.timer = "set"
       ELSE o.con \in DOMAIN cons /\ cons[o.con].status = "waiting" /\ o.con # ep.accepting
  /\ \A o, p \in ops : o.con = p.con => o = p
  /\ ep.accepting # NoCon => ep.accepting \in DOMAIN cons /\ cons[ep.accepting].status = "waiting"

\* What waits is waited for.
WaitInv ==
  /\ \A c \in DOMAIN cons :
       cons[c].status = "waiting" => c = ep.accepting \/ \E o \in ops : o.con = c
  /\ ep.timer = "set" /\ ep.alive => \E o \in ops : o.what = "timer"

\* A connection is told once, when it no longer waits.
ToldInv ==
  \A c \in DOMAIN cons :
    IF cons[c].status \in {"made", "waiting"} THEN cons[c].told = <<>>
    ELSE Len(cons[c].told) = 1 \/ (cons[c].told = <<>> /\ ~ep.alive)

IInv ==
  /\ TypeInv /\ StateInv /\ ServiceInv /\ ServingInv /\ OpsInv /\ WaitInv /\ ToldInv
  /\ LoopsAsStarted /\ SettingsOfCreation /\ CallsAnswered

-----------------------------------------------------------------------------

LEMMA Initially == Init => IInv
<1> SUFFICES ASSUME Init PROVE IInv
  OBVIOUS
<1> USE DEF Init
<1>1. Defaults \in Settings
  BY DEF Defaults, Settings
<1>2. ep \in Endpoints
  BY <1>1 DEF Endpoints, NoCon
<1>3. io \in [Services -> {"none", "idle", "running", "stopped", "deleted"}]
  BY DEF Services
<1>4. IsFiniteSet(ops) /\ Accepts = {}
  BY FS_EmptySet DEF Accepts
<1>5. TypeInv
  BY <1>2, <1>3, <1>4 DEF TypeInv
<1>6. StateInv /\ ServiceInv /\ ServingInv /\ OpsInv /\ WaitInv /\ ToldInv /\ SettingsOfCreation
  BY DEF StateInv, ServiceInv, ServingInv, OpsInv, WaitInv, ToldInv, SettingsOfCreation, NoCon
<1>7. LoopsAsStarted
  BY <1>4, FS_EmptySet DEF LoopsAsStarted, Accepting, NoCon
<1>8. CallsAnswered
  BY DEF CallsAnswered, NoReply, NoCon
<1> QED
  BY <1>5, <1>6, <1>7, <1>8 DEF IInv

-----------------------------------------------------------------------------
(***************************************************************************)
(* Types                                                                   *)
(***************************************************************************)

\* A connection is made with the settings of the endpoint.
LEMMA CopiedIsWhole == TypeInv => Copied = ep.settings
  BY DEF TypeInv, Endpoints, Settings, Copied, Kinds, Defaults

LEMMA ConnectionMade ==
  ASSUME TypeInv, NEW s \in {"made", "waiting"}
  PROVE  /\ CreateConnection(s) =
              Append(cons, [status |-> s, settings |-> ep.settings, asked |-> ep.settings,
                            told |-> <<>>])
         /\ CreateConnection(s) \in Seq(Connections)
<1> DEFINE c == [status |-> s, settings |-> ep.settings, asked |-> ep.settings, told |-> <<>>]
<1>1. CreateConnection(s) = Append(cons, c)
  BY CopiedIsWhole DEF CreateConnection
<1>2. ep.settings \in Settings /\ cons \in Seq(Connections)
  BY DEF TypeInv, Endpoints
<1>3. c \in Connections
  BY <1>2 DEF Connections
<1>4. Append(cons, c) \in Seq(Connections)
  BY <1>2, <1>3
<1> QED
  BY <1>1, <1>4

LEMMA ConnectionTold ==
  ASSUME NEW c \in Connections
  PROVE  /\ Start(c) \in Connections /\ Terminate(c) \in Connections
         /\ Start(c).status = "started" /\ Terminate(c).status = "ended"
         /\ Start(c).settings = c.settings /\ Terminate(c).settings = c.settings
         /\ Start(c).asked = c.asked /\ Terminate(c).asked = c.asked
         /\ c.told = <<>> => Len(Start(c).told) = 1 /\ Len(Terminate(c).told) = 1
<1>1. Append(c.told, "start") \in Seq({"start", "terminate"})
      /\ Append(c.told, "terminate") \in Seq({"start", "terminate"})
  BY DEF Connections
<1>2. c.told = <<>> => Len(Append(c.told, "start")) = 1 /\ Len(Append(c.told, "terminate")) = 1
  OBVIOUS
<1> QED
  BY <1>1, <1>2 DEF Connections, Start, Terminate

LEMMA EpTyped ==
  ASSUME IInv, [Next]_vars
  PROVE  ep' \in Endpoints
<1> USE DEF Endpoints, NoCon
<1> ep \in Endpoints
  BY DEF IInv, TypeInv
<1> ep.listens + 1 \in Nat /\ ep.starts + 1 \in Nat /\ Last \in Nat
  BY DEF IInv, TypeInv, Last
<1> \A o \in ops : o.ec \in {"pending", "ok", "error", "canceled"}
  BY DEF IInv, TypeInv, Operations
<1>1. CASE InitGiven
  BY <1>1 DEF InitGiven, Initialised
<1>2. CASE InitOwn
  BY <1>2 DEF InitOwn, Initialised
<1>3. CASE InitAgain
  BY <1>3 DEF InitAgain
<1>4. CASE Destroy
  BY <1>4 DEF Destroy
<1>5. CASE StartPerpetual
  BY <1>5 DEF StartPerpetual
<1>6. CASE StopPerpetual
  BY <1>6 DEF StopPerpetual
<1>7. CASE Enter
  BY <1>7 DEF Enter
<1>8. CASE Leave
  BY <1>8 DEF Leave
<1>9. CASE Stop
  BY <1>9 DEF Stop
<1>10. CASE Reset
  BY <1>10 DEF Reset
<1>11. CASE Listen
  BY <1>11 DEF Listen
<1>12. CASE StopListening
  BY <1>12 DEF StopListening
<1>13. CASE StartAccept
  BY <1>13 DEF StartAccept
<1>14. CASE AsyncAccept
  BY <1>14 DEF AsyncAccept
<1>15. CASE GetConnection
  BY <1>15 DEF GetConnection
<1>16. CASE SetTimer
  BY <1>16 DEF SetTimer
<1>17. CASE CancelTimer
  BY <1>17 DEF CancelTimer
<1>18. CASE ReadReply
  BY <1>18 DEF ReadReply
<1>19. ASSUME NEW step \in ListenSteps, ListenFails(step)
      PROVE  ep' \in Endpoints
  BY <1>19 DEF ListenFails, CleanUpListen, FailedAt
<1>20. ASSUME NEW k \in Kinds, SetSetting(k)
      PROVE  ep' \in Endpoints
  BY <1>20 DEF SetSetting, Settings, Kinds
<1>21. ASSUME NEW o \in ops, NEW made \in BOOLEAN, HandleAccept(o, made)
      PROVE  ep' \in Endpoints
  BY <1>21, ZenonT(60) DEF HandleAccept, Restart
<1>22. ASSUME NEW o \in ops, HandleConnect(o)
      PROVE  ep' \in Endpoints
  BY <1>22 DEF HandleConnect
<1>23. ASSUME NEW o \in ops, HandleTimer(o)
      PROVE  ep' \in Endpoints
  BY <1>23 DEF HandleTimer
<1>24. ASSUME NEW o \in ops, NEW ec \in {"ok", "error"}, Complete(o, ec)
      PROVE  ep' \in Endpoints
  BY <1>24 DEF Complete
<1>25. ASSUME NEW c \in DOMAIN cons, Connect(c)
      PROVE  ep' \in Endpoints
  BY <1>25 DEF Connect
<1>26. ASSUME NEW c \in DOMAIN cons, ConnectionGone(c)
      PROVE  ep' \in Endpoints
  BY <1>26 DEF ConnectionGone
<1>27. ASSUME NEW c \in DOMAIN cons, NEW ec \in {"none", "old"}, NEW result \in {"none", "refused"}, CallByHandle(c, ec, result)
      PROVE  ep' \in Endpoints
  BY <1>27 DEF CallByHandle
<1>28. CASE UNCHANGED vars
  BY <1>28 DEF vars
<1> QED
  BY <1>1, <1>2, <1>3, <1>4, <1>5, <1>6, <1>7, <1>8, <1>9, <1>10, <1>11, <1>12, <1>13, <1>14, <1>15, <1>16, <1>17, <1>18, <1>19, <1>20, <1>21, <1>22, <1>23, <1>24, <1>25, <1>26, <1>27, <1>28 DEF Next

LEMMA IoTyped ==
  ASSUME IInv, [Next]_vars
  PROVE  io' \in [Services -> {"none", "idle", "running", "stopped", "deleted"}]
<1> io \in [Services -> {"none", "idle", "running", "stopped", "deleted"}]
  BY DEF IInv, TypeInv
<1>1. CASE InitOwn
  BY <1>1 DEF InitOwn, Services
<1>2. CASE Destroy
  BY <1>2 DEF Destroy
<1>3. CASE Enter \/ Leave \/ Stop \/ Reset
  BY <1>3 DEF Enter, Leave, Stop, Reset
<1>4. CASE io' = io
  BY <1>4
<1>5. InitOwn \/ Destroy \/ Enter \/ Leave \/ Stop \/ Reset \/ io' = io
  BY DEF Next, vars, InitGiven, InitAgain, StartPerpetual, StopPerpetual, ListenFails, Listen,
         StopListening, SetSetting, StartAccept, AsyncAccept, GetConnection, HandleAccept, SetTimer,
         CancelTimer, HandleConnect, HandleTimer, Complete, Connect, ConnectionGone, CallByHandle,
         ReadReply
<1> QED
  BY <1>1, <1>2, <1>3, <1>4, <1>5

\* stop_listening cancels what waits for a peer.
Canceled(o) == IF o.what = "accept" /\ o.ec = "pending" THEN [o EXCEPT !.ec = "canceled"] ELSE o

LEMMA CanceledKeeps ==
  ASSUME NEW o \in Operations
  PROVE  Canceled(o) \in Operations /\ Canceled(o).what = o.what /\ Canceled(o).con = o.con
  BY DEF Operations, Canceled

LEMMA CanceledCounted ==
  ASSUME IInv, StopListening
  PROVE  /\ ops' = {Canceled(o) : o \in ops}
         /\ IsFiniteSet(ops') /\ IsFiniteSet(Accepts')
         /\ Cardinality(Accepts') <= Cardinality(Accepts)
<1>1. ops' = {Canceled(o) : o \in ops}
  BY DEF StopListening, Canceled
<1>2. ops \in SUBSET Operations /\ IsFiniteSet(ops)
  BY DEF IInv, TypeInv
<1>3. [o \in ops |-> Canceled(o)] \in Surjection(ops, ops')
  BY <1>1 DEF Surjection
<1>4. IsFiniteSet(ops')
  BY <1>2, <1>3, FS_Surjection
<1>5. Accepts \in SUBSET ops /\ IsFiniteSet(Accepts)
  BY <1>2, FS_Subset DEF Accepts
<1>6. Accepts' = {Canceled(o) : o \in Accepts}
  BY <1>1, <1>2, CanceledKeeps DEF Accepts
<1>7. [o \in Accepts |-> Canceled(o)] \in Surjection(Accepts, Accepts')
  BY <1>6 DEF Surjection
<1> QED
  BY <1>1, <1>4, <1>5, <1>7, FS_Surjection

LEMMA OpsTyped ==
  ASSUME IInv, [Next]_vars
  PROVE  ops' \in SUBSET Operations /\ IsFiniteSet(ops')
<1> ops \in SUBSET Operations /\ IsFiniteSet(ops)
  BY DEF IInv, TypeInv
<1>a. ASSUME NEW o, NEW x \in Operations, ops' \in {ops, ops \ {o}, ops \union {x}, (ops \ {o}) \union {x}}
      PROVE  ops' \in SUBSET Operations /\ IsFiniteSet(ops')
  BY <1>a, FS_RemoveElement, FS_AddElement, IsFiniteSet(ops \ {o})
<1>b. Asked("timer", NoCon) \in Operations
  BY DEF Asked, Operations, NoCon
<1>1. CASE Destroy
  BY <1>1, FS_EmptySet DEF Destroy
<1>2. CASE StopListening
  BY <1>2, CanceledCounted, CanceledKeeps
<1>3. CASE StartAccept
  <2>1. Asked("accept", Last) \in Operations
    BY DEF Asked, Operations, Last, IInv, TypeInv
  <2> QED
    BY <1>3, <1>a, <2>1 DEF StartAccept
<1>4. CASE AsyncAccept
  <2>1. Asked("accept", ep.accepting) \in Operations
    BY DEF Asked, Operations, IInv, TypeInv, Endpoints
  <2> QED
    BY <1>4, <1>a, <2>1 DEF AsyncAccept
<1>5. ASSUME NEW c \in DOMAIN cons, Connect(c)
      PROVE  ops' \in SUBSET Operations /\ IsFiniteSet(ops')
  <2>1. Asked("connect", c) \in Operations
    BY DEF Asked, Operations, IInv, TypeInv
  <2> QED
    BY <1>5, <1>a, <2>1 DEF Connect
<1>6. CASE SetTimer
  BY <1>6, <1>a, <1>b DEF SetTimer
<1>7. CASE CancelTimer
  <2>1. [Asked("timer", NoCon) EXCEPT !.ec = "canceled"] \in Operations
    BY DEF Asked, Operations, NoCon
  <2> QED
    BY <1>7, <1>a, <2>1 DEF CancelTimer
<1>8. ASSUME NEW o \in ops, NEW ec \in {"ok", "error"}, Complete(o, ec)
      PROVE  ops' \in SUBSET Operations /\ IsFiniteSet(ops')
  <2>1. [o EXCEPT !.ec = ec] \in Operations
    BY DEF Operations
  <2> QED
    BY <1>8, <1>a, <2>1 DEF Complete
<1>9. ASSUME NEW o \in ops, NEW made \in BOOLEAN,
             HandleAccept(o, made) \/ HandleConnect(o) \/ HandleTimer(o)
      PROVE  ops' \in SUBSET Operations /\ IsFiniteSet(ops')
  BY <1>9, <1>a, <1>b DEF HandleAccept, HandleConnect, HandleTimer
<1>10. CASE ops' = ops
  BY <1>10
<1> QED
  BY <1>1, <1>2, <1>3, <1>4, <1>5, <1>6, <1>7, <1>8, <1>9, <1>10
     DEF Next, vars, InitGiven, InitOwn, InitAgain, StartPerpetual, StopPerpetual, Enter, Leave,
         Stop, Reset, ListenFails, Listen, SetSetting, GetConnection, ConnectionGone, CallByHandle,
         ReadReply

LEMMA OpFound ==
  ASSUME IInv, NEW o \in ops
  PROVE  /\ o \in Operations
         /\ o.what # "timer" => o.con \in DOMAIN cons /\ cons[o.con] \in Connections
                                /\ o.con # NoCon /\ cons[o.con].status = "waiting"
                                /\ cons[o.con].told = <<>>
                                /\ Told(o) \in Connections
  BY ConnectionTold DEF IInv, TypeInv, OpsInv, ToldInv, NoCon, Told

LEMMA AcceptHandled ==
  ASSUME IInv, NEW o \in ops, NEW made \in BOOLEAN, HandleAccept(o, made)
  PROVE  /\ o.con \in DOMAIN cons
         /\ cons' \in Seq(Connections)
         /\ \A c \in DOMAIN cons : c \in DOMAIN cons' /\ cons'[c] = IF c = o.con THEN Told(o) ELSE cons[c]
         /\ \/ /\ Len(cons') = Len(cons)
               /\ (~Listening /\ ep' = ep) \/ ep' = [ep EXCEPT !.serving = FALSE]
            \/ /\ Listening /\ Len(cons') = Last
               /\ cons'[Last] = [status |-> "waiting", settings |-> ep.settings,
                                 asked |-> ep.settings, told |-> <<>>]
               /\ ep' = [ep EXCEPT !.accepting = Last]
<1> DEFINE list == [cons EXCEPT ![o.con] = Told(o)]
           new == [status |-> "waiting", settings |-> ep.settings, asked |-> ep.settings,
                   told |-> <<>>]
<1>1. cons \in Seq(Connections) /\ o.con \in DOMAIN cons /\ Told(o) \in Connections
  BY OpFound DEF HandleAccept, IInv, TypeInv
<1>2. list \in Seq(Connections) /\ Len(list) = Len(cons)
      /\ \A c \in DOMAIN cons : list[c] = IF c = o.con THEN Told(o) ELSE cons[c]
  BY <1>1
<1>3. CreateConnection("waiting")[Last] = new /\ new \in Connections
  BY ConnectionMade, <1>1 DEF IInv, Last, Connections, TypeInv, Endpoints
<1>4. list \o <<new>> \in Seq(Connections) /\ Len(list \o <<new>>) = Last
      /\ (list \o <<new>>)[Last] = new
      /\ \A c \in DOMAIN cons : (list \o <<new>>)[c] = list[c]
  BY <1>1, <1>2, <1>3 DEF Last
<1>5. Restart(list, made)
  BY DEF HandleAccept
<1> HIDE DEF list, new
<1>6. CASE cons' = list
  <2>1. (~Listening /\ ep' = ep) \/ ep' = [ep EXCEPT !.serving = FALSE]
    BY <1>5, <1>6, <1>2, <1>4 DEF Restart
  <2> QED
    BY <1>1, <1>2, <1>6, <2>1
<1>7. CASE cons' = list \o <<new>>
  BY <1>1, <1>2, <1>3, <1>4, <1>5, <1>7 DEF Restart, Last, new
<1> QED
  BY <1>3, <1>5, <1>6, <1>7 DEF Restart

WithStatus(c, status) == [c EXCEPT !.status = status]

LEMMA StatusChanged ==
  ASSUME NEW c \in Connections, NEW x \in {"waiting", "gone"}
  PROVE  /\ WithStatus(c, x) \in Connections
         /\ WithStatus(c, x).status = x
         /\ WithStatus(c, x).settings = c.settings /\ WithStatus(c, x).asked = c.asked
         /\ WithStatus(c, x).told = c.told
  BY DEF Connections, WithStatus

LEMMA ConsTyped ==
  ASSUME IInv, [Next]_vars
  PROVE  cons' \in Seq(Connections)
<1> cons \in Seq(Connections)
  BY DEF IInv, TypeInv
<1>a. \A c \in DOMAIN cons : cons[c] \in Connections
  OBVIOUS
<1>1. CASE Destroy
  <2>1. cons' = [c \in DOMAIN cons |-> WithStatus(cons[c], "gone")]
    BY <1>1 DEF Destroy, WithStatus
  <2>2. \A c \in DOMAIN cons : WithStatus(cons[c], "gone") \in Connections
    BY <1>a, StatusChanged
  <2> QED
    BY <2>1, <2>2
<1>2. CASE StartAccept
  BY <1>2, ConnectionMade DEF StartAccept, IInv
<1>3. CASE GetConnection
  BY <1>3, ConnectionMade DEF GetConnection, IInv
<1>4. CASE AsyncAccept
  <2>1. ep.accepting \in DOMAIN cons /\ cons[ep.accepting] \in Connections
    BY <1>4 DEF AsyncAccept, IInv, OpsInv
  <2> QED
    BY <1>4, <2>1, ConnectionTold DEF AsyncAccept
<1>5. ASSUME NEW o \in ops, NEW made \in BOOLEAN, HandleAccept(o, made)
      PROVE  cons' \in Seq(Connections)
  BY <1>5, AcceptHandled
<1>6. ASSUME NEW o \in ops, HandleConnect(o)
      PROVE  cons' \in Seq(Connections)
  BY <1>6, OpFound DEF HandleConnect
<1>7. ASSUME NEW c \in DOMAIN cons, Connect(c) \/ ConnectionGone(c)
      PROVE  cons' \in Seq(Connections)
  <2>1. PICK x \in {"waiting", "gone"} : cons' = [cons EXCEPT ![c] = WithStatus(cons[c], x)]
    BY <1>7 DEF Connect, ConnectionGone, WithStatus
  <2>2. WithStatus(cons[c], x) \in Connections
    BY <1>a, StatusChanged
  <2> QED
    BY <2>1, <2>2
<1>8. CASE cons' = cons
  BY <1>8
<1> QED
  BY <1>1, <1>2, <1>3, <1>4, <1>5, <1>6, <1>7, <1>8
     DEF Next, vars, InitGiven, InitOwn, InitAgain, StartPerpetual, StopPerpetual, Enter, Leave,
         Stop, Reset, ListenFails, Listen, StopListening, SetSetting, SetTimer, CancelTimer,
         HandleTimer, Complete, CallByHandle, ReadReply

LEMMA TypeStep == IInv /\ [Next]_vars => TypeInv'
  BY EpTyped, IoTyped, OpsTyped, ConsTyped DEF TypeInv

-----------------------------------------------------------------------------
(***************************************************************************)
(* The endpoint                                                            *)
(***************************************************************************)

LEMMA StateStep ==
  ASSUME IInv, [Next]_vars
  PROVE  StateInv'
<1> USE DEF StateInv, NoCon
<1> StateInv /\ ep \in Endpoints
  BY DEF IInv, TypeInv
<1>1. CASE InitGiven
  BY <1>1 DEF InitGiven, Initialised, Endpoints, Endpoints
<1>2. CASE InitOwn
  BY <1>2 DEF InitOwn, Initialised, Endpoints, Endpoints
<1>3. CASE InitAgain
  BY <1>3 DEF InitAgain, Endpoints
<1>4. CASE Destroy
  BY <1>4 DEF Destroy, MayDestroy, Endpoints
<1>5. CASE StartPerpetual
  BY <1>5 DEF StartPerpetual, Endpoints
<1>6. CASE StopPerpetual
  BY <1>6 DEF StopPerpetual, Endpoints
<1>7. CASE Enter
  BY <1>7 DEF Enter, Endpoints
<1>8. CASE Leave
  BY <1>8 DEF Leave, Endpoints
<1>9. CASE Stop
  BY <1>9 DEF Stop, Endpoints
<1>10. CASE Reset
  BY <1>10 DEF Reset, Endpoints
<1>11. CASE Listen
  BY <1>11 DEF Listen, Usable, Endpoints
<1>12. CASE StopListening
  BY <1>12 DEF StopListening, Usable, Listening, Endpoints
<1>13. CASE StartAccept
  BY <1>13 DEF StartAccept, Usable, Listening, Endpoints
<1>14. CASE AsyncAccept
  BY <1>14 DEF AsyncAccept, Endpoints
<1>15. CASE GetConnection
  BY <1>15 DEF GetConnection, Endpoints
<1>16. CASE SetTimer
  BY <1>16 DEF SetTimer, Usable, Endpoints
<1>17. CASE CancelTimer
  BY <1>17 DEF CancelTimer, Endpoints
<1>18. CASE ReadReply
  BY <1>18 DEF ReadReply, Endpoints
<1>19. ASSUME NEW step \in ListenSteps, ListenFails(step)
      PROVE  StateInv'
  BY <1>19 DEF ListenFails, Usable, CleanUpListen, FailedAt, Endpoints
<1>20. ASSUME NEW k \in Kinds, SetSetting(k)
      PROVE  StateInv'
  BY <1>20 DEF SetSetting, Endpoints
<1>21. ASSUME NEW o \in ops, NEW made \in BOOLEAN, HandleAccept(o, made)
      PROVE  StateInv'
  BY <1>21, AcceptHandled DEF HandleAccept, Endpoints
<1>22. ASSUME NEW o \in ops, HandleConnect(o)
      PROVE  StateInv'
  BY <1>22 DEF HandleConnect, Endpoints
<1>23. ASSUME NEW o \in ops, HandleTimer(o)
      PROVE  StateInv'
  BY <1>23 DEF HandleTimer, Endpoints
<1>24. ASSUME NEW o \in ops, NEW ec \in {"ok", "error"}, Complete(o, ec)
      PROVE  StateInv'
  BY <1>24 DEF Complete, Endpoints
<1>25. ASSUME NEW c \in DOMAIN cons, Connect(c)
      PROVE  StateInv'
  BY <1>25 DEF Connect, Usable, Endpoints
<1>26. ASSUME NEW c \in DOMAIN cons, ConnectionGone(c)
      PROVE  StateInv'
  BY <1>26 DEF ConnectionGone, Endpoints
<1>27. ASSUME NEW c \in DOMAIN cons, NEW ec \in {"none", "old"}, NEW result \in {"none", "refused"}, CallByHandle(c, ec, result)
      PROVE  StateInv'
  BY <1>27 DEF CallByHandle, Endpoints
<1>28. CASE UNCHANGED vars
  BY <1>28 DEF vars, Endpoints
<1> QED
  BY <1>1, <1>2, <1>3, <1>4, <1>5, <1>6, <1>7, <1>8, <1>9, <1>10, <1>11, <1>12, <1>13, <1>14, <1>15, <1>16, <1>17, <1>18, <1>19, <1>20, <1>21, <1>22, <1>23, <1>24, <1>25, <1>26, <1>27, <1>28 DEF Next

LEMMA ServiceStep ==
  ASSUME IInv, [Next]_vars
  PROVE  ServiceInv'
<1> USE DEF ServiceInv
<1> ServiceInv /\ StateInv /\ ep \in Endpoints
    /\ io \in [Services -> {"none", "idle", "running", "stopped", "deleted"}]
  BY DEF IInv, TypeInv
<1>1. CASE InitGiven
  BY <1>1 DEF InitGiven, Initialised, StateInv, Endpoints
<1>2. CASE InitOwn
  BY <1>2 DEF InitOwn, Initialised, StateInv, Services, Endpoints
<1>3. CASE InitAgain
  BY <1>3 DEF InitAgain, Endpoints
<1>4. CASE Destroy
  BY <1>4 DEF Destroy, MayDestroy, StateInv, Services, Endpoints
<1>5. CASE StartPerpetual
  BY <1>5 DEF StartPerpetual, Endpoints
<1>6. CASE StopPerpetual
  BY <1>6 DEF StopPerpetual, Endpoints
<1>7. CASE Enter
  BY <1>7 DEF Enter, Usable, StateInv, Services, Service, Endpoints
<1>8. CASE Leave
  BY <1>8 DEF Leave, Usable, StateInv, Running, Services, Service, Endpoints
<1>9. CASE Stop
  BY <1>9 DEF Stop, Usable, StateInv, Services, Service, Endpoints
<1>10. CASE Reset
  BY <1>10 DEF Reset, Usable, StateInv, Services, Service, Endpoints
<1>11. CASE Listen
  BY <1>11 DEF Listen, Endpoints
<1>12. CASE StopListening
  BY <1>12 DEF StopListening, Endpoints
<1>13. CASE StartAccept
  BY <1>13 DEF StartAccept, Endpoints
<1>14. CASE AsyncAccept
  BY <1>14 DEF AsyncAccept, Endpoints
<1>15. CASE GetConnection
  BY <1>15 DEF GetConnection, Endpoints
<1>16. CASE SetTimer
  BY <1>16 DEF SetTimer, Endpoints
<1>17. CASE CancelTimer
  BY <1>17 DEF CancelTimer, Endpoints
<1>18. CASE ReadReply
  BY <1>18 DEF ReadReply, Endpoints
<1>19. ASSUME NEW step \in ListenSteps, ListenFails(step)
      PROVE  ServiceInv'
  BY <1>19 DEF ListenFails, Endpoints
<1>20. ASSUME NEW k \in Kinds, SetSetting(k)
      PROVE  ServiceInv'
  BY <1>20 DEF SetSetting, Endpoints
<1>21. ASSUME NEW o \in ops, NEW made \in BOOLEAN, HandleAccept(o, made)
      PROVE  ServiceInv'
  BY <1>21, AcceptHandled, ZenonT(60) DEF HandleAccept, Endpoints
<1>22. ASSUME NEW o \in ops, HandleConnect(o)
      PROVE  ServiceInv'
  BY <1>22 DEF HandleConnect, Endpoints
<1>23. ASSUME NEW o \in ops, HandleTimer(o)
      PROVE  ServiceInv'
  BY <1>23 DEF HandleTimer, Endpoints
<1>24. ASSUME NEW o \in ops, NEW ec \in {"ok", "error"}, Complete(o, ec)
      PROVE  ServiceInv'
  BY <1>24 DEF Complete, Endpoints
<1>25. ASSUME NEW c \in DOMAIN cons, Connect(c)
      PROVE  ServiceInv'
  BY <1>25 DEF Connect, Endpoints
<1>26. ASSUME NEW c \in DOMAIN cons, ConnectionGone(c)
      PROVE  ServiceInv'
  BY <1>26 DEF ConnectionGone, Endpoints
<1>27. ASSUME NEW c \in DOMAIN cons, NEW ec \in {"none", "old"}, NEW result \in {"none", "refused"}, CallByHandle(c, ec, result)
      PROVE  ServiceInv'
  BY <1>27 DEF CallByHandle, Endpoints
<1>28. CASE UNCHANGED vars
  BY <1>28 DEF vars, Endpoints
<1> QED
  BY <1>1, <1>2, <1>3, <1>4, <1>5, <1>6, <1>7, <1>8, <1>9, <1>10, <1>11, <1>12, <1>13, <1>14, <1>15, <1>16, <1>17, <1>18, <1>19, <1>20, <1>21, <1>22, <1>23, <1>24, <1>25, <1>26, <1>27, <1>28 DEF Next

-----------------------------------------------------------------------------
(***************************************************************************)
(* The connections                                                         *)
(***************************************************************************)

\* A destroyed endpoint stays so.
LEMMA StaysDead == IInv /\ [Next]_vars /\ ep'.alive => ep.alive
<1> SUFFICES ASSUME IInv, [Next]_vars, ep'.alive PROVE ep.alive
  OBVIOUS
<1> ep \in Endpoints
  BY DEF IInv, TypeInv
<1>1. ASSUME NEW o \in ops, NEW made \in BOOLEAN, HandleAccept(o, made)
      PROVE  ep.alive
  BY <1>1, AcceptHandled DEF Endpoints
<1>2. CASE SetTimer \/ StartAccept \/ AsyncAccept \/ \E o \in ops : HandleTimer(o)
  BY <1>2 DEF SetTimer, StartAccept, AsyncAccept, HandleTimer, Endpoints
<1> QED
  BY <1>1, <1>2
     DEF Next, vars, InitGiven, InitOwn, InitAgain, StartPerpetual, StopPerpetual, Enter, Leave,
         Stop, Reset, Destroy, ListenFails, Listen, StopListening, SetSetting, GetConnection,
         CancelTimer, HandleConnect, Complete, Connect, ConnectionGone, CallByHandle, ReadReply,
         Initialised, Endpoints, Usable

\* What a step does to the connections, the destructor's apart: it adds one, changes one
\* or none.
LEMMA ConsChanges ==
  ASSUME IInv, [Next]_vars
  PROVE  \/ cons' = cons
         \/ Destroy
         \/ \E s \in {"made", "waiting"} : cons' = CreateConnection(s)
         \/ \E c \in DOMAIN cons :
              /\ \/ cons[c].status = "waiting" /\ cons[c].told = <<>>
                    /\ cons'[c] \in {Start(cons[c]), Terminate(cons[c])}
                 \/ cons[c].status = "made" /\ cons'[c] = WithStatus(cons[c], "waiting")
                 \/ cons[c].status \in {"started", "ended"} /\ cons'[c] = WithStatus(cons[c], "gone")
              /\ \A d \in DOMAIN cons \ {c} : cons'[d] = cons[d]
              /\ \/ Len(cons') = Len(cons)
                 \/ Len(cons') = Last
                    /\ cons'[Last] = [status |-> "waiting", settings |-> ep.settings,
                                      asked |-> ep.settings, told |-> <<>>]
<1> cons \in Seq(Connections)
  BY DEF IInv, TypeInv
<1>1. ASSUME NEW o \in ops, NEW made \in BOOLEAN, HandleAccept(o, made)
      PROVE  \E c \in DOMAIN cons :
               /\ cons[c].status = "waiting" /\ cons[c].told = <<>>
               /\ cons'[c] \in {Start(cons[c]), Terminate(cons[c])}
               /\ \A d \in DOMAIN cons \ {c} : cons'[d] = cons[d]
               /\ \/ Len(cons') = Len(cons)
                  \/ Len(cons') = Last
                     /\ cons'[Last] = [status |-> "waiting", settings |-> ep.settings,
                                       asked |-> ep.settings, told |-> <<>>]
  <2>1. o.what = "accept"
    BY <1>1 DEF HandleAccept
  <2> QED
    BY <1>1, <2>1, AcceptHandled, OpFound DEF Told
<1>2. ASSUME NEW o \in ops, HandleConnect(o)
      PROVE  \E c \in DOMAIN cons :
               /\ cons[c].status = "waiting" /\ cons[c].told = <<>>
               /\ cons'[c] \in {Start(cons[c]), Terminate(cons[c])}
               /\ \A d \in DOMAIN cons \ {c} : cons'[d] = cons[d]
               /\ Len(cons') = Len(cons)
  <2>1. cons' = [cons EXCEPT ![o.con] = Told(o)] /\ o.what = "connect"
    BY <1>2 DEF HandleConnect
  <2> QED
    BY <2>1, OpFound DEF Told
<1>3. CASE AsyncAccept /\ cons' # cons
  <2>1. cons' = [cons EXCEPT ![ep.accepting] = Terminate(cons[ep.accepting])]
        /\ ep.accepting \in DOMAIN cons /\ cons[ep.accepting].status = "waiting"
        /\ cons[ep.accepting].told = <<>>
    BY <1>3 DEF AsyncAccept, IInv, OpsInv, ToldInv
  <2> QED
    BY <2>1
<1>4. ASSUME NEW c \in DOMAIN cons, Connect(c) \/ ConnectionGone(c)
      PROVE  /\ \/ cons[c].status = "made" /\ cons'[c] = WithStatus(cons[c], "waiting")
                \/ cons[c].status \in {"started", "ended"} /\ cons'[c] = WithStatus(cons[c], "gone")
             /\ \A d \in DOMAIN cons \ {c} : cons'[d] = cons[d]
             /\ Len(cons') = Len(cons)
  <2>1. PICK x \in {"waiting", "gone"} : cons' = [cons EXCEPT ![c] = WithStatus(cons[c], x)]
          /\ \/ cons[c].status = "made" /\ x = "waiting"
             \/ cons[c].status \in {"started", "ended"} /\ x = "gone"
    BY <1>4 DEF Connect, ConnectionGone, WithStatus
  <2> QED
    BY <2>1
<1> QED
  BY <1>1, <1>2, <1>3, <1>4
     DEF Next, vars, InitGiven, InitOwn, InitAgain, StartPerpetual, StopPerpetual, Enter, Leave,
         Stop, Reset, ListenFails, Listen, StopListening, SetSetting, StartAccept, AsyncAccept,
         GetConnection, SetTimer, CancelTimer, HandleTimer, Complete, CallByHandle, ReadReply

LEMMA SettingsStep ==
  ASSUME IInv, [Next]_vars
  PROVE  SettingsOfCreation'
<1> cons \in Seq(Connections) /\ cons' \in Seq(Connections) /\ SettingsOfCreation /\ TypeInv
  BY ConsTyped DEF IInv, TypeInv
<1>a. \A c \in DOMAIN cons : cons[c] \in Connections /\ cons[c].settings = cons[c].asked
  BY DEF SettingsOfCreation
<1>1. CASE cons' = cons
  BY <1>1 DEF SettingsOfCreation
<1>2. CASE Destroy
  <2>1. cons' = [c \in DOMAIN cons |-> WithStatus(cons[c], "gone")]
    BY <1>2 DEF Destroy, WithStatus
  <2> QED
    BY <1>a, <2>1, StatusChanged DEF SettingsOfCreation
<1>3. ASSUME NEW s \in {"made", "waiting"}, cons' = CreateConnection(s)
      PROVE  SettingsOfCreation'
  <2> DEFINE new == [status |-> s, settings |-> ep.settings, asked |-> ep.settings, told |-> <<>>]
  <2>1. cons' = Append(cons, new) /\ new.settings = new.asked
    BY <1>3, ConnectionMade
  <2> HIDE DEF new
  <2> QED
    BY <1>a, <2>1 DEF SettingsOfCreation
<1>4. ASSUME NEW c \in DOMAIN cons,
             \/ cons'[c] \in {Start(cons[c]), Terminate(cons[c])}
             \/ cons'[c] \in {WithStatus(cons[c], "waiting"), WithStatus(cons[c], "gone")},
             \A d \in DOMAIN cons \ {c} : cons'[d] = cons[d],
             \/ Len(cons') = Len(cons)
             \/ Len(cons') = Last
                /\ cons'[Last] = [status |-> "waiting", settings |-> ep.settings,
                                  asked |-> ep.settings, told |-> <<>>]
      PROVE  SettingsOfCreation'
  <2>1. cons'[c].settings = cons'[c].asked
    BY <1>4, <1>a, ConnectionTold, StatusChanged
  <2>2. Len(cons') = Last => cons'[Last].settings = cons'[Last].asked
    BY <1>4 DEF Last
  <2>3. \A d \in DOMAIN cons' : d = c \/ d \in DOMAIN cons \ {c} \/ (d = Last /\ Len(cons') = Last)
    BY <1>4 DEF Last
  <2> QED
    BY <1>4, <1>a, <2>1, <2>2, <2>3 DEF SettingsOfCreation
<1> QED
  BY <1>1, <1>2, <1>3, <1>4, ConsChanges

LEMMA ToldStep ==
  ASSUME IInv, [Next]_vars
  PROVE  ToldInv'
<1> cons \in Seq(Connections) /\ cons' \in Seq(Connections) /\ ToldInv /\ TypeInv
    /\ ep.alive \in BOOLEAN /\ ep'.alive \in BOOLEAN
  BY ConsTyped, EpTyped DEF IInv, TypeInv, Endpoints
<1> ep'.alive => ep.alive
  BY StaysDead
<1>a. \A c \in DOMAIN cons : cons[c] \in Connections
  OBVIOUS
<1>1. CASE cons' = cons
  BY <1>1 DEF ToldInv
<1>2. CASE Destroy
  <2>1. ~ep'.alive /\ cons' = [c \in DOMAIN cons |-> WithStatus(cons[c], "gone")]
    BY <1>2 DEF Destroy, WithStatus, IInv, TypeInv, Endpoints
  <2> QED
    BY <1>a, <2>1, StatusChanged DEF ToldInv
<1>3. ASSUME NEW s \in {"made", "waiting"}, cons' = CreateConnection(s)
      PROVE  ToldInv'
  <2> DEFINE new == [status |-> s, settings |-> ep.settings, asked |-> ep.settings, told |-> <<>>]
  <2>1. cons' = Append(cons, new) /\ new.status \in {"made", "waiting"} /\ new.told = <<>>
    BY <1>3, ConnectionMade
  <2> HIDE DEF new
  <2> QED
    BY <1>a, <2>1 DEF ToldInv
<1>4. ASSUME NEW c \in DOMAIN cons,
             \/ cons[c].status = "waiting" /\ cons[c].told = <<>>
                /\ cons'[c] \in {Start(cons[c]), Terminate(cons[c])}
             \/ cons[c].status = "made" /\ cons'[c] = WithStatus(cons[c], "waiting")
             \/ cons[c].status \in {"started", "ended"} /\ cons'[c] = WithStatus(cons[c], "gone"),
             \A d \in DOMAIN cons \ {c} : cons'[d] = cons[d],
             \/ Len(cons') = Len(cons)
             \/ Len(cons') = Last
                /\ cons'[Last] = [status |-> "waiting", settings |-> ep.settings,
                                  asked |-> ep.settings, told |-> <<>>]
      PROVE  ToldInv'
  <2>1. IF cons'[c].status \in {"made", "waiting"} THEN cons'[c].told = <<>>
        ELSE Len(cons'[c].told) = 1 \/ (cons'[c].told = <<>> /\ ~ep'.alive)
    BY <1>4, <1>a, ConnectionTold, StatusChanged DEF ToldInv
  <2>2. Len(cons') = Last => cons'[Last].status = "waiting" /\ cons'[Last].told = <<>>
    BY <1>4 DEF Last
  <2>3. \A d \in DOMAIN cons' : d = c \/ d \in DOMAIN cons \ {c} \/ (d = Last /\ Len(cons') = Last)
    BY <1>4 DEF Last
  <2> QED
    BY <1>4, <1>a, <2>1, <2>2, <2>3 DEF ToldInv
<1> QED
  BY <1>1, <1>2, <1>3, <1>4, ConsChanges

-----------------------------------------------------------------------------
(***************************************************************************)
(* What is under way                                                       *)
(***************************************************************************)

LEMMA UnderWayStep ==
  ASSUME IInv, [Next]_vars
  PROVE  OpsInv' /\ WaitInv'
<1> USE DEF NoCon
<1> /\ cons \in Seq(Connections) /\ ep \in Endpoints /\ ops \in SUBSET Operations
    /\ OpsInv /\ WaitInv /\ StateInv /\ TypeInv
  BY DEF IInv, TypeInv
<1>a. \A c \in DOMAIN cons : cons[c] \in Connections /\ c # 0
  OBVIOUS
<1>b. \A o \in ops : o.con = 0 <=> o.what = "timer"
  BY <1>a DEF OpsInv
<1>1. CASE UNCHANGED <<ops, cons, ep.accepting, ep.timer>> /\ (ep'.alive => ep.alive)
  BY <1>1 DEF OpsInv, WaitInv
<1>2. CASE Destroy
  <2>1. /\ ops' = {} /\ cons' = [c \in DOMAIN cons |-> WithStatus(cons[c], "gone")]
        /\ ep'.accepting = 0 /\ ~ep'.alive
    BY <1>2 DEF Destroy, MayDestroy, WithStatus, Endpoints
  <2> QED
    BY <2>1, <1>a, StatusChanged DEF OpsInv, WaitInv
<1>3. CASE StopListening
  <2>1. ops' = {Canceled(o) : o \in ops} /\ cons' = cons
        /\ UNCHANGED <<ep.accepting, ep.timer, ep.alive>>
    BY <1>3, CanceledCounted DEF StopListening, Endpoints
  <2>2. \A o \in ops : Canceled(o) \in ops' /\ Canceled(o).con = o.con /\ Canceled(o).what = o.what
    BY <2>1, CanceledKeeps
  <2>3. \A p \in ops' : \E o \in ops : p = Canceled(o) /\ p.con = o.con /\ p.what = o.what
    BY <2>1, <2>2
  <2>4. OpsInv'
    BY <2>1, <2>3 DEF OpsInv
  <2>5. WaitInv'
    BY <2>1, <2>2 DEF WaitInv
  <2> QED
    BY <2>4, <2>5
<1>4. ASSUME NEW o \in ops, NEW ec, (CancelTimer /\ o = Asked("timer", NoCon)) \/ Complete(o, ec)
      PROVE  OpsInv' /\ WaitInv'
  <2> DEFINE p == [o EXCEPT !.ec = IF CancelTimer /\ o = Asked("timer", NoCon) THEN "canceled" ELSE ec]
  <2>1. /\ ops' = (ops \ {o}) \union {p} /\ p.con = o.con /\ p.what = o.what
        /\ UNCHANGED <<ep, cons>>
    BY <1>4 DEF CancelTimer, Complete, Operations
  <2> HIDE DEF p
  <2>2. OpsInv'
    BY <2>1 DEF OpsInv
  <2>3. WaitInv'
    BY <2>1 DEF WaitInv
  <2> QED
    BY <2>2, <2>3
<1>5. CASE SetTimer
  <2> DEFINE p == Asked("timer", 0)
  <2>1. /\ ops' = ops \union {p} /\ p.con = 0 /\ p.what = "timer" /\ cons' = cons
        /\ ep.timer = "unset" /\ ep'.timer = "set" /\ UNCHANGED <<ep.accepting, ep.alive>>
    BY <1>5 DEF SetTimer, Asked, Endpoints
  <2> HIDE DEF p
  <2>2. \A o \in ops : o.con # 0
    BY <1>b, <2>1 DEF OpsInv
  <2>3. OpsInv'
    BY <2>1, <2>2 DEF OpsInv
  <2>4. WaitInv'
    BY <2>1 DEF WaitInv
  <2> QED
    BY <2>3, <2>4
<1>6. ASSUME NEW o \in ops, HandleTimer(o)
      PROVE  OpsInv' /\ WaitInv'
  <2>1. /\ ops' = ops \ {o} /\ o.what = "timer" /\ cons' = cons
        /\ ep'.timer \in {"ok", "error", "canceled"} /\ UNCHANGED <<ep.accepting, ep.alive>>
    BY <1>6 DEF HandleTimer, Endpoints, Operations
  <2>2. \A p \in ops \ {o} : p.what # "timer"
    BY <1>b, <2>1 DEF OpsInv
  <2>3. OpsInv'
    BY <2>1, <2>2 DEF OpsInv
  <2>4. WaitInv'
    BY <1>a, <1>b, <2>1 DEF WaitInv
  <2> QED
    BY <2>3, <2>4
<1>7. CASE StartAccept \/ GetConnection
  <2>1. PICK s \in {"made", "waiting"} :
          /\ cons' = CreateConnection(s) /\ UNCHANGED <<ep.accepting, ep.timer, ep.alive>>
          /\ \/ s = "made" /\ ops' = ops
             \/ s = "waiting" /\ ops' = ops \union {Asked("accept", Last)}
    BY <1>7 DEF StartAccept, GetConnection, Endpoints
  <2> DEFINE new == [status |-> s, settings |-> ep.settings, asked |-> ep.settings, told |-> <<>>]
  <2>2. cons' = Append(cons, new) /\ new.status = s
    BY <2>1, ConnectionMade
  <2> HIDE DEF new
  <2>3. /\ DOMAIN cons' = DOMAIN cons \union {Last} /\ Last \notin DOMAIN cons /\ Last # 0
        /\ cons'[Last].status = s /\ \A c \in DOMAIN cons : cons'[c] = cons[c]
    BY <2>2 DEF Last
  <2>4. Asked("accept", Last).con = Last /\ Asked("accept", Last).what = "accept"
    BY DEF Asked
  <2>5. \A o \in ops : o.con # Last
    BY <1>a, <1>b, <2>3 DEF OpsInv
  <2>6. OpsInv'
    BY <2>1, <2>3, <2>4, <2>5 DEF OpsInv
  <2>7. WaitInv'
    BY <2>1, <2>3, <2>4 DEF WaitInv
  <2> QED
    BY <2>6, <2>7
<1>8. ASSUME NEW c \in DOMAIN cons, Connect(c)
      PROVE  OpsInv' /\ WaitInv'
  <2>1. /\ cons' = [cons EXCEPT ![c] = WithStatus(cons[c], "waiting")] /\ cons[c].status = "made"
        /\ ops' = ops \union {Asked("connect", c)} /\ ep' = ep
    BY <1>8 DEF Connect, WithStatus
  <2>2. /\ DOMAIN cons' = DOMAIN cons /\ cons'[c].status = "waiting"
        /\ \A d \in DOMAIN cons \ {c} : cons'[d] = cons[d]
    BY <1>a, <2>1, StatusChanged
  <2>3. Asked("connect", c).con = c /\ Asked("connect", c).what = "connect"
    BY DEF Asked
  <2>4. \A o \in ops : o.con # c
    BY <1>a, <1>b, <2>1 DEF OpsInv
  <2>5. OpsInv'
    BY <2>1, <2>2, <2>3, <2>4 DEF OpsInv
  <2>6. WaitInv'
    BY <2>1, <2>2, <2>3 DEF WaitInv
  <2> QED
    BY <2>5, <2>6
<1>9. ASSUME NEW c \in DOMAIN cons, ConnectionGone(c)
      PROVE  OpsInv' /\ WaitInv'
  <2>1. /\ cons' = [cons EXCEPT ![c] = WithStatus(cons[c], "gone")]
        /\ cons[c].status \in {"started", "ended"} /\ ops' = ops /\ ep' = ep
    BY <1>9 DEF ConnectionGone, WithStatus
  <2>2. /\ DOMAIN cons' = DOMAIN cons /\ cons'[c].status = "gone"
        /\ \A d \in DOMAIN cons \ {c} : cons'[d] = cons[d]
    BY <1>a, <2>1, StatusChanged
  <2>3. OpsInv'
    BY <2>1, <2>2 DEF OpsInv
  <2>4. WaitInv'
    BY <2>1, <2>2 DEF WaitInv
  <2> QED
    BY <2>3, <2>4
<1>10. CASE AsyncAccept /\ Listening
  <2>1. /\ ops' = ops \union {Asked("accept", ep.accepting)} /\ cons' = cons /\ ep.accepting # 0
        /\ ep'.accepting = 0 /\ UNCHANGED <<ep.timer, ep.alive>>
    BY <1>10 DEF AsyncAccept, Endpoints
  <2>2. Asked("accept", ep.accepting).con = ep.accepting
        /\ Asked("accept", ep.accepting).what = "accept"
    BY DEF Asked
  <2>3. \A o \in ops : o.con # ep.accepting
    BY <1>b, <2>1 DEF OpsInv
  <2>4. OpsInv'
    BY <1>a, <2>1, <2>2, <2>3 DEF OpsInv
  <2>5. WaitInv'
    BY <2>1, <2>2 DEF WaitInv
  <2> QED
    BY <2>4, <2>5
<1>11. CASE AsyncAccept /\ ~Listening
  <2> DEFINE a == ep.accepting
  <2>1. /\ cons' = [cons EXCEPT ![a] = Terminate(cons[a])] /\ ops' = ops /\ a \in DOMAIN cons
        /\ ep'.accepting = 0 /\ UNCHANGED <<ep.timer, ep.alive>>
    BY <1>11 DEF AsyncAccept, Endpoints, OpsInv
  <2>2. /\ DOMAIN cons' = DOMAIN cons /\ cons'[a].status = "ended"
        /\ \A d \in DOMAIN cons \ {a} : cons'[d] = cons[d]
    BY <1>a, <2>1, ConnectionTold
  <2>3. \A o \in ops : o.con # a
    BY <1>a, <1>b, <2>1 DEF OpsInv
  <2>4. OpsInv'
    BY <2>1, <2>2, <2>3 DEF OpsInv
  <2>5. WaitInv'
    BY <2>1, <2>2 DEF WaitInv
  <2> QED
    BY <2>4, <2>5
<1>12. ASSUME NEW o \in ops, HandleConnect(o)
      PROVE  OpsInv' /\ WaitInv'
  <2>1. /\ ops' = ops \ {o} /\ o.what = "connect" /\ ep' = ep
        /\ cons' = [cons EXCEPT ![o.con] = Told(o)]
    BY <1>12 DEF HandleConnect
  <2>2. /\ o.con \in DOMAIN cons /\ DOMAIN cons' = DOMAIN cons
        /\ cons'[o.con].status \in {"started", "ended"}
        /\ \A d \in DOMAIN cons \ {o.con} : cons'[d] = cons[d]
    BY <2>1, OpFound, ConnectionTold DEF Told
  <2>3. o.con # ep.accepting
    BY <2>1 DEF OpsInv
  <2>4. OpsInv'
    BY <2>1, <2>2, <2>3 DEF OpsInv
  <2>5. WaitInv'
    BY <2>1, <2>2 DEF WaitInv
  <2> QED
    BY <2>4, <2>5
<1>13. ASSUME NEW o \in ops, NEW made \in BOOLEAN, HandleAccept(o, made)
       PROVE  OpsInv' /\ WaitInv'
  <2>1. /\ ops' = ops \ {o} /\ o.what = "accept" /\ ep.accepting = 0
    BY <1>13 DEF HandleAccept
  <2>2. /\ o.con \in DOMAIN cons /\ cons'[o.con].status \in {"started", "ended"}
        /\ \A d \in DOMAIN cons \ {o.con} : d \in DOMAIN cons' /\ cons'[d] = cons[d]
    BY <1>13, <2>1, OpFound, AcceptHandled, ConnectionTold DEF Told
  <2>a. cons' \in Seq(Connections)
    BY <1>13, AcceptHandled
  <2>3. /\ UNCHANGED <<ep.timer, ep.alive>>
        /\ \/ DOMAIN cons' = DOMAIN cons /\ ep'.accepting = 0
           \/ DOMAIN cons' = DOMAIN cons \union {Last} /\ Last \notin DOMAIN cons
              /\ ep'.accepting = Last /\ cons'[Last].status = "waiting"
    <3>1. \/ Len(cons') = Len(cons) /\ (ep' = ep \/ ep' = [ep EXCEPT !.serving = FALSE])
          \/ Len(cons') = Last /\ cons'[Last].status = "waiting" /\ ep' = [ep EXCEPT !.accepting = Last]
      BY <1>13, AcceptHandled
    <3>2. CASE Len(cons') = Len(cons) /\ (ep' = ep \/ ep' = [ep EXCEPT !.serving = FALSE])
      BY <2>a, <3>2, <2>1 DEF Endpoints
    <3>3. CASE Len(cons') = Last /\ cons'[Last].status = "waiting" /\ ep' = [ep EXCEPT !.accepting = Last]
      BY <2>a, <3>3 DEF Endpoints, Last
    <3> QED
      BY <3>1, <3>2, <3>3
  <2>4. \A p \in ops : p.con # Last
    BY <1>a, <1>b DEF OpsInv, Last
  <2>5. OpsInv'
    BY <1>a, <2>1, <2>2, <2>3, <2>4 DEF OpsInv
  <2>6. WaitInv'
    BY <2>1, <2>2, <2>3 DEF WaitInv
  <2> QED
    BY <2>5, <2>6
<1>14. CASE CancelTimer
  BY <1>4, <1>14 DEF CancelTimer
<1>15. CASE UNCHANGED vars \/ ReadReply \/ \E c \in DOMAIN cons, ec \in {"none", "old"},
                                              result \in {"none", "refused"} : CallByHandle(c, ec, result)
  BY <1>15, <1>1 DEF vars, ReadReply, CallByHandle
<1>16. CASE Enter \/ Leave \/ Stop \/ Reset
  BY <1>16, <1>1 DEF Enter, Leave, Stop, Reset
<1>17. CASE InitGiven \/ InitOwn \/ InitAgain \/ StartPerpetual \/ StopPerpetual \/ Listen
  BY <1>17, <1>1 DEF InitGiven, InitOwn, InitAgain, StartPerpetual, StopPerpetual, Listen,
     Initialised, Endpoints
<1>18. CASE (\E step \in ListenSteps : ListenFails(step)) \/ \E k \in Kinds : SetSetting(k)
  BY <1>18, <1>1 DEF ListenFails, SetSetting, Endpoints
<1> QED
  BY <1>2, <1>3, <1>4, <1>5, <1>6, <1>7, <1>8, <1>9, <1>10, <1>11, <1>12, <1>13, <1>14, <1>15,
     <1>16, <1>17, <1>18 DEF Next

-----------------------------------------------------------------------------
(***************************************************************************)
(* The accept loop, and the calls                                          *)
(***************************************************************************)

LEMMA ServingStep ==
  ASSUME IInv, [Next]_vars
  PROVE  ServingInv'
<1> USE DEF ServingInv, Listening
<1> ServingInv /\ StateInv /\ ep \in Endpoints /\ ops \in SUBSET Operations
  BY DEF IInv, TypeInv
<1>a. \A o \in ops : ep.alive
  BY DEF StateInv
<1>b. Last # NoCon
  BY DEF IInv, TypeInv, Last, NoCon
<1>1. CASE InitGiven
  BY <1>1 DEF InitGiven, Initialised, Usable, Endpoints
<1>2. CASE InitOwn
  BY <1>2 DEF InitOwn, Initialised, Endpoints
<1>3. CASE InitAgain
  BY <1>3 DEF InitAgain, Endpoints
<1>4. CASE Destroy
  BY <1>4 DEF Destroy, Endpoints
<1>5. CASE StartPerpetual
  BY <1>5 DEF StartPerpetual, Endpoints
<1>6. CASE StopPerpetual
  BY <1>6 DEF StopPerpetual, Endpoints
<1>7. CASE Enter
  BY <1>7 DEF Enter, Endpoints
<1>8. CASE Leave
  BY <1>8 DEF Leave, Endpoints
<1>9. CASE Stop
  BY <1>9 DEF Stop, Endpoints
<1>10. CASE Reset
  BY <1>10 DEF Reset, Endpoints
<1>11. CASE Listen
  BY <1>11 DEF Listen, Usable, Endpoints
<1>12. CASE StopListening
  BY <1>12 DEF StopListening, Endpoints
<1>13. CASE StartAccept
  <2>1. Asked("accept", Last) \in ops' /\ Asked("accept", Last).what = "accept"
    BY <1>13 DEF StartAccept, Asked
  <2>2. ep'.state = "listening"
    BY <1>13 DEF StartAccept, Endpoints
  <2> QED
    BY <2>1, <2>2
<1>14. CASE AsyncAccept
  <2>1. UNCHANGED <<ep.state, ep.serving, ep.alive>>
    BY <1>14 DEF AsyncAccept, Endpoints
  <2>2. Listening => Asked("accept", ep.accepting) \in ops'
    BY <1>14 DEF AsyncAccept
  <2>3. Asked("accept", ep.accepting).what = "accept"
    BY DEF Asked
  <2> QED
    BY <2>1, <2>2, <2>3
<1>15. CASE GetConnection
  BY <1>15 DEF GetConnection, Endpoints
<1>16. CASE SetTimer
  BY <1>16 DEF SetTimer, Endpoints
<1>17. CASE CancelTimer
  BY <1>17 DEF CancelTimer, Asked, Endpoints
<1>18. CASE ReadReply
  BY <1>18 DEF ReadReply, Endpoints
<1>19. ASSUME NEW step \in ListenSteps, ListenFails(step)
      PROVE  ServingInv'
  BY <1>19 DEF ListenFails, Usable, Endpoints
<1>20. ASSUME NEW k \in Kinds, SetSetting(k)
      PROVE  ServingInv'
  BY <1>20 DEF SetSetting, Endpoints
<1>21. ASSUME NEW o \in ops, NEW made \in BOOLEAN, HandleAccept(o, made)
      PROVE  ServingInv'
  BY <1>21, <1>a, <1>b, AcceptHandled DEF HandleAccept, Endpoints
<1>22. ASSUME NEW o \in ops, HandleConnect(o)
      PROVE  ServingInv'
  BY <1>22 DEF HandleConnect, Endpoints
<1>23. ASSUME NEW o \in ops, HandleTimer(o)
      PROVE  ServingInv'
  BY <1>23 DEF HandleTimer, Endpoints
<1>24. ASSUME NEW o \in ops, NEW ec \in {"ok", "error"}, Complete(o, ec)
      PROVE  ServingInv'
  <2>1. /\ ep' = ep /\ ops' = (ops \ {o}) \union {[o EXCEPT !.ec = ec]}
        /\ [o EXCEPT !.ec = ec].what = o.what
    BY <1>24 DEF Complete, Operations
  <2> QED
    BY <2>1
<1>25. ASSUME NEW c \in DOMAIN cons, Connect(c)
      PROVE  ServingInv'
  BY <1>25 DEF Connect, Usable, Endpoints
<1>26. ASSUME NEW c \in DOMAIN cons, ConnectionGone(c)
      PROVE  ServingInv'
  BY <1>26 DEF ConnectionGone, Endpoints
<1>27. ASSUME NEW c \in DOMAIN cons, NEW ec \in {"none", "old"}, NEW result \in {"none", "refused"}, CallByHandle(c, ec, result)
      PROVE  ServingInv'
  BY <1>27 DEF CallByHandle, Endpoints
<1>28. CASE UNCHANGED vars
  BY <1>28 DEF vars, Endpoints
<1> QED
  BY <1>1, <1>2, <1>3, <1>4, <1>5, <1>6, <1>7, <1>8, <1>9, <1>10, <1>11, <1>12, <1>13, <1>14, <1>15, <1>16, <1>17, <1>18, <1>19, <1>20, <1>21, <1>22, <1>23, <1>24, <1>25, <1>26, <1>27, <1>28 DEF Next

LEMMA LoopsStep ==
  ASSUME IInv, [Next]_vars
  PROVE  LoopsAsStarted'
<1> DEFINE n == Cardinality(Accepts)
<1> /\ LoopsAsStarted /\ ep \in Endpoints /\ ops \in SUBSET Operations /\ IsFiniteSet(ops)
  BY DEF IInv, TypeInv
<1>a. IsFiniteSet(Accepts) /\ n \in Nat
  BY FS_Subset, FS_CardinalityType DEF Accepts
<1>b. n + (IF ep.accepting = NoCon THEN 0 ELSE 1) <= ep.starts /\ ep.starts \in Nat
  BY DEF LoopsAsStarted, Accepting, Endpoints
<1>c. ASSUME Cardinality(Accepts') \in Nat,
             \/ Cardinality(Accepts') <= n /\ UNCHANGED <<ep.accepting, ep.starts>>
             \/ Cardinality(Accepts') <= n + 1 /\ ep'.accepting = ep.accepting
                /\ ep'.starts = ep.starts + 1
             \/ Cardinality(Accepts') <= n + 1 /\ ep.accepting # NoCon
                /\ ep'.accepting = NoCon /\ ep'.starts = ep.starts
             \/ Cardinality(Accepts') <= n - 1 /\ ep'.starts = ep.starts /\ ep.accepting = NoCon
             \/ Cardinality(Accepts') = 0 /\ ep'.accepting = NoCon /\ ep'.starts = ep.starts
      PROVE  LoopsAsStarted'
  BY <1>a, <1>b, <1>c DEF LoopsAsStarted, Accepting
<1>1. CASE Destroy
  <2>1. Accepts' = {} /\ ep'.accepting = NoCon /\ ep'.starts = ep.starts
    BY <1>1 DEF Destroy, MayDestroy, Accepts, Endpoints
  <2> QED
    BY <1>c, <2>1, FS_EmptySet
<1>2. CASE StopListening
  <2>1. UNCHANGED <<ep.accepting, ep.starts>>
    BY <1>2 DEF StopListening, Endpoints
  <2> QED
    BY <1>2, <1>c, <2>1, CanceledCounted, FS_CardinalityType
<1>3. CASE StartAccept
  <2>1. Accepts' = Accepts \union {Asked("accept", Last)}
    BY <1>3 DEF StartAccept, Accepts, Asked
  <2>2. ep'.accepting = ep.accepting /\ ep'.starts = ep.starts + 1
    BY <1>3 DEF StartAccept, Endpoints
  <2>3. Cardinality(Accepts') \in {n, n + 1}
    BY <1>a, <2>1, FS_AddElement
  <2> QED
    BY <1>a, <1>c, <2>2, <2>3
<1>4. CASE AsyncAccept
  <2>1. Accepts' = Accepts \/ Accepts' = Accepts \union {Asked("accept", ep.accepting)}
    BY <1>4 DEF AsyncAccept, Accepts, Asked
  <2>2. ep.accepting # NoCon /\ ep'.accepting = NoCon /\ ep'.starts = ep.starts
    BY <1>4 DEF AsyncAccept, Endpoints
  <2>3. Cardinality(Accepts') \in {n, n + 1}
    BY <1>a, <2>1, FS_AddElement
  <2> QED
    BY <1>a, <1>c, <2>2, <2>3
<1>5. ASSUME NEW o \in ops, NEW made \in BOOLEAN, HandleAccept(o, made)
      PROVE  LoopsAsStarted'
  <2>1. Accepts' = Accepts \ {o} /\ o \in Accepts /\ ep.accepting = NoCon
    BY <1>5 DEF HandleAccept, Accepts
  <2>2. ep'.starts = ep.starts
    BY <1>5, AcceptHandled DEF Endpoints
  <2>3. Cardinality(Accepts') = n - 1 /\ Cardinality(Accepts') \in Nat
    BY <1>a, <2>1, FS_RemoveElement, FS_CardinalityType
  <2> QED
    BY <1>a, <1>c, <2>1, <2>2, <2>3
<1>6. ASSUME NEW o \in ops, NEW ec \in {"ok", "error"}, Complete(o, ec)
      PROVE  LoopsAsStarted'
  <2>1. ep' = ep /\ ops' = (ops \ {o}) \union {[o EXCEPT !.ec = ec]}
        /\ [o EXCEPT !.ec = ec].what = o.what
    BY <1>6 DEF Complete, Operations
  <2>2. CASE o \in Accepts
    <3> DEFINE rest == Accepts \ {o}
               done == [o EXCEPT !.ec = ec]
    <3>1. Accepts' = rest \union {done}
      BY <2>1, <2>2 DEF Accepts
    <3>2. IsFiniteSet(rest) /\ Cardinality(rest) = n - 1
      BY <1>a, <2>2, FS_RemoveElement
    <3> HIDE DEF rest, done, n
    <3>a. /\ IsFiniteSet(rest \union {done})
          /\ Cardinality(rest \union {done}) =
               IF done \in rest THEN Cardinality(rest) ELSE Cardinality(rest) + 1
      BY <3>2, FS_AddElement
    <3>3. Cardinality(Accepts') \in {n - 1, n}
      BY <1>a, <3>1, <3>2, <3>a
    <3>4. Cardinality(Accepts') \in Nat
      BY <3>1, <3>a, FS_CardinalityType
    <3> QED
      BY <1>a, <1>c, <2>1, <3>3, <3>4
  <2>3. CASE o \notin Accepts
    <3>1. Accepts' = Accepts
      BY <2>1, <2>3 DEF Accepts
    <3> QED
      BY <1>a, <1>c, <2>1, <3>1
  <2> QED
    BY <2>2, <2>3
<1>7. CASE /\ \A o : o \in ops \ ops' \/ o \in ops' \ ops => o.what # "accept"
           /\ UNCHANGED <<ep.accepting, ep.starts>>
  <2>1. Accepts' = Accepts
    BY <1>7 DEF Accepts
  <2> QED
    BY <1>a, <1>c, <1>7, <2>1
<1>8. CASE SetTimer \/ CancelTimer \/ (\E c \in DOMAIN cons : Connect(c))
           \/ \E o \in ops : HandleTimer(o) \/ HandleConnect(o)
  BY <1>7, <1>8 DEF SetTimer, CancelTimer, Connect, HandleTimer, HandleConnect, Asked, Endpoints
<1>9. CASE ops' = ops /\ UNCHANGED <<ep.accepting, ep.starts>>
  BY <1>7, <1>9
<1>10. CASE (\E c \in DOMAIN cons : ConnectionGone(c)) \/ (\E k \in Kinds : SetSetting(k))
            \/ \E step \in ListenSteps : ListenFails(step)
  BY <1>9, <1>10 DEF ConnectionGone, SetSetting, ListenFails, Endpoints
<1>11. CASE InitGiven \/ InitOwn \/ InitAgain \/ StartPerpetual \/ StopPerpetual \/ Listen
  BY <1>9, <1>11 DEF InitGiven, InitOwn, InitAgain, StartPerpetual, StopPerpetual, Listen,
     Initialised, Endpoints
<1>12. CASE Enter \/ Leave \/ Stop \/ Reset \/ GetConnection \/ ReadReply \/ UNCHANGED vars
            \/ \E c \in DOMAIN cons, ec \in {"none", "old"}, result \in {"none", "refused"} :
                 CallByHandle(c, ec, result)
  BY <1>9, <1>12 DEF Enter, Leave, Stop, Reset, GetConnection, ReadReply, CallByHandle, vars
<1> QED
  BY <1>1, <1>2, <1>3, <1>4, <1>5, <1>6, <1>8, <1>10, <1>11, <1>12 DEF Next

LEMMA CallsStep ==
  ASSUME IInv, [Next]_vars
  PROVE  CallsAnswered'
<1> CallsAnswered
  BY DEF IInv
<1>1. ASSUME NEW c \in DOMAIN cons, NEW ec \in {"none", "old"}, NEW result \in {"none", "refused"},
             CallByHandle(c, ec, result)
      PROVE  CallsAnswered'
  BY <1>1 DEF CallByHandle, ConnectionOf, CallsAnswered
<1>2. CASE ReadReply
  BY <1>2 DEF ReadReply, NoReply, CallsAnswered
<1>3. CASE reply' = reply
  BY <1>3 DEF CallsAnswered
<1> QED
  BY <1>1, <1>2, <1>3
     DEF Next, vars, InitGiven, InitOwn, InitAgain, Destroy, StartPerpetual, StopPerpetual, Enter,
         Leave, Stop, Reset, Listen, ListenFails, StopListening, SetSetting, StartAccept,
         AsyncAccept, GetConnection, HandleAccept, SetTimer, CancelTimer, HandleConnect,
         HandleTimer, Complete, Connect, ConnectionGone

-----------------------------------------------------------------------------

LEMMA Stepwise == IInv /\ [Next]_vars => IInv'
  BY TypeStep, StateStep, ServiceStep, ServingStep, UnderWayStep, ToldStep, LoopsStep,
     SettingsStep, CallsStep DEF IInv

\* The inductive invariant holds of every endpoint.
THEOREM Invariance == Spec => []IInv
  BY Initially, Stepwise, PTL DEF Spec

LEMMA Consequences == IInv => ListeningIsTrue /\ NeverDeaf /\ NothingLost /\ ServiceKept
<1> SUFFICES ASSUME IInv PROVE ListeningIsTrue /\ NeverDeaf /\ NothingLost /\ ServiceKept
  OBVIOUS
<1> ep \in Endpoints /\ ops \in SUBSET Operations /\ IsFiniteSet(ops) /\ cons \in Seq(Connections)
  BY DEF IInv, TypeInv
<1>1. ListeningIsTrue
  BY DEF IInv, StateInv, ListeningIsTrue, Listening, Endpoints
<1>2. NeverDeaf
  <2>1. IsFiniteSet(Accepts) /\ Cardinality(Accepts) \in Nat
    BY FS_Subset, FS_CardinalityType DEF Accepts
  <2>2. Accepts # {} => Cardinality(Accepts) > 0
    BY <2>1, FS_EmptySet
  <2> QED
    BY <2>1, <2>2 DEF IInv, ServingInv, NeverDeaf, Accepting, Accepts
<1>3. NothingLost
  <2>1. ASSUME NEW c \in DOMAIN cons
        PROVE  /\ Len(cons[c].told) <= 1
               /\ cons[c].told = <<>> => cons[c].status \in {"made", "waiting"} \/ ~ep.alive
    <3>1. Len(<<>>) = 0
      OBVIOUS
    <3>2. cons[c].told = <<>> \/ Len(cons[c].told) = 1
      BY DEF IInv, ToldInv
    <3>3. Len(cons[c].told) <= 1
      <4>1. CASE cons[c].told = <<>>
        BY <3>1, <4>1
      <4>2. CASE Len(cons[c].told) = 1
        BY <4>2
      <4> QED
        BY <3>2, <4>1, <4>2
    <3>4. ASSUME cons[c].told = <<>>, cons[c].status \notin {"made", "waiting"}
          PROVE  ~ep.alive
      <4>1. Len(cons[c].told) # 1
        BY <3>1, <3>4
      <4> QED
        BY <3>4, <4>1 DEF IInv, ToldInv
    <3> QED
      BY <3>3, <3>4
  <2>2. ASSUME NEW c \in DOMAIN cons, cons[c].status = "waiting", c # ep.accepting
        PROVE  Cardinality({o \in ops : o.con = c}) = 1
    <3>1. PICK o \in ops : o.con = c
      BY <2>2 DEF IInv, WaitInv
    <3>2. {p \in ops : p.con = c} = {o}
      BY <3>1 DEF IInv, OpsInv
    <3> QED
      BY <3>2, FS_Singleton
  <2> QED
    BY <2>1, <2>2 DEF IInv, WaitInv, NothingLost
<1>4. ServiceKept
  BY DEF IInv, ServiceInv, ServiceKept
<1> QED
  BY <1>1, <1>2, <1>3, <1>4

\* An endpoint that listens accepts, with no more loops than were started; every
\* connection is started or terminated once, with the settings of when it was made; the
\* service that is deleted is the endpoint's own; a call by a handle that reports no error
\* has reached its connection.
THEOREM AllRight ==
  Spec => [](/\ ListeningIsTrue /\ NeverDeaf /\ LoopsAsStarted /\ NothingLost
             /\ ServiceKept /\ SettingsOfCreation /\ CallsAnswered)
<1>1. IInv => /\ ListeningIsTrue /\ NeverDeaf /\ LoopsAsStarted /\ NothingLost
              /\ ServiceKept /\ SettingsOfCreation /\ CallsAnswered
  BY Consequences DEF IInv
<1> QED
  BY <1>1, Invariance, PTL

=============================================================================
