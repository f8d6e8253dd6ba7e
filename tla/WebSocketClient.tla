--------------------------- MODULE WebSocketClient ---------------------------
(***************************************************************************)
(* The plugIN's connection to the Allxon agent: the main thread            *)
(* (MainSrc/plugin_main.cpp), the thread that runs the websocket library   *)
(* and its callbacks, and the thread that registers the plugIN             *)
(* (MainSrc/WebSocketClient.cpp).  The connection state machine and the    *)
(* global currConnState are shared by all of them without a lock, so a     *)
(* step here is one access to shared memory or a few with no other thread  *)
(* interested in between.                                                  *)
(*                                                                         *)
(* A CWebSocketClient is named by its address.  Main deletes one and news  *)
(* the next on every reconnection while a registration thread may still be *)
(* asleep with a pointer to the old one: it wakes up to the memory as the  *)
(* destructor left it or, if the allocator handed the address out again,   *)
(* to the new object.                                                      *)
(*                                                                         *)
(* A definition X_Y marked as a mutant is X with a bug (README.md).        *)
(***************************************************************************)
EXTENDS ConnectionStates

CONSTANTS
  Addr,         \* addresses the allocator hands out; one io thread per client
  Updaters,     \* slots for registration threads (NotifyUpdateThread)
  NoClient,     \* the null wsclientobj
  Environment,  \* what may happen: a subset of EnvironmentEvents
  Reuse         \* may an address be handed out while a thread still holds it?

\* fail, close: a connection attempt fails, the agent closes;
\* error: the agent answers -32000; badcode: its error carries no number;
\* offline, online: it reports the server's connectivity;
\* thread: pthread_create fails; sigint: the user stops the plugIN.
EnvironmentEvents ==
  {"fail", "close", "error", "badcode", "offline", "online", "thread", "sigint"}

Main == "main"
Procs == {Main} \cup Addr \cup Updaters

ASSUME ProcessesDistinct ==
  /\ Main \notin Addr \cup Updaters
  /\ Addr \cap Updaters = {}
  /\ NoClient \notin Addr

ASSUME EnvironmentAssumption ==
  /\ Environment \subseteq EnvironmentEvents
  /\ Reuse \in BOOLEAN

VARIABLES
  fsm,        \* CConnection::mCurrentState
  reason,     \* mReason of every state object
  lastState,  \* CServerOffline::mLastState
  curr,       \* the global currConnState
  tog,        \* the transition a process has chosen in toggle(), not yet made
  mpc,        \* where main is
  obj,        \* main's wsclientobj
  sigint,     \* gotSigInt
  alive,      \* the clients that are allocated
  working,    \* m_threadstart
  opened,     \* m_wsConnectionOpened
  phd,        \* m_pwebclient->phd refers to a connection
  exc,        \* m_exception
  ended,      \* m_endWebSocket
  updated,    \* IsUpdated() of the client's notifyPluginUpdate object
  sock,       \* the session as the websocket library sees it
  heard,      \* an update has been handed to the session
  iopc,       \* where the io thread of a client is
  ioarg,      \* a local of that thread: exception text or previous state
  upc,        \* where a registration thread is
  uptr        \* the client it was started with

fsmVars    == <<fsm, reason, lastState>>
clientVars == <<alive, working, opened, phd, exc, ended, updated>>
wireVars   == <<sock, heard>>
mainVars   == <<mpc, obj>>
ioVars     == <<iopc, ioarg>>
updVars    == <<upc, uptr>>
vars == <<fsmVars, curr, tog, mainVars, sigint, clientVars, wireVars, ioVars, updVars>>

NoToggle == [from |-> "Init", to |-> "Init"]

Init ==
  /\ fsm = "Init" /\ curr = NoState /\ lastState = NoState
  /\ reason = [s \in States |-> "NONE"]
  /\ tog = [p \in Procs |-> NoToggle]
  /\ mpc = "connect" /\ obj = NoClient /\ sigint = FALSE
  /\ alive = {}
  /\ working = [a \in Addr |-> FALSE]
  /\ opened = [a \in Addr |-> FALSE]
  /\ phd = [a \in Addr |-> FALSE]
  /\ exc = [a \in Addr |-> ""]
  /\ ended = [a \in Addr |-> FALSE]
  /\ updated = [a \in Addr |-> FALSE]
  /\ sock = [a \in Addr |-> "none"]
  /\ heard = [a \in Addr |-> FALSE]
  /\ iopc = [a \in Addr |-> "none"]
  /\ ioarg = [a \in Addr |-> ""]
  /\ upc = [t \in Updaters |-> "none"]
  /\ uptr = [t \in Updaters |-> NoClient]

-----------------------------------------------------------------------------
(***************************************************************************)
(* connection->toggle() in two steps: pick the transition by the current   *)
(* object and its reason, then carry it out.  Two processes may both pick  *)
(* before either carries out.                                              *)
(***************************************************************************)

\* Main has returned, or an exception nobody catches has aborted the process.
Terminated == mpc \in {"exited", "aborted"}

\* A step of main, of an io thread, of a registration thread.  The threads go
\* with the process.
MainGoto(from, to) == mpc = from /\ mpc' = to
IoGoto(a, from, to) == ~Terminated /\ iopc[a] = from /\ iopc' = [iopc EXCEPT ![a] = to]
UpdGoto(t, from, to) == ~Terminated /\ upc[t] = from /\ upc' = [upc EXCEPT ![t] = to]

\* currConnState = connection->getCurrentState()
ReadState == curr' = fsm

\* setNewStateReason(r) on state object s
SetReason(s, r) == reason' = [reason EXCEPT ![s] = r]

PickTransition(p) ==
  /\ tog' = [tog EXCEPT ![p] =
               [from |-> fsm, to |-> Toggled(fsm, reason[fsm], lastState)]]
  /\ UNCHANGED <<fsmVars, curr>>

MakeTransition(p) ==
  LET t == tog[p] IN
  /\ fsm' = IF t.to = t.from THEN fsm ELSE t.to
  /\ reason' = [reason EXCEPT ![t.from] = SettledReason(t.from, @)]
  /\ tog' = [tog EXCEPT ![p] = NoToggle]
  /\ UNCHANGED <<lastState, curr>>

-----------------------------------------------------------------------------
(***************************************************************************)
(* main                                                                    *)
(***************************************************************************)

MainReadsState ==
  /\ MainGoto("connect", "alive")
  /\ ReadState
  /\ UNCHANGED <<fsmVars, tog, obj, sigint, clientVars, wireVars, ioVars, updVars>>

\* The cast to CAgentDisabled is blind: AGENT_ALIVE lands on whatever object
\* the global points to.
MainSetsAgentAlive ==
  /\ MainGoto("alive", "alivePick")
  /\ SetReason(curr, "AGENT_ALIVE")
  /\ UNCHANGED <<fsm, lastState, curr, tog, obj, sigint, clientVars, wireVars, ioVars, updVars>>

MainPicks ==
  /\ \/ MainGoto("alivePick", "aliveMake")
     \/ MainGoto("brokenPick", "brokenMake")
  /\ PickTransition(Main)
  /\ UNCHANGED <<obj, sigint, clientVars, wireVars, ioVars, updVars>>

MainMakes ==
  /\ \/ MainGoto("aliveMake", "new")
     \/ MainGoto("brokenMake", "delete")
  /\ MakeTransition(Main)
  /\ UNCHANGED <<obj, sigint, clientVars, wireVars, ioVars, updVars>>

\* Timing assumption: main sleeps ten seconds or more (line 200) between the
\* delete and the next new, so every thread that is not itself in a sleep has
\* got to one or has ended by then.
AllAsleep ==
  /\ \A a \in Addr : iopc[a] = "none"
  /\ \A t \in Updaters : upc[t] \in {"none", "loop", "deviceSleep"}

\* new CWebSocketClient, its Initial() and its plugin with a fresh
\* notifyPluginUpdate object.
MainNews(a) ==
  /\ MainGoto("new", "start")
  /\ a \notin alive
  /\ AllAsleep
  /\ Reuse \/ \A t \in Updaters : upc[t] = "none" \/ uptr[t] # a
  /\ obj' = a
  /\ alive' = alive \cup {a}
  /\ working' = [working EXCEPT ![a] = FALSE]
  /\ opened' = [opened EXCEPT ![a] = FALSE]
  /\ phd' = [phd EXCEPT ![a] = FALSE]
  /\ exc' = [exc EXCEPT ![a] = ""]
  /\ ended' = [ended EXCEPT ![a] = FALSE]
  /\ updated' = [updated EXCEPT ![a] = FALSE]
  /\ sock' = [sock EXCEPT ![a] = "none"]
  /\ heard' = [heard EXCEPT ![a] = FALSE]
  /\ UNCHANGED <<fsmVars, curr, tog, sigint, ioVars, updVars>>

\* The io thread of client a starts and asks for a connection.
StartIo(a) ==
  /\ iopc' = [iopc EXCEPT ![a] = "run"]
  /\ sock' = [sock EXCEPT ![a] = "connecting"]

\* StartWebClient: m_threadstart is set before the threads are created and
\* cleared again when one of them cannot be; what was started keeps running.
MainStarts(t) ==
  /\ MainGoto("start", "wait")
  /\ upc[t] = "none"
  /\ \/ /\ working' = [working EXCEPT ![obj] = TRUE]
        /\ StartIo(obj)
        /\ upc' = [upc EXCEPT ![t] = "loop"]
        /\ uptr' = [uptr EXCEPT ![t] = obj]
     \/ /\ "thread" \in Environment
        /\ UNCHANGED working
        /\ \/ UNCHANGED <<iopc, sock, upc, uptr>>
           \/ StartIo(obj) /\ UNCHANGED <<upc, uptr>>
           \/ /\ StartIo(obj)
              /\ upc' = [upc EXCEPT ![t] = "loop"]
              /\ uptr' = [uptr EXCEPT ![t] = obj]
  /\ UNCHANGED <<fsmVars, curr, tog, obj, sigint, alive, opened, phd, exc, ended,
                 updated, heard, ioarg>>

\* Mutant: only a client that works lets main through.
MainWaits_ForWork ==
  /\ \/ MainGoto("wait", "loop") /\ working[obj]
     \/ MainGoto("wait", "wait") /\ ~working[obj]
  /\ UNCHANGED <<fsmVars, curr, tog, obj, sigint, clientVars, wireVars, ioVars, updVars>>

\* The do ... while of lines 157-161 lets main through when the client works
\* or has failed with exactly "invalid state", and sleeps again otherwise.
MainWaits ==
  /\ \/ MainGoto("wait", "loop") /\ (working[obj] \/ exc[obj] = "invalid state")
     \/ MainGoto("wait", "wait") /\ ~(working[obj] \/ exc[obj] = "invalid state")
  /\ UNCHANGED <<fsmVars, curr, tog, obj, sigint, clientVars, wireVars, ioVars, updVars>>

\* The loop condition, and the signal test at the top of the body.
MainLoops ==
  /\ \/ /\ MainGoto("loop", "shutdown")
        /\ ended[obj]
        /\ UNCHANGED ended
     \/ /\ MainGoto("loop", "check")
        /\ ~ended[obj]
        /\ ended' = [ended EXCEPT ![obj] = sigint]
  /\ UNCHANGED <<fsmVars, curr, tog, obj, sigint, alive, working, opened, phd, exc,
                 updated, wireVars, ioVars, updVars>>

\* Mutant: main starts over without looking whether the client works.
MainChecks_Blindly ==
  /\ MainGoto("check", "broken")
  /\ ReadState
  /\ UNCHANGED <<fsmVars, tog, obj, sigint, clientVars, wireVars, ioVars, updVars>>

\* A working client is left alone for ten seconds; otherwise main starts over.
MainChecks ==
  /\ \/ MainGoto("check", "loop") /\ working[obj] /\ UNCHANGED curr
     \/ MainGoto("check", "broken") /\ ~working[obj] /\ ReadState
  /\ UNCHANGED <<fsmVars, tog, obj, sigint, clientVars, wireVars, ioVars, updVars>>

MainTestsBroken ==
  /\ \/ /\ curr = "PluginRegistered"
        /\ MainGoto("broken", "brokenPick")
        /\ SetReason("PluginRegistered", "WEBSOCKET_DISCONNECTED")
     \/ /\ curr # "PluginRegistered"
        /\ MainGoto("broken", "delete")
        /\ UNCHANGED reason
  /\ UNCHANGED <<fsm, lastState, curr, tog, obj, sigint, clientVars, wireVars, ioVars, updVars>>

\* The destructor clears m_threadstart, which is what the memory holds until
\* the address is used again, and takes the library's endpoint down with it.
FreeClient ==
  /\ alive' = alive \ {obj}
  /\ sock' = [sock EXCEPT ![obj] = "closed"]
  /\ working' = [working EXCEPT ![obj] = FALSE]
  /\ obj' = NoClient

MainDeletes ==
  /\ MainGoto("delete", "connect")
  /\ FreeClient
  /\ UNCHANGED <<fsmVars, curr, tog, sigint, opened, phd, exc, ended, updated,
                 heard, ioVars, updVars>>

\* m_client.close throws unless the session is open, and nobody in main
\* catches: the process aborts.
MainCloses ==
  /\ \/ /\ MainGoto("shutdown", "final")
        /\ phd[obj] /\ sock[obj] = "open"
        /\ sock' = [sock EXCEPT ![obj] = "closing"]
     \/ /\ MainGoto("shutdown", "aborted")
        /\ ~(phd[obj] /\ sock[obj] = "open")
        /\ UNCHANGED sock
  /\ UNCHANGED <<fsmVars, curr, tog, obj, sigint, clientVars, heard, ioVars, updVars>>

\* A thread handle is unsigned, so "handle > -1" never holds: the wait for
\* the threads ends at once, the client is deleted and main returns.
MainExits ==
  /\ MainGoto("final", "exited")
  /\ FreeClient
  /\ UNCHANGED <<fsmVars, curr, tog, sigint, opened, phd, exc, ended, updated,
                 heard, ioVars, updVars>>

MainStep ==
  \/ MainReadsState \/ MainSetsAgentAlive \/ MainPicks \/ MainMakes
  \/ \E a \in Addr : MainNews(a)
  \/ \E t \in Updaters : MainStarts(t)
  \/ MainWaits \/ MainLoops \/ MainChecks \/ MainTestsBroken
  \/ MainDeletes \/ MainCloses \/ MainExits

-----------------------------------------------------------------------------
(***************************************************************************)
(* The io thread of client a (ClientWorkThread).  The library calls back   *)
(* one handler at a time; "run" is the thread inside io_service::run with  *)
(* no handler active.                                                      *)
(***************************************************************************)

\* The callbacks that end the session.  On_fail and On_close begin with
\* m_client.close on a session the library has already closed: that throws
\* "invalid state", so nothing after the call is executed and the exception
\* leaves run().
IoLosesSession(a) ==
  /\ IoGoto(a, "run", "caught")
  /\ \/ sock[a] = "connecting" /\ "fail" \in Environment
     \/ sock[a] = "open" /\ "close" \in Environment
     \/ sock[a] = "closing"
  /\ sock' = [sock EXCEPT ![a] = "closed"]
  /\ ioarg' = [ioarg EXCEPT ![a] = "invalid state"]
  /\ UNCHANGED <<fsmVars, curr, tog, mainVars, sigint, clientVars, heard, updVars>>

\* On_open, down to the first access of the shared state.
IoOpens(a) ==
  /\ IoGoto(a, "run", "open")
  /\ sock[a] = "connecting"
  /\ sock' = [sock EXCEPT ![a] = "open"]
  /\ ReadState
  /\ UNCHANGED <<fsmVars, tog, mainVars, sigint, clientVars, heard, ioarg, updVars>>

IoTestsOpen(a) ==
  /\ \/ /\ curr = "AgentAlive"
        /\ IoGoto(a, "open", "openPick")
        /\ SetReason("AgentAlive", "WEBSOCKET_CONNECTED")
     \/ /\ curr # "AgentAlive"
        /\ IoGoto(a, "open", "publish")
        /\ UNCHANGED reason
  /\ UNCHANGED <<fsm, lastState, curr, tog, mainVars, sigint, clientVars, wireVars, ioarg, updVars>>

\* Mutant: the flag is raised in the place of the handle.
IoPublishesHandle_FlagFirst(a) ==
  /\ IoGoto(a, "publish", "flag")
  /\ opened' = [opened EXCEPT ![a] = TRUE]
  /\ UNCHANGED <<fsmVars, curr, tog, mainVars, sigint, alive, working, phd, exc, ended,
                 updated, wireVars, ioarg, updVars>>

\* The handle first, the flag the other threads look at last.
IoPublishesHandle(a) ==
  /\ IoGoto(a, "publish", "flag")
  /\ phd' = [phd EXCEPT ![a] = TRUE]
  /\ UNCHANGED <<fsmVars, curr, tog, mainVars, sigint, alive, working, opened, exc, ended,
                 updated, wireVars, ioarg, updVars>>

IoFlagsOpened(a) ==
  /\ IoGoto(a, "flag", "run")
  /\ opened' = [opened EXCEPT ![a] = TRUE]
  /\ UNCHANGED <<fsmVars, curr, tog, mainVars, sigint, alive, working, phd, exc, ended,
                 updated, wireVars, ioarg, updVars>>

\* On_message with error -32000, only in answer to something the plugIN sent.
IoReceivesError(a) ==
  /\ "error" \in Environment
  /\ sock[a] = "open" /\ heard[a]
  /\ IoGoto(a, "run", "error")
  /\ ReadState
  /\ UNCHANGED <<fsmVars, tog, mainVars, sigint, clientVars, wireVars, ioarg, updVars>>

\* Mutant: the error is noted as the loss of the connection.
IoTestsError_Disconnects(a) ==
  /\ \/ /\ curr = "PluginRegistered"
        /\ IoGoto(a, "error", "errorPick")
        /\ SetReason("PluginRegistered", "WEBSOCKET_DISCONNECTED")
     \/ /\ curr # "PluginRegistered"
        /\ IoGoto(a, "error", "errorClear")
        /\ UNCHANGED reason
  /\ UNCHANGED <<fsm, lastState, curr, tog, mainVars, sigint, clientVars, wireVars, ioarg, updVars>>

IoTestsError(a) ==
  /\ \/ /\ curr = "PluginRegistered"
        /\ IoGoto(a, "error", "errorPick")
        /\ SetReason("PluginRegistered", "DEVICE_OFFLINE")
     \/ /\ curr # "PluginRegistered"
        /\ IoGoto(a, "error", "errorClear")
        /\ UNCHANGED reason
  /\ UNCHANGED <<fsm, lastState, curr, tog, mainVars, sigint, clientVars, wireVars, ioarg, updVars>>

IoClearsUpdated(a) ==
  /\ IoGoto(a, "errorClear", "run")
  /\ updated' = [updated EXCEPT ![a] = FALSE]
  /\ UNCHANGED <<fsmVars, curr, tog, mainVars, sigint, alive, working, opened, phd, exc,
                 ended, wireVars, ioarg, updVars>>

\* An error whose code is not a number: stoi throws out of On_message.
IoReceivesBadCode(a) ==
  /\ "badcode" \in Environment
  /\ sock[a] = "open" /\ heard[a]
  /\ IoGoto(a, "run", "caught")
  /\ ioarg' = [ioarg EXCEPT ![a] = "stoi"]
  /\ UNCHANGED <<fsmVars, curr, tog, mainVars, sigint, clientVars, wireVars, updVars>>

\* On_message with a notifyAgentEvent: the server went offline ...
IoReceivesOffline(a) ==
  /\ "offline" \in Environment
  /\ sock[a] = "open"
  /\ IoGoto(a, "run", "offline")
  /\ ReadState
  /\ UNCHANGED <<fsmVars, tog, mainVars, sigint, clientVars, wireVars, ioarg, updVars>>

\* ... which is noted on the first of PluginRegistered and WebsocketConnected
\* the global is seen to point to; the global is read again for the second.
IoTestsOffline(a) ==
  /\ \/ /\ curr = "PluginRegistered"
        /\ IoGoto(a, "offline", "offlinePick")
        /\ SetReason("PluginRegistered", "SERVER_OFFLINE")
        /\ ioarg' = [ioarg EXCEPT ![a] = "PluginRegistered"]
     \/ /\ curr # "PluginRegistered"
        /\ IoGoto(a, "offline", "offlineElse")
        /\ UNCHANGED <<reason, ioarg>>
     \/ /\ curr = "WebsocketConnected"
        /\ IoGoto(a, "offlineElse", "offlinePick")
        /\ SetReason("WebsocketConnected", "SERVER_OFFLINE")
        /\ ioarg' = [ioarg EXCEPT ![a] = "WebsocketConnected"]
     \/ /\ curr # "WebsocketConnected"
        /\ IoGoto(a, "offlineElse", "run")
        /\ UNCHANGED <<reason, ioarg>>
  /\ UNCHANGED <<fsm, lastState, curr, tog, mainVars, sigint, clientVars, wireVars, updVars>>

IoRereadsOffline(a) ==
  /\ IoGoto(a, "offlineReread", "offlineLast")
  /\ ReadState
  /\ UNCHANGED <<fsmVars, tog, mainVars, sigint, clientVars, wireVars, ioarg, updVars>>

\* Mutant: what is recorded is the state the machine is in now.
IoSetsLastState_Current(a) ==
  /\ IoGoto(a, "offlineLast", "run")
  /\ lastState' = IF curr = "ServerOffline" THEN curr ELSE lastState
  /\ ioarg' = [ioarg EXCEPT ![a] = ""]
  /\ UNCHANGED <<fsm, reason, curr, tog, mainVars, sigint, clientVars, wireVars, updVars>>

\* setLastState only if the toggle is seen to have arrived.
IoSetsLastState(a) ==
  /\ IoGoto(a, "offlineLast", "run")
  /\ lastState' = IF curr = "ServerOffline" THEN ioarg[a] ELSE lastState
  /\ ioarg' = [ioarg EXCEPT ![a] = ""]
  /\ UNCHANGED <<fsm, reason, curr, tog, mainVars, sigint, clientVars, wireVars, updVars>>

\* ... and is back online.
IoReceivesOnline(a) ==
  /\ "online" \in Environment
  /\ sock[a] = "open"
  /\ IoGoto(a, "run", "online")
  /\ ReadState
  /\ UNCHANGED <<fsmVars, tog, mainVars, sigint, clientVars, wireVars, ioarg, updVars>>

IoTestsOnline(a) ==
  /\ \/ curr = "ServerOffline" /\ IoGoto(a, "online", "onlinePick")
     \/ curr # "ServerOffline" /\ IoGoto(a, "online", "run")
  /\ UNCHANGED <<fsmVars, curr, tog, mainVars, sigint, clientVars, wireVars, ioarg, updVars>>

IoPicks(a) ==
  /\ \/ IoGoto(a, "openPick", "openMake")
     \/ IoGoto(a, "errorPick", "errorMake")
     \/ IoGoto(a, "offlinePick", "offlineMake")
     \/ IoGoto(a, "onlinePick", "onlineMake")
  /\ PickTransition(a)
  /\ UNCHANGED <<mainVars, sigint, clientVars, wireVars, ioarg, updVars>>

IoMakes(a) ==
  /\ \/ IoGoto(a, "openMake", "publish")
     \/ IoGoto(a, "errorMake", "errorClear")
     \/ IoGoto(a, "offlineMake", "offlineReread")
     \/ IoGoto(a, "onlineMake", "run")
  /\ MakeTransition(a)
  /\ UNCHANGED <<mainVars, sigint, clientVars, wireVars, ioarg, updVars>>

\* The catch block of ClientWorkThread, first statement ...
IoStopsWorking(a) ==
  /\ IoGoto(a, "caught", "report")
  /\ working' = [working EXCEPT ![a] = FALSE]
  /\ UNCHANGED <<fsmVars, curr, tog, mainVars, sigint, alive, opened, phd, exc, ended,
                 updated, wireVars, ioarg, updVars>>

\* ... and the rest of it.  The thread then ends.
IoReportsException(a) ==
  /\ IoGoto(a, "report", "none")
  /\ exc' = [exc EXCEPT ![a] = ioarg[a]]
  /\ updated' = [updated EXCEPT ![a] = FALSE]
  /\ ioarg' = [ioarg EXCEPT ![a] = ""]
  /\ UNCHANGED <<fsmVars, curr, tog, mainVars, sigint, alive, working, opened, phd, ended,
                 wireVars, updVars>>

\* What the outside does to an io thread, and what the thread does on its own.
IoEvent(a) ==
  \/ IoLosesSession(a) \/ IoOpens(a)
  \/ IoReceivesError(a) \/ IoReceivesBadCode(a)
  \/ IoReceivesOffline(a) \/ IoReceivesOnline(a)

IoStep(a) ==
  \/ IoTestsOpen(a) \/ IoPublishesHandle(a) \/ IoFlagsOpened(a)
  \/ IoTestsError(a) \/ IoClearsUpdated(a)
  \/ IoTestsOffline(a) \/ IoRereadsOffline(a) \/ IoSetsLastState(a)
  \/ IoTestsOnline(a)
  \/ IoPicks(a) \/ IoMakes(a)
  \/ IoStopsWorking(a) \/ IoReportsException(a)

-----------------------------------------------------------------------------
(***************************************************************************)
(* A registration thread (NotifyUpdateThread and SendNotifyPluginUpdate).  *)
(* "loop" and "deviceSleep" are its sleeps.                                *)
(***************************************************************************)

UpdLoops(t) ==
  /\ \/ UpdGoto(t, "loop", "opened") /\ working[uptr[t]] /\ UNCHANGED uptr
     \/ /\ UpdGoto(t, "loop", "none")
        /\ ~working[uptr[t]]
        /\ uptr' = [uptr EXCEPT ![t] = NoClient]
  /\ UNCHANGED <<fsmVars, curr, tog, mainVars, sigint, clientVars, wireVars, ioVars>>

UpdTestsOpened(t) ==
  /\ \/ UpdGoto(t, "opened", "test") /\ opened[uptr[t]] /\ ReadState
     \/ UpdGoto(t, "opened", "loop") /\ ~opened[uptr[t]] /\ UNCHANGED curr
  /\ UNCHANGED <<fsmVars, tog, mainVars, sigint, clientVars, wireVars, ioVars, uptr>>

UpdTestsState(t) ==
  /\ \/ curr \in {"WebsocketConnected", "ResendPlugin"} /\ UpdGoto(t, "test", "enter")
     \/ curr \notin {"WebsocketConnected", "ResendPlugin"} /\ UpdGoto(t, "test", "testDevice")
     \/ curr = "DeviceOffline" /\ UpdGoto(t, "testDevice", "deviceSleep")
     \/ curr # "DeviceOffline" /\ UpdGoto(t, "testDevice", "loop")
  /\ UNCHANGED <<fsmVars, curr, tog, mainVars, sigint, clientVars, wireVars, ioVars, uptr>>

\* SendNotifyPluginUpdate looks at the state once more ...
UpdReadsState(t) ==
  /\ UpdGoto(t, "enter", "retest")
  /\ ReadState
  /\ UNCHANGED <<fsmVars, tog, mainVars, sigint, clientVars, wireVars, ioVars, uptr>>

UpdRetestsState(t) ==
  /\ \/ curr \in {"WebsocketConnected", "ResendPlugin"} /\ UpdGoto(t, "retest", "send")
     \/ curr \notin {"WebsocketConnected", "ResendPlugin"} /\ UpdGoto(t, "retest", "loop")
  /\ UNCHANGED <<fsmVars, curr, tog, mainVars, sigint, clientVars, wireVars, ioVars, uptr>>

\* Mutant: the result of the send is ignored.
UpdSends_Ignoring(t) ==
  LET a == uptr[t] IN
  /\ UpdGoto(t, "send", "mark")
  /\ heard' = IF sock[a] = "open" /\ a \in alive THEN [heard EXCEPT ![a] = TRUE] ELSE heard
  /\ UNCHANGED <<fsmVars, curr, tog, mainVars, sigint, clientVars, sock, ioVars, uptr>>

\* ... sends the update, which an open session accepts ...
UpdSends(t) ==
  LET a == uptr[t] IN
  /\ \/ /\ UpdGoto(t, "send", "mark")
        /\ sock[a] = "open" /\ a \in alive
        /\ heard' = [heard EXCEPT ![a] = TRUE]
     \/ /\ UpdGoto(t, "send", "updatePick")
        /\ ~(sock[a] = "open" /\ a \in alive)
        /\ UNCHANGED heard
  /\ UNCHANGED <<fsmVars, curr, tog, mainVars, sigint, clientVars, sock, ioVars, uptr>>

\* ... notes that it did ...
UpdMarksUpdated(t) ==
  /\ UpdGoto(t, "mark", "updatePick")
  /\ updated' = [updated EXCEPT ![uptr[t]] = TRUE]
  /\ UNCHANGED <<fsmVars, curr, tog, mainVars, sigint, alive, working, opened, phd, exc,
                 ended, wireVars, ioVars, uptr>>

\* ... and toggles whether the update went out or not.  The other toggle is
\* the one after the DeviceOffline sleep, on whatever state it is by then.
UpdPicks(t) ==
  /\ \/ UpdGoto(t, "updatePick", "updateMake")
     \/ UpdGoto(t, "deviceSleep", "updateMake")
  /\ PickTransition(t)
  /\ UNCHANGED <<mainVars, sigint, clientVars, wireVars, ioVars, uptr>>

UpdMakes(t) ==
  /\ UpdGoto(t, "updateMake", "loop")
  /\ MakeTransition(t)
  /\ UNCHANGED <<mainVars, sigint, clientVars, wireVars, ioVars, uptr>>

UpdStep(t) ==
  \/ UpdLoops(t) \/ UpdTestsOpened(t) \/ UpdTestsState(t)
  \/ UpdReadsState(t) \/ UpdRetestsState(t) \/ UpdSends(t) \/ UpdMarksUpdated(t)
  \/ UpdPicks(t) \/ UpdMakes(t)

-----------------------------------------------------------------------------

\* SIGINT only raises a flag.
Interrupt ==
  /\ ~Terminated /\ "sigint" \in Environment /\ ~sigint
  /\ sigint' = TRUE
  /\ UNCHANGED <<fsmVars, curr, tog, mainVars, clientVars, wireVars, ioVars, updVars>>

\* The data thread of a working client passes the flag on to the client.
DataThreadEnds(a) ==
  /\ ~Terminated /\ sigint /\ a \in alive /\ working[a] /\ ~ended[a]
  /\ ended' = [ended EXCEPT ![a] = TRUE]
  /\ UNCHANGED <<fsmVars, curr, tog, mainVars, sigint, alive, working, opened, phd, exc,
                 updated, wireVars, ioVars, updVars>>

\* The process is gone.
Stopped == Terminated /\ UNCHANGED vars

Next ==
  \/ MainStep
  \/ \E a \in Addr : IoEvent(a) \/ IoStep(a) \/ DataThreadEnds(a)
  \/ \E t \in Updaters : UpdStep(t)
  \/ Interrupt
  \/ Stopped

Spec == Init /\ [][Next]_vars

\* The library's handshake timeouts end an attempt to connect or to close.
IoSettles(a) == sock[a] \in {"connecting", "closing"} /\ IoEvent(a)

(***************************************************************************)
(* The scheduler runs every thread that can run, and every sleep ends.     *)
(* Nothing is assumed of the agent: a connection attempt comes to an end,  *)
(* one way or the other.                                                   *)
(***************************************************************************)
Fairness ==
  /\ WF_vars(MainStep)
  /\ \A a \in Addr :
       WF_vars(IoStep(a)) /\ WF_vars(IoSettles(a)) /\ WF_vars(DataThreadEnds(a))
  /\ \A t \in Updaters : WF_vars(UpdStep(t))

FairSpec == Spec /\ Fairness

-----------------------------------------------------------------------------
(***************************************************************************)
(* Properties                                                              *)
(***************************************************************************)

MainPcs == {"connect", "alive", "alivePick", "aliveMake", "new", "start", "wait",
            "loop", "check", "broken", "brokenPick", "brokenMake", "delete",
            "shutdown", "final", "exited", "aborted"}
IoPcs == {"none", "run", "open", "openPick", "openMake", "publish", "flag",
          "error", "errorPick", "errorMake", "errorClear",
          "offline", "offlineElse", "offlinePick", "offlineMake",
          "offlineReread", "offlineLast", "online", "onlinePick", "onlineMake",
          "caught", "report"}
UpdPcs == {"none", "loop", "opened", "test", "testDevice", "enter", "retest",
           "send", "mark", "updatePick", "updateMake", "deviceSleep"}

\* Every variable holds a value of its type: the shared state of main, the io
\* threads and the registration threads.
TypeOK ==
  /\ fsm \in States /\ curr \in States \cup {NoState}
  /\ reason \in [States -> Reasons]
  /\ lastState \in {NoState, "PluginRegistered", "WebsocketConnected"}
  /\ tog \in [Procs -> [from : States, to : States]]
  /\ mpc \in MainPcs /\ obj \in Addr \cup {NoClient} /\ sigint \in BOOLEAN
  /\ alive \in SUBSET Addr
  /\ working \in [Addr -> BOOLEAN] /\ opened \in [Addr -> BOOLEAN]
  /\ phd \in [Addr -> BOOLEAN] /\ ended \in [Addr -> BOOLEAN]
  /\ exc \in [Addr -> {"", "invalid state", "stoi"}]
  /\ updated \in [Addr -> BOOLEAN] /\ heard \in [Addr -> BOOLEAN]
  /\ sock \in [Addr -> {"none", "connecting", "open", "closing", "closed"}]
  /\ iopc \in [Addr -> IoPcs]
  /\ ioarg \in [Addr -> {"", "invalid state", "stoi", "PluginRegistered", "WebsocketConnected"}]
  /\ upc \in [Updaters -> UpdPcs] /\ uptr \in [Updaters -> Addr \cup {NoClient}]

\* The states no thread can steer the machine into: whatever the callbacks and
\* the toggles of stale states do, no reason that leads to AgentDisabled,
\* ResendPlugin or Exit is ever set on an object that would act on it
\* (ConcreteStates.cpp:225-249).
DeadStatesUnreachable == fsm \notin {"AgentDisabled", "ResendPlugin", "Exit"}

MainInToggle == mpc \in {"connect", "alive", "alivePick", "aliveMake",
                         "broken", "brokenPick", "brokenMake"}
IoBusy(a) == iopc[a] \notin {"none", "report"}

\* Main and the callbacks share the state machine without a lock; what keeps
\* them apart is only that main touches it while no io thread is running, or
\* is past its last callback (plugin_main.cpp:120-124 and 187-193 against the
\* handlers and the catch block of WebSocketClient.cpp:138-142).
MainAndCallbacksExclusive == MainInToggle => \A a \in Addr : ~IoBusy(a)

\* A callback never runs on a client main has deleted: `delete wsclientobj' of
\* plugin_main.cpp:197 comes after the io thread's last callback.
CallbacksOnLiveClient ==
  ~Terminated => \A a \in Addr : IoBusy(a) => a \in alive /\ a = obj

\* A thread that is about to send over a live client finds the connection
\* handle On_open published (WebSocketClient.cpp:168-171 against 393 and 495),
\* even when it woke up with a pointer from an earlier connection.
HandlePublishedBeforeSend ==
  \A t \in Updaters :
    upc[t] \in {"enter", "retest", "send"} /\ uptr[t] \in alive => phd[uptr[t]]

\* IsUpdated() of a client means an update went into this client's own session,
\* never into one of an earlier connection, although the thread that sets the
\* flag (WebSocketClient.cpp:475) may outlive the client it was started with.
UpdatedMeansHeard == \A a \in Addr : updated[a] => heard[a]

\* The sessions an io thread still serves.
Served == {a \in Addr : IoBusy(a) /\ sock[a] \in {"connecting", "open", "closing"}}

\* The machine enters WebsocketDisconnected only when no session is served, by
\* whichever thread makes the transition main asked for (plugin_main.cpp:191).
DisconnectedOnlyWhenDown ==
  [][fsm # "WebsocketDisconnected" /\ fsm' = "WebsocketDisconnected" => Served = {}]_vars

\* The main loop implements the session supervisor.
Supervisor == INSTANCE SessionSupervisor
  WITH current <- obj, sessions <- Served, stopped <- Terminated
SupervisorSpec == Supervisor!Spec

\* Lost sessions are retried: a client that stopped working is dropped so that
\* a new one is built (plugin_main.cpp:185-201), unless the process ends.
\* Needs "invalid state" to be the only way a client fails before main has
\* seen it work.
BrokenClientReplaced ==
  (obj # NoClient /\ ~working[obj] /\ mpc \in {"wait", "loop", "check"})
    ~> (obj = NoClient \/ Terminated)

InUse == obj # NoClient /\ working[obj] /\ opened[obj] /\ ~Terminated

\* A machine in WebsocketConnected over an open session does not stay there:
\* the registration thread sends the update and toggles
\* (WebSocketClient.cpp:397-400).
RegistrationAttempted ==
  (fsm = "WebsocketConnected" /\ InUse) ~> ~(fsm = "WebsocketConnected" /\ InUse)

\* DeviceOffline is left for another registration, after the sleep or through
\* a reconnection (WebSocketClient.cpp:408-414, plugin_main.cpp:124).
DeviceOfflineRetried ==
  (fsm = "DeviceOffline") ~> (fsm # "DeviceOffline" \/ Terminated)

\* plugin_main.cpp:169 says of the main loop "Leave this while loop after
\* received ctrl-c signal".
SignalEndsProcess == sigint ~> Terminated

HandlingOffline(a) == iopc[a] \in {"offlinePick", "offlineMake", "offlineReread", "offlineLast"}

\* WebSocketClient.cpp:277-280 says when the machine goes there: on the event
\* offline, "switch state to serverOffline"; on online it is to "switch to
\* previous state" (309).  So it enters ServerOffline only while an offline
\* event is being handled.
ServerOfflineOnlyOnEvent ==
  [][fsm # "ServerOffline" /\ fsm' = "ServerOffline"
       => \E a \in Addr : HandlingOffline(a)]_vars

=============================================================================
