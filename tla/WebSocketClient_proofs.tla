----------------------- MODULE WebSocketClient_proofs -----------------------
(***************************************************************************)
(* What holds of WebSocketClient for any number of addresses and           *)
(* registration threads, any environment, with or without reuse of freed   *)
(* addresses.                                                              *)
(***************************************************************************)
EXTENDS WebSocketClient, TLAPS

\* toggle() leads from any state and reason to one of the ten states.
LEMMA ToggledInStates ==
  ASSUME NEW s \in States, NEW r \in Reasons, NEW last
  PROVE  Toggled(s, r, last) \in States
BY DEF Toggled, States, Reasons, InitToggle, AgentAliveToggle, AgentDisabledToggle,
       WebsocketConnectedToggle, DeviceOfflineToggle, WebsocketDisconnectedToggle,
       PluginRegisteredToggle, ResendPluginToggle, ServerOfflineToggle

LEMMA SettledInReasons ==
  ASSUME NEW s \in States, NEW r \in Reasons
  PROVE  SettledReason(s, r) \in Reasons
BY DEF SettledReason, Reasons

-----------------------------------------------------------------------------
(***************************************************************************)
(* Type correctness.  TypeOK is not inductive: the local ioarg of an io    *)
(* thread ends up in lastState or in m_exception, so what it holds must be *)
(* known where it is used.                                                 *)
(***************************************************************************)

ArgOK ==
  \A a \in Addr :
    /\ HandlingOffline(a) => ioarg[a] \in {"PluginRegistered", "WebsocketConnected"}
    /\ iopc[a] \in {"caught", "report"} => ioarg[a] \in {"invalid state", "stoi"}

TypeInv == TypeOK /\ ArgOK

LEMMA TypeInit == Init => TypeInv
<1> SUFFICES ASSUME Init PROVE TypeInv
  OBVIOUS
<1>1. NoToggle \in [from : States, to : States]
  BY DEF NoToggle, States
<1>2. tog \in [Procs -> [from : States, to : States]]
  BY <1>1 DEF Init
<1>3. reason \in [States -> Reasons]
  BY DEF Init, Reasons
<1>4. ArgOK
  BY DEF Init, ArgOK, HandlingOffline
<1>5. TypeOK
  BY <1>2, <1>3 DEF Init, TypeOK, States, NoState, MainPcs, IoPcs, UpdPcs
<1> QED BY <1>4, <1>5 DEF TypeInv

\* Carrying out a transition keeps the machine's types.
LEMMA MakeTransitionType ==
  ASSUME TypeOK, NEW p \in Procs, MakeTransition(p)
  PROVE  /\ fsm' \in States /\ curr' \in States \cup {NoState}
         /\ reason' \in [States -> Reasons]
         /\ lastState' \in {NoState, "PluginRegistered", "WebsocketConnected"}
         /\ tog' \in [Procs -> [from : States, to : States]]
<1>1. tog[p].from \in States /\ tog[p].to \in States
  BY DEF TypeOK
<1>2. SettledReason(tog[p].from, reason[tog[p].from]) \in Reasons
  BY <1>1, SettledInReasons DEF TypeOK
<1>3. NoToggle \in [from : States, to : States]
  BY DEF NoToggle, States
<1> QED BY <1>1, <1>2, <1>3 DEF MakeTransition, TypeOK

\* So does choosing one.
LEMMA PickTransitionType ==
  ASSUME TypeOK, NEW p \in Procs, PickTransition(p)
  PROVE  /\ fsm' \in States /\ curr' \in States \cup {NoState}
         /\ reason' \in [States -> Reasons]
         /\ lastState' \in {NoState, "PluginRegistered", "WebsocketConnected"}
         /\ tog' \in [Procs -> [from : States, to : States]]
<1>1. Toggled(fsm, reason[fsm], lastState) \in States
  BY ToggledInStates DEF TypeOK
<1> QED BY <1>1 DEF PickTransition, TypeOK, fsmVars

LEMMA TypeMain == ASSUME TypeInv, MainStep PROVE TypeInv'
<1> USE DEF TypeInv, TypeOK, ArgOK, HandlingOffline, MainPcs, MainGoto, fsmVars, clientVars,
            wireVars, mainVars, ioVars, updVars
<1>0. Main \in Procs
  BY DEF Procs
<1>1. CASE MainReadsState
  BY <1>1 DEF MainReadsState, ReadState
<1>2. CASE MainSetsAgentAlive
  BY <1>2 DEF MainSetsAgentAlive, SetReason, Reasons
<1>3. CASE MainPicks
  BY <1>0, <1>3, PickTransitionType DEF MainPicks
<1>4. CASE MainMakes
  BY <1>0, <1>4, MakeTransitionType DEF MainMakes
<1>5. ASSUME NEW a \in Addr, MainNews(a) PROVE TypeInv'
  BY <1>5 DEF MainNews
<1>6. ASSUME NEW t \in Updaters, MainStarts(t) PROVE TypeInv'
  <2>1. working' \in [Addr -> BOOLEAN]
    BY <1>6 DEF MainStarts
  <2>2. /\ iopc' \in [Addr -> IoPcs]
        /\ sock' \in [Addr -> {"none", "connecting", "open", "closing", "closed"}]
    <3>1. StartIo(obj) \/ UNCHANGED <<iopc, sock>>
      BY <1>6 DEF MainStarts
    <3>2. CASE StartIo(obj)
      BY <3>2 DEF StartIo, IoPcs
    <3>3. CASE UNCHANGED <<iopc, sock>>
      BY <3>3
    <3> QED BY <3>1, <3>2, <3>3
  <2>3. upc' \in [Updaters -> UpdPcs] /\ uptr' \in [Updaters -> Addr \cup {NoClient}]
    BY <1>6 DEF MainStarts, UpdPcs
  <2>4. \A a \in Addr : iopc'[a] \in {iopc[a], "run"}
    BY <1>6 DEF MainStarts, StartIo
  <2>5. /\ mpc' = "wait"
        /\ UNCHANGED <<fsmVars, curr, tog, obj, sigint, alive, opened, phd, exc, ended,
                       updated, heard, ioarg>>
    BY <1>6 DEF MainStarts
  <2>6. TypeOK'
    BY <2>1, <2>2, <2>3, <2>5
  <2>7. ArgOK'
    BY <2>4, <2>5
  <2> QED BY <2>6, <2>7
<1>7. CASE MainWaits
  BY <1>7 DEF MainWaits
<1>8. CASE MainLoops
  BY <1>8 DEF MainLoops
<1>9. CASE MainChecks
  BY <1>9 DEF MainChecks, ReadState
<1>10. CASE MainTestsBroken
  BY <1>10 DEF MainTestsBroken, SetReason, Reasons
<1>11. CASE MainDeletes
  BY <1>11 DEF MainDeletes, FreeClient
<1>12. CASE MainCloses
  BY <1>12 DEF MainCloses
<1>13. CASE MainExits
  BY <1>13 DEF MainExits, FreeClient
<1> QED
  BY <1>1, <1>2, <1>3, <1>4, <1>5, <1>6, <1>7, <1>8, <1>9, <1>10, <1>11, <1>12, <1>13
  DEF MainStep

\* Where a step of io thread a leaves the threads: a at some known place, the
\* others where they were.
LEMMA IoMoves ==
  ASSUME iopc \in [Addr -> IoPcs], NEW a \in Addr, IoEvent(a) \/ IoStep(a)
  PROVE  iopc' \in [Addr -> IoPcs] /\ \A b \in Addr : b # a => iopc'[b] = iopc[b]
<1> SUFFICES \E to \in IoPcs : iopc' = [iopc EXCEPT ![a] = to]
  OBVIOUS
<1> USE DEF IoGoto, IoPcs
<1>1. CASE IoLosesSession(a) \/ IoOpens(a) \/ IoReceivesError(a)
  BY <1>1 DEF IoLosesSession, IoOpens, IoReceivesError
<1>2. CASE IoReceivesBadCode(a) \/ IoReceivesOffline(a) \/ IoReceivesOnline(a)
  BY <1>2 DEF IoReceivesBadCode, IoReceivesOffline, IoReceivesOnline
<1>3. CASE IoTestsOpen(a) \/ IoPublishesHandle(a) \/ IoFlagsOpened(a)
  BY <1>3 DEF IoTestsOpen, IoPublishesHandle, IoFlagsOpened
<1>4. CASE IoTestsError(a) \/ IoClearsUpdated(a)
  BY <1>4 DEF IoTestsError, IoClearsUpdated
<1>5. CASE IoTestsOffline(a)
  BY <1>5 DEF IoTestsOffline
<1>6. CASE IoRereadsOffline(a) \/ IoSetsLastState(a) \/ IoTestsOnline(a)
  BY <1>6 DEF IoRereadsOffline, IoSetsLastState, IoTestsOnline
<1>7. CASE IoPicks(a)
  BY <1>7 DEF IoPicks
<1>8. CASE IoMakes(a)
  BY <1>8 DEF IoMakes
<1>9. CASE IoStopsWorking(a) \/ IoReportsException(a)
  BY <1>9 DEF IoStopsWorking, IoReportsException
<1> HIDE DEF IoPcs, IoGoto
<1> QED BY <1>1, <1>2, <1>3, <1>4, <1>5, <1>6, <1>7, <1>8, <1>9 DEF IoEvent, IoStep

\* What an io step may do to the local of its thread: where the local is still
\* of use it keeps the value it had, or it is given one of the right kind.
LEMMA IoArgs ==
  ASSUME TypeInv, NEW a \in Addr, IoEvent(a) \/ IoStep(a)
  PROVE  /\ ioarg' \in [Addr -> {"", "invalid state", "stoi", "PluginRegistered",
                                 "WebsocketConnected"}]
         /\ \A b \in Addr : b # a => ioarg'[b] = ioarg[b]
         /\ HandlingOffline(a)' =>
              \/ HandlingOffline(a) /\ ioarg'[a] = ioarg[a]
              \/ ioarg'[a] \in {"PluginRegistered", "WebsocketConnected"}
         /\ iopc'[a] \in {"caught", "report"} =>
              \/ iopc[a] \in {"caught", "report"} /\ ioarg'[a] = ioarg[a]
              \/ ioarg'[a] \in {"invalid state", "stoi"}
<1>0. iopc \in [Addr -> IoPcs]
      /\ ioarg \in [Addr -> {"", "invalid state", "stoi", "PluginRegistered",
                             "WebsocketConnected"}]
  BY DEF TypeInv, TypeOK
<1> USE <1>0 DEF IoGoto, HandlingOffline
<1>1. CASE IoLosesSession(a) \/ IoReceivesBadCode(a)
  BY <1>1 DEF IoLosesSession, IoReceivesBadCode
<1>2. CASE IoOpens(a) \/ IoReceivesError(a)
  BY <1>2 DEF IoOpens, IoReceivesError
<1>3. CASE IoReceivesOffline(a) \/ IoReceivesOnline(a)
  BY <1>3 DEF IoReceivesOffline, IoReceivesOnline
<1>4. CASE IoTestsOpen(a) \/ IoPublishesHandle(a) \/ IoFlagsOpened(a)
  BY <1>4 DEF IoTestsOpen, IoPublishesHandle, IoFlagsOpened
<1>5. CASE IoTestsError(a) \/ IoClearsUpdated(a)
  BY <1>5 DEF IoTestsError, IoClearsUpdated
<1>6. CASE IoTestsOffline(a)
  BY <1>6 DEF IoTestsOffline
<1>7. CASE IoRereadsOffline(a) \/ IoSetsLastState(a) \/ IoTestsOnline(a)
  BY <1>7 DEF IoRereadsOffline, IoSetsLastState, IoTestsOnline
<1>8. CASE IoPicks(a)
  BY <1>8 DEF IoPicks
<1>9. CASE IoMakes(a)
  BY <1>9 DEF IoMakes
<1>10. CASE IoStopsWorking(a) \/ IoReportsException(a)
  BY <1>10 DEF IoStopsWorking, IoReportsException
<1> QED
  BY <1>1, <1>2, <1>3, <1>4, <1>5, <1>6, <1>7, <1>8, <1>9, <1>10 DEF IoEvent, IoStep

\* ... and to the machine.
LEMMA IoMachine ==
  ASSUME TypeOK, NEW a \in Addr, IoEvent(a) \/ IoStep(a)
  PROVE  /\ fsm' \in States /\ curr' \in States \cup {NoState}
         /\ reason' \in [States -> Reasons]
         /\ tog' \in [Procs -> [from : States, to : States]]
<1>0. /\ fsm \in States /\ curr \in States \cup {NoState}
      /\ reason \in [States -> Reasons]
      /\ tog \in [Procs -> [from : States, to : States]]
      /\ a \in Procs
  BY DEF TypeOK, Procs
<1> USE <1>0 DEF fsmVars
<1>1. CASE IoEvent(a)
  BY <1>1 DEF IoEvent, IoLosesSession, IoOpens, IoReceivesError, IoReceivesBadCode,
              IoReceivesOffline, IoReceivesOnline, ReadState
<1>2. CASE IoTestsOpen(a)
  BY <1>2 DEF IoTestsOpen, SetReason, Reasons
<1>3. CASE IoTestsError(a)
  BY <1>3 DEF IoTestsError, SetReason, Reasons
<1>4. CASE IoTestsOffline(a)
  BY <1>4 DEF IoTestsOffline, SetReason, Reasons
<1>5. CASE IoPublishesHandle(a) \/ IoFlagsOpened(a) \/ IoClearsUpdated(a)
  BY <1>5 DEF IoPublishesHandle, IoFlagsOpened, IoClearsUpdated
<1>6. CASE IoRereadsOffline(a) \/ IoSetsLastState(a) \/ IoTestsOnline(a)
  BY <1>6 DEF IoRereadsOffline, IoSetsLastState, IoTestsOnline, ReadState
<1>7. CASE IoPicks(a)
  BY <1>7, PickTransitionType DEF IoPicks
<1>8. CASE IoMakes(a)
  BY <1>8, MakeTransitionType DEF IoMakes
<1>9. CASE IoStopsWorking(a) \/ IoReportsException(a)
  BY <1>9 DEF IoStopsWorking, IoReportsException
<1> QED
  BY <1>1, <1>2, <1>3, <1>4, <1>5, <1>6, <1>7, <1>8, <1>9 DEF IoStep

\* ... and to the client and the session.
LEMMA IoClient ==
  ASSUME TypeInv, NEW a \in Addr, IoEvent(a) \/ IoStep(a)
  PROVE  /\ working' \in [Addr -> BOOLEAN] /\ opened' \in [Addr -> BOOLEAN]
         /\ phd' \in [Addr -> BOOLEAN] /\ updated' \in [Addr -> BOOLEAN]
         /\ exc' \in [Addr -> {"", "invalid state", "stoi"}]
         /\ sock' \in [Addr -> {"none", "connecting", "open", "closing", "closed"}]
         /\ lastState' \in {NoState, "PluginRegistered", "WebsocketConnected"}
         /\ UNCHANGED <<mpc, obj, sigint, alive, ended, heard, upc, uptr>>
<1>0. /\ working \in [Addr -> BOOLEAN] /\ opened \in [Addr -> BOOLEAN]
      /\ phd \in [Addr -> BOOLEAN] /\ updated \in [Addr -> BOOLEAN]
      /\ exc \in [Addr -> {"", "invalid state", "stoi"}]
      /\ sock \in [Addr -> {"none", "connecting", "open", "closing", "closed"}]
      /\ lastState \in {NoState, "PluginRegistered", "WebsocketConnected"}
  BY DEF TypeInv, TypeOK
<1> USE <1>0 DEF fsmVars, clientVars, wireVars, mainVars, updVars
<1>1. CASE IoLosesSession(a) \/ IoOpens(a) \/ IoReceivesError(a)
  BY <1>1 DEF IoLosesSession, IoOpens, IoReceivesError
<1>2. CASE IoReceivesBadCode(a) \/ IoReceivesOffline(a) \/ IoReceivesOnline(a)
  BY <1>2 DEF IoReceivesBadCode, IoReceivesOffline, IoReceivesOnline
<1>3. CASE IoTestsOpen(a) \/ IoPublishesHandle(a) \/ IoFlagsOpened(a)
  BY <1>3 DEF IoTestsOpen, IoPublishesHandle, IoFlagsOpened
<1>4. CASE IoTestsError(a) \/ IoClearsUpdated(a)
  BY <1>4 DEF IoTestsError, IoClearsUpdated
<1>5. CASE IoTestsOffline(a) \/ IoRereadsOffline(a) \/ IoTestsOnline(a)
  BY <1>5 DEF IoTestsOffline, IoRereadsOffline, IoTestsOnline
<1>6. CASE IoSetsLastState(a)
  <2>1. ioarg[a] \in {"PluginRegistered", "WebsocketConnected"}
    BY <1>6 DEF IoSetsLastState, IoGoto, TypeInv, ArgOK, HandlingOffline
  <2> QED BY <1>6, <2>1 DEF IoSetsLastState
<1>7. CASE IoPicks(a)
  BY <1>7 DEF IoPicks, PickTransition
<1>8. CASE IoMakes(a)
  BY <1>8 DEF IoMakes, MakeTransition
<1>9. CASE IoStopsWorking(a)
  BY <1>9 DEF IoStopsWorking
<1>10. CASE IoReportsException(a)
  <2>1. ioarg[a] \in {"invalid state", "stoi"}
    BY <1>10 DEF IoReportsException, IoGoto, TypeInv, ArgOK
  <2> QED BY <1>10, <2>1 DEF IoReportsException
<1> QED
  BY <1>1, <1>2, <1>3, <1>4, <1>5, <1>6, <1>7, <1>8, <1>9, <1>10 DEF IoEvent, IoStep

LEMMA TypeIo == ASSUME TypeInv, NEW a \in Addr, IoEvent(a) \/ IoStep(a) PROVE TypeInv'
<1>0. TypeOK
  BY DEF TypeInv
<1>1. iopc' \in [Addr -> IoPcs] /\ \A b \in Addr : b # a => iopc'[b] = iopc[b]
  BY <1>0, IoMoves DEF TypeOK
<1>2. ASSUME NEW b \in Addr, HandlingOffline(b)'
      PROVE  ioarg'[b] \in {"PluginRegistered", "WebsocketConnected"}
  <2>1. CASE b = a
    BY <1>2, <2>1, IoArgs DEF TypeInv, ArgOK
  <2>2. CASE b # a
    BY <1>1, <1>2, <2>2, IoArgs DEF TypeInv, ArgOK, HandlingOffline
  <2> QED BY <2>1, <2>2
<1>3. ASSUME NEW b \in Addr, iopc'[b] \in {"caught", "report"}
      PROVE  ioarg'[b] \in {"invalid state", "stoi"}
  <2>1. CASE b = a
    BY <1>3, <2>1, IoArgs DEF TypeInv, ArgOK
  <2>2. CASE b # a
    BY <1>1, <1>3, <2>2, IoArgs DEF TypeInv, ArgOK
  <2> QED BY <2>1, <2>2
<1>4. ArgOK'
  BY <1>2, <1>3 DEF ArgOK
<1>5. TypeOK'
  <2>1. /\ fsm' \in States /\ curr' \in States \cup {NoState}
        /\ reason' \in [States -> Reasons]
        /\ tog' \in [Procs -> [from : States, to : States]]
    BY <1>0, IoMachine
  <2>2. ioarg' \in [Addr -> {"", "invalid state", "stoi", "PluginRegistered",
                             "WebsocketConnected"}]
    BY IoArgs
  <2>3. /\ working' \in [Addr -> BOOLEAN] /\ opened' \in [Addr -> BOOLEAN]
        /\ phd' \in [Addr -> BOOLEAN] /\ updated' \in [Addr -> BOOLEAN]
        /\ exc' \in [Addr -> {"", "invalid state", "stoi"}]
        /\ sock' \in [Addr -> {"none", "connecting", "open", "closing", "closed"}]
        /\ lastState' \in {NoState, "PluginRegistered", "WebsocketConnected"}
    BY IoClient
  <2>4. UNCHANGED <<mpc, obj, sigint, alive, ended, heard, upc, uptr>>
    BY IoClient
  <2>5. /\ mpc' \in MainPcs /\ obj' \in Addr \cup {NoClient} /\ sigint' \in BOOLEAN
        /\ alive' \in SUBSET Addr
        /\ ended' \in [Addr -> BOOLEAN] /\ heard' \in [Addr -> BOOLEAN]
        /\ upc' \in [Updaters -> UpdPcs] /\ uptr' \in [Updaters -> Addr \cup {NoClient}]
    BY <1>0, <2>4 DEF TypeOK
  <2> QED BY <1>1, <2>1, <2>2, <2>3, <2>5 DEF TypeOK
<1> QED BY <1>4, <1>5 DEF TypeInv

LEMMA TypeUpd == ASSUME TypeInv, NEW t \in Updaters, UpdStep(t) PROVE TypeInv'
<1> USE DEF TypeInv, TypeOK, ArgOK, HandlingOffline, UpdPcs, UpdGoto, fsmVars, clientVars,
            wireVars, mainVars, ioVars, updVars
<1>0. t \in Procs
  BY DEF Procs
<1>1. CASE UpdLoops(t)
  BY <1>1 DEF UpdLoops
<1>2. CASE UpdTestsOpened(t)
  BY <1>2 DEF UpdTestsOpened, ReadState
<1>3. CASE UpdTestsState(t)
  BY <1>3 DEF UpdTestsState
<1>4. CASE UpdReadsState(t)
  BY <1>4 DEF UpdReadsState, ReadState
<1>5. CASE UpdRetestsState(t)
  BY <1>5 DEF UpdRetestsState
<1>6. CASE UpdSends(t)
  BY <1>6 DEF UpdSends
<1>7. CASE UpdMarksUpdated(t)
  BY <1>7 DEF UpdMarksUpdated
<1>8. CASE UpdPicks(t)
  BY <1>0, <1>8, PickTransitionType DEF UpdPicks
<1>9. CASE UpdMakes(t)
  BY <1>0, <1>9, MakeTransitionType DEF UpdMakes
<1> QED
  BY <1>1, <1>2, <1>3, <1>4, <1>5, <1>6, <1>7, <1>8, <1>9 DEF UpdStep

\* Every step of every thread keeps the types.
LEMMA TypeNext == ASSUME TypeInv, [Next]_vars PROVE TypeInv'
<1> USE DEF TypeInv, TypeOK, ArgOK, HandlingOffline, fsmVars, clientVars, wireVars, mainVars,
            ioVars, updVars
<1>1. CASE MainStep
  BY <1>1, TypeMain
<1>2. ASSUME NEW a \in Addr, IoEvent(a) \/ IoStep(a) PROVE TypeInv'
  BY <1>2, TypeIo
<1>3. ASSUME NEW a \in Addr, DataThreadEnds(a) PROVE TypeInv'
  BY <1>3 DEF DataThreadEnds
<1>4. ASSUME NEW t \in Updaters, UpdStep(t) PROVE TypeInv'
  BY <1>4, TypeUpd
<1>5. CASE Interrupt
  BY <1>5 DEF Interrupt
<1>6. CASE UNCHANGED vars
  BY <1>6 DEF vars
<1> QED
  BY <1>1, <1>2, <1>3, <1>4, <1>5, <1>6 DEF Next, Stopped

THEOREM TypeInvariant == Spec => []TypeInv
<1>1. Init => TypeInv
  BY TypeInit
<1>2. TypeInv /\ [Next]_vars => TypeInv'
  BY TypeNext
<1> QED BY <1>1, <1>2, PTL DEF Spec

\* Type correctness of the client: every variable keeps to its type.
THEOREM TypeCorrect == Spec => []TypeOK
<1>1. TypeInv => TypeOK
  BY DEF TypeInv
<1> QED BY <1>1, TypeInvariant, PTL
-----------------------------------------------------------------------------
(***************************************************************************)
(* The machine's dead states.  They are left out because nobody ever sets  *)
(* AGENT_DISABLED, the only reason that leads out of the living states.    *)
(***************************************************************************)

Dead == {"AgentDisabled", "ResendPlugin", "Exit"}

DeadInv ==
  /\ fsm \notin Dead
  /\ \A p \in Procs : tog[p].to \notin Dead
  /\ \A s \in States : reason[s] # "AGENT_DISABLED"


\* The reasons that are ever given, and what a step can do to the machine:
\* nothing, give a reason, choose a transition or carry one out.
GivenReasons == Reasons \ {"AGENT_DISABLED"}

MachineStep ==
  \/ UNCHANGED <<fsm, tog, reason>>
  \/ UNCHANGED <<fsm, tog>> /\ \E s \in States \cup {NoState}, r \in GivenReasons : SetReason(s, r)
  \/ \E p \in Procs : PickTransition(p) \/ MakeTransition(p)

LEMMA MachineSteps == ASSUME TypeInv, [Next]_vars PROVE MachineStep
<1> USE DEF MachineStep, fsmVars, GivenReasons, Reasons, TypeInv, TypeOK, Procs
<1>1. CASE MainStep
  <2>1. CASE MainReadsState \/ MainWaits \/ MainLoops \/ MainChecks
    BY <2>1 DEF MainReadsState, MainWaits, MainLoops, MainChecks
  <2>2. CASE MainDeletes \/ MainCloses \/ MainExits
    BY <2>2 DEF MainDeletes, MainCloses, MainExits
  <2>3. CASE MainSetsAgentAlive
    <3>1. UNCHANGED <<fsm, tog>> /\ SetReason(curr, "AGENT_ALIVE")
      BY <2>3 DEF MainSetsAgentAlive
    <3> QED BY <3>1
  <2>4. CASE MainTestsBroken
    <3>1. UNCHANGED <<fsm, tog>>
          /\ (UNCHANGED reason \/ SetReason("PluginRegistered", "WEBSOCKET_DISCONNECTED"))
      BY <2>4 DEF MainTestsBroken
    <3> QED BY <3>1 DEF States
  <2>5. CASE MainPicks \/ MainMakes
    BY <2>5 DEF MainPicks, MainMakes
  <2>6. ASSUME NEW a \in Addr, MainNews(a) PROVE MachineStep
    BY <2>6 DEF MainNews
  <2>7. ASSUME NEW t \in Updaters, MainStarts(t) PROVE MachineStep
    BY <2>7 DEF MainStarts
  <2> QED BY <1>1, <2>1, <2>2, <2>3, <2>4, <2>5, <2>6, <2>7 DEF MainStep
<1>2. ASSUME NEW a \in Addr, IoEvent(a) PROVE MachineStep
  BY <1>2 DEF IoEvent, IoLosesSession, IoOpens, IoReceivesError, IoReceivesBadCode,
              IoReceivesOffline, IoReceivesOnline
<1>3. ASSUME NEW a \in Addr, IoStep(a) PROVE MachineStep
  <2>1. CASE IoPublishesHandle(a) \/ IoFlagsOpened(a) \/ IoClearsUpdated(a)
             \/ IoRereadsOffline(a) \/ IoSetsLastState(a)
    BY <2>1 DEF IoPublishesHandle, IoFlagsOpened, IoClearsUpdated, IoRereadsOffline,
                IoSetsLastState
  <2>2. CASE IoTestsOnline(a) \/ IoStopsWorking(a) \/ IoReportsException(a)
    BY <2>2 DEF IoTestsOnline, IoStopsWorking, IoReportsException
  <2>3. CASE IoTestsOpen(a)
    <3>1. UNCHANGED <<fsm, tog>>
          /\ (UNCHANGED reason \/ SetReason("AgentAlive", "WEBSOCKET_CONNECTED"))
      BY <2>3 DEF IoTestsOpen
    <3> QED BY <3>1 DEF States
  <2>4. CASE IoTestsError(a)
    <3>1. UNCHANGED <<fsm, tog>>
          /\ (UNCHANGED reason \/ SetReason("PluginRegistered", "DEVICE_OFFLINE"))
      BY <2>4 DEF IoTestsError
    <3> QED BY <3>1 DEF States
  <2>5. CASE IoTestsOffline(a)
    <3>1. UNCHANGED <<fsm, tog>>
          /\ (\/ UNCHANGED reason \/ SetReason("PluginRegistered", "SERVER_OFFLINE")
              \/ SetReason("WebsocketConnected", "SERVER_OFFLINE"))
      BY <2>5 DEF IoTestsOffline
    <3> QED BY <3>1 DEF States
  <2>6. CASE IoPicks(a) \/ IoMakes(a)
    BY <2>6 DEF IoPicks, IoMakes
  <2> QED BY <1>3, <2>1, <2>2, <2>3, <2>4, <2>5, <2>6 DEF IoStep
<1>4. ASSUME NEW a \in Addr, DataThreadEnds(a) PROVE MachineStep
  BY <1>4 DEF DataThreadEnds
<1>5. ASSUME NEW t \in Updaters, UpdStep(t) PROVE MachineStep
  <2>1. CASE UpdPicks(t) \/ UpdMakes(t)
    BY <2>1 DEF UpdPicks, UpdMakes
  <2>2. CASE ~(UpdPicks(t) \/ UpdMakes(t))
    BY <1>5, <2>2 DEF UpdStep, UpdLoops, UpdTestsOpened, UpdTestsState, UpdReadsState,
                      UpdRetestsState, UpdSends, UpdMarksUpdated
  <2> QED BY <2>1, <2>2
<1>6. CASE Interrupt
  BY <1>6 DEF Interrupt
<1>7. CASE UNCHANGED vars
  BY <1>7 DEF vars
<1> QED BY <1>1, <1>2, <1>3, <1>4, <1>5, <1>6, <1>7 DEF Next, Stopped

\* No reason but AGENT_DISABLED leads from a living state to a dead one.
LEMMA ToggledAlive ==
  ASSUME NEW s \in States \ Dead, NEW r \in GivenReasons, NEW last
  PROVE  Toggled(s, r, last) \notin Dead
BY DEF Toggled, States, Dead, GivenReasons, Reasons, InitToggle, AgentAliveToggle,
       WebsocketConnectedToggle, DeviceOfflineToggle, WebsocketDisconnectedToggle,
       PluginRegisteredToggle, ServerOfflineToggle

LEMMA DeadInit == Init => DeadInv
<1>1. NoToggle.to \notin Dead
  BY DEF NoToggle, Dead
<1>2. ASSUME Init, NEW p \in Procs PROVE tog[p].to \notin Dead
  <2>1. tog[p] = NoToggle
    BY <1>2 DEF Init
  <2> QED BY <1>1, <2>1
<1> QED BY <1>2 DEF Init, DeadInv, Dead

LEMMA DeadNext == ASSUME TypeInv, DeadInv, [Next]_vars PROVE DeadInv'
<1> USE DEF DeadInv, TypeInv, TypeOK
<1>1. MachineStep
  BY MachineSteps
<1>2. CASE UNCHANGED <<fsm, tog, reason>>
  BY <1>2
<1>3. ASSUME NEW s \in States \cup {NoState}, NEW r \in GivenReasons,
             UNCHANGED <<fsm, tog>>, SetReason(s, r)
      PROVE  DeadInv'
  BY <1>3 DEF SetReason, GivenReasons
<1>4. ASSUME NEW p \in Procs, PickTransition(p) PROVE DeadInv'
  <2>1. fsm \in States \ Dead /\ reason[fsm] \in GivenReasons
    BY DEF GivenReasons
  <2>2. Toggled(fsm, reason[fsm], lastState) \notin Dead
    BY <2>1, ToggledAlive
  <2>3. \A q \in Procs : tog'[q].to \notin Dead
    BY <1>4, <2>2 DEF PickTransition
  <2> QED BY <1>4, <2>3 DEF PickTransition, fsmVars
<1>5. ASSUME NEW p \in Procs, MakeTransition(p) PROVE DeadInv'
  <2>1. fsm' \notin Dead
    BY <1>5 DEF MakeTransition
  <2>2. \A q \in Procs : tog'[q].to \notin Dead
    BY <1>5 DEF MakeTransition, NoToggle, Dead
  <2>3. \A s \in States : reason'[s] # "AGENT_DISABLED"
    BY <1>5 DEF MakeTransition, SettledReason
  <2> QED BY <2>1, <2>2, <2>3
<1> QED BY <1>1, <1>2, <1>3, <1>4, <1>5 DEF MachineStep

\* AgentDisabled, ResendPlugin and Exit are never entered, whatever threads
\* and stale reasons do to the machine.
THEOREM DeadStatesNeverReached == Spec => []DeadStatesUnreachable
<1>1. Init => DeadInv
  BY DeadInit
<1>2. TypeInv /\ DeadInv /\ [Next]_vars => DeadInv'
  BY DeadNext
<1>3. DeadInv => DeadStatesUnreachable
  BY DEF DeadInv, Dead, DeadStatesUnreachable
<1> QED BY <1>1, <1>2, <1>3, TypeInvariant, PTL DEF Spec

-----------------------------------------------------------------------------
(***************************************************************************)
(* Main and the callbacks.  Only one client is allocated at a time and an  *)
(* io thread serves no other; that main finds its io thread past the last  *)
(* callback when it starts over is because m_threadstart and m_exception   *)
(* are written by that thread after its callbacks and by nobody else.      *)
(***************************************************************************)

HasClient == mpc \in {"start", "wait", "loop", "check", "broken", "brokenPick",
                      "brokenMake", "delete", "shutdown", "final", "aborted"}

SessionInv ==
  /\ HasClient <=> obj # NoClient
  /\ alive = {obj} \ {NoClient}
  /\ \A a \in Addr : IoBusy(a) =>
       \/ mpc = "exited"
       \/ a = obj /\ mpc \in {"wait", "loop", "check", "shutdown", "final", "aborted"}
  /\ \A a \in Addr : IoBusy(a) /\ a = obj /\ mpc \in {"loop", "check"} => working[a]
  /\ \A a \in Addr : IoBusy(a) /\ a = obj /\ mpc = "wait" => exc[a] # "invalid state"
  /\ mpc = "start" => \A a \in Addr : iopc[a] = "none" /\ (a = obj => exc[a] = "")

\* Nothing moves once the process is gone.
LEMMA StepsWhileRunning ==
  /\ MainStep => ~Terminated
  /\ \A a \in Addr : IoEvent(a) \/ IoStep(a) => ~Terminated
<1>1. ASSUME MainStep PROVE ~Terminated
  <2> USE DEF Terminated, MainGoto
  <2>1. CASE MainReadsState \/ MainSetsAgentAlive \/ MainPicks \/ MainMakes
    BY <2>1 DEF MainReadsState, MainSetsAgentAlive, MainPicks, MainMakes
  <2>2. CASE \E a \in Addr : MainNews(a)
    BY <2>2 DEF MainNews
  <2>3. CASE \E t \in Updaters : MainStarts(t)
    BY <2>3 DEF MainStarts
  <2>4. CASE MainWaits \/ MainLoops \/ MainChecks \/ MainTestsBroken
    BY <2>4 DEF MainWaits, MainLoops, MainChecks, MainTestsBroken
  <2>5. CASE MainDeletes \/ MainCloses \/ MainExits
    BY <2>5 DEF MainDeletes, MainCloses, MainExits
  <2> QED BY <1>1, <2>1, <2>2, <2>3, <2>4, <2>5 DEF MainStep
<1>2. ASSUME NEW a \in Addr, IoEvent(a) PROVE ~Terminated
  BY <1>2 DEF IoGoto, IoEvent, IoLosesSession, IoOpens, IoReceivesError,
              IoReceivesBadCode, IoReceivesOffline, IoReceivesOnline
<1>3. ASSUME NEW a \in Addr, IoStep(a) PROVE ~Terminated
  <2> USE DEF IoGoto
  <2>1. CASE IoTestsOpen(a) \/ IoPublishesHandle(a) \/ IoFlagsOpened(a)
    BY <2>1 DEF IoTestsOpen, IoPublishesHandle, IoFlagsOpened
  <2>2. CASE IoTestsError(a) \/ IoClearsUpdated(a) \/ IoTestsOffline(a)
    BY <2>2 DEF IoTestsError, IoClearsUpdated, IoTestsOffline
  <2>3. CASE IoRereadsOffline(a) \/ IoSetsLastState(a) \/ IoTestsOnline(a)
    BY <2>3 DEF IoRereadsOffline, IoSetsLastState, IoTestsOnline
  <2>4. CASE IoPicks(a) \/ IoMakes(a) \/ IoStopsWorking(a) \/ IoReportsException(a)
    BY <2>4 DEF IoPicks, IoMakes, IoStopsWorking, IoReportsException
  <2> QED BY <1>3, <2>1, <2>2, <2>3, <2>4 DEF IoStep
<1> QED BY <1>1, <1>2, <1>3

LEMMA SessionInit == Init => SessionInv
<1> SUFFICES ASSUME Init PROVE SessionInv
  OBVIOUS
<1>1. mpc = "connect" /\ obj = NoClient /\ alive = {}
  BY DEF Init
<1>2. \A a \in Addr : ~IoBusy(a)
  BY DEF Init, IoBusy
<1> QED BY <1>1, <1>2 DEF SessionInv, HasClient

\* A step that leaves main, the clients' life and the io threads alone.
LEMMA SessionFrame ==
  ASSUME SessionInv, UNCHANGED <<mpc, obj, alive, working, exc, iopc>> PROVE SessionInv'
BY DEF SessionInv, HasClient, IoBusy

LEMMA SessionMain == ASSUME TypeInv, SessionInv, MainStep PROVE SessionInv'
<1> USE DEF TypeInv, TypeOK, SessionInv, HasClient, IoBusy, MainGoto, MainPcs, clientVars,
            ioVars, mainVars
<1>1. CASE MainReadsState
  BY <1>1 DEF MainReadsState
<1>2. CASE MainSetsAgentAlive
  BY <1>2 DEF MainSetsAgentAlive
<1>3. CASE MainPicks
  BY <1>3 DEF MainPicks
<1>4. CASE MainMakes
  BY <1>4 DEF MainMakes
<1>5. ASSUME NEW a \in Addr, MainNews(a) PROVE SessionInv'
  <2> HIDE DEF TypeInv, TypeOK, SessionInv, MainPcs, clientVars, ioVars, mainVars, MainGoto,
               HasClient, IoBusy
  <2>1. mpc = "new" /\ mpc' = "start" /\ obj' = a /\ alive' = alive \cup {a}
    BY <1>5 DEF MainNews, MainGoto
  <2>2. exc' = [exc EXCEPT ![a] = ""] /\ UNCHANGED iopc /\ \A b \in Addr : iopc[b] = "none"
    BY <1>5 DEF MainNews, AllAsleep, ioVars
  <2>3. obj = NoClient /\ alive = {obj} \ {NoClient}
    BY <2>1 DEF SessionInv, HasClient
  <2>4. a # NoClient
    BY ProcessesDistinct
  <2>5. alive' = {a} \ {NoClient}
    BY <2>1, <2>3, <2>4
  <2>6. exc'[a] = ""
    BY <2>2 DEF TypeInv, TypeOK
  <2>7. \A b \in Addr : ~IoBusy(b)' /\ iopc'[b] = "none"
    BY <2>2 DEF IoBusy
  <2> QED BY <2>1, <2>4, <2>5, <2>6, <2>7 DEF SessionInv, HasClient
<1>6. ASSUME NEW t \in Updaters, MainStarts(t) PROVE SessionInv'
  <2> HIDE DEF TypeInv, TypeOK, SessionInv, MainPcs, clientVars, ioVars, mainVars, MainGoto,
               HasClient, IoBusy
  <2>1. mpc = "start" /\ mpc' = "wait" /\ UNCHANGED <<obj, alive, exc>>
    BY <1>6 DEF MainStarts, MainGoto
  <2>2. /\ obj # NoClient /\ obj \in Addr
        /\ alive = {obj} \ {NoClient}
        /\ \A a \in Addr : iopc[a] = "none" /\ (a = obj => exc[a] = "")
        /\ iopc \in [Addr -> IoPcs]
    BY <2>1 DEF SessionInv, HasClient, TypeInv, TypeOK
  <2>3. iopc' = iopc \/ iopc' = [iopc EXCEPT ![obj] = "run"]
    BY <1>6 DEF MainStarts, StartIo
  <2>4. \A a \in Addr : a # obj => iopc'[a] = "none"
    BY <2>2, <2>3
  <2>5. \A a \in Addr : IoBusy(a)' => a = obj /\ exc[a] = ""
    BY <2>2, <2>4 DEF IoBusy
  <2> QED BY <2>1, <2>2, <2>5 DEF SessionInv, HasClient
<1>7. CASE MainWaits
  BY <1>7 DEF MainWaits
<1>8. CASE MainLoops
  BY <1>8 DEF MainLoops
<1>9. CASE MainChecks
  BY <1>9 DEF MainChecks
<1>10. CASE MainTestsBroken
  BY <1>10 DEF MainTestsBroken
<1>11. CASE MainDeletes
  BY <1>11 DEF MainDeletes, FreeClient
<1>12. CASE MainCloses
  BY <1>12 DEF MainCloses
<1>13. CASE MainExits
  BY <1>13 DEF MainExits, FreeClient
<1> QED
  BY <1>1, <1>2, <1>3, <1>4, <1>5, <1>6, <1>7, <1>8, <1>9, <1>10, <1>11, <1>12, <1>13
  DEF MainStep

\* An io thread with a callback under way goes on to another one, to "run" or
\* to the catch block; a thread that has ended does nothing.
LEMMA IoStaysBusy ==
  ASSUME TypeInv, NEW a \in Addr, IoEvent(a) \/ IoStep(a),
         ~IoStopsWorking(a), ~IoReportsException(a)
  PROVE  /\ IoBusy(a) /\ IoBusy(a)'
         /\ \A b \in Addr : b # a => iopc'[b] = iopc[b]
         /\ UNCHANGED <<mpc, obj, alive, working, exc>>
<1> USE DEF TypeInv, TypeOK, IoBusy, IoGoto, clientVars, mainVars
<1>1. CASE IoEvent(a)
  BY <1>1 DEF IoEvent, IoLosesSession, IoOpens, IoReceivesError, IoReceivesBadCode,
              IoReceivesOffline, IoReceivesOnline
<1>2. CASE IoTestsOpen(a) \/ IoPublishesHandle(a) \/ IoFlagsOpened(a)
  BY <1>2 DEF IoTestsOpen, IoPublishesHandle, IoFlagsOpened
<1>3. CASE IoTestsError(a) \/ IoClearsUpdated(a)
  BY <1>3 DEF IoTestsError, IoClearsUpdated
<1>4. CASE IoTestsOffline(a) \/ IoRereadsOffline(a) \/ IoSetsLastState(a)
  BY <1>4 DEF IoTestsOffline, IoRereadsOffline, IoSetsLastState
<1>5. CASE IoTestsOnline(a) \/ IoPicks(a) \/ IoMakes(a)
  BY <1>5 DEF IoTestsOnline, IoPicks, IoMakes
<1> QED BY <1>1, <1>2, <1>3, <1>4, <1>5 DEF IoStep

LEMMA SessionIo ==
  ASSUME TypeInv, SessionInv, ~Terminated, NEW a \in Addr, IoEvent(a) \/ IoStep(a)
  PROVE  SessionInv'
<1> USE DEF TypeInv, TypeOK, SessionInv, HasClient, IoBusy, Terminated
<1>1. CASE IoStopsWorking(a)
  BY <1>1 DEF IoStopsWorking, IoGoto, mainVars
<1>2. CASE IoReportsException(a)
  BY <1>2 DEF IoReportsException, IoGoto, mainVars
<1>3. CASE ~IoStopsWorking(a) /\ ~IoReportsException(a)
  <2>1. /\ IoBusy(a)
        /\ \A b \in Addr : b # a => iopc'[b] = iopc[b]
        /\ UNCHANGED <<mpc, obj, alive, working, exc>>
    BY <1>3, IoStaysBusy
  <2>2. a = obj /\ mpc # "start"
    BY <2>1
  <2> QED BY <2>1, <2>2
<1> QED BY <1>1, <1>2, <1>3

LEMMA SessionNext == ASSUME TypeInv, SessionInv, [Next]_vars PROVE SessionInv'
<1>1. CASE ~Terminated /\ MainStep
  BY <1>1, SessionMain
<1>2. ASSUME NEW a \in Addr, ~Terminated, IoEvent(a) \/ IoStep(a) PROVE SessionInv'
  BY <1>2, SessionIo
<1>3. ASSUME NEW a \in Addr, DataThreadEnds(a) PROVE SessionInv'
  BY <1>3, SessionFrame DEF DataThreadEnds, mainVars, ioVars
<1>4. ASSUME NEW t \in Updaters, UpdStep(t) PROVE SessionInv'
  <2>1. UNCHANGED <<mpc, obj, alive, working, exc, iopc>>
    BY <1>4 DEF UpdStep, UpdLoops, UpdTestsOpened, UpdTestsState, UpdReadsState,
                UpdRetestsState, UpdSends, UpdMarksUpdated, UpdPicks, UpdMakes,
                mainVars, clientVars, ioVars
  <2> QED BY <2>1, SessionFrame
<1>5. CASE Interrupt
  BY <1>5, SessionFrame DEF Interrupt, mainVars, clientVars, ioVars
<1>6. CASE UNCHANGED vars
  BY <1>6, SessionFrame DEF vars, mainVars, clientVars, ioVars
<1> QED
  BY <1>1, <1>2, <1>3, <1>4, <1>5, <1>6, StepsWhileRunning DEF Next, Stopped

THEOREM SessionInvariant == Spec => []SessionInv
<1>1. Init => SessionInv
  BY SessionInit
<1>2. TypeInv /\ SessionInv /\ [Next]_vars => SessionInv'
  BY SessionNext
<1> QED BY <1>1, <1>2, TypeInvariant, PTL DEF Spec

\* Main never works on the connection state machine while an io thread may be
\* in a callback that does, although no lock keeps them apart.
THEOREM MainExcludesCallbacks == Spec => []MainAndCallbacksExclusive
<1>1. SessionInv => MainAndCallbacksExclusive
  BY DEF SessionInv, MainAndCallbacksExclusive, MainInToggle
<1> QED BY <1>1, SessionInvariant, PTL

\* A callback runs only on the client main holds, which has not been deleted.
THEOREM CallbacksFindTheirClient == Spec => []CallbacksOnLiveClient
<1>1. SessionInv => CallbacksOnLiveClient
  BY ProcessesDistinct DEF SessionInv, CallbacksOnLiveClient, Terminated
<1> QED BY <1>1, SessionInvariant, PTL

-----------------------------------------------------------------------------
(***************************************************************************)
(* Leftover registration threads.  Nothing stops one from adopting a new   *)
(* client at the old address; what it reads and writes there is sound all  *)
(* the same, because every flag it goes by is reset with the client.       *)
(***************************************************************************)

LeftoverInv ==
  /\ \A a \in Addr : updated[a] => heard[a]
  /\ \A a \in Addr : opened[a] \/ iopc[a] = "flag" => phd[a]
  /\ \A t \in Updaters : upc[t] = "mark" => uptr[t] \in Addr /\ heard[uptr[t]]
  /\ \A t \in Updaters :
       upc[t] \in {"test", "enter", "retest", "send"} /\ uptr[t] \in alive => phd[uptr[t]]
LEMMA LeftoverInit == Init => LeftoverInv
BY DEF Init, LeftoverInv

\* What a step must leave alone to keep the invariant without further ado.
LEMMA LeftoverFrame ==
  ASSUME LeftoverInv, UNCHANGED <<alive, opened, phd, updated, heard, iopc, upc, uptr>>
  PROVE  LeftoverInv'
BY DEF LeftoverInv

LEMMA LeftoverMain ==
  ASSUME TypeInv, SessionInv, LeftoverInv, MainStep PROVE LeftoverInv'
<1> USE DEF TypeInv, TypeOK, fsmVars, clientVars, wireVars, ioVars, updVars
<1>1. CASE MainReadsState \/ MainSetsAgentAlive \/ MainPicks \/ MainMakes
  BY <1>1, LeftoverFrame DEF MainReadsState, MainSetsAgentAlive, MainPicks, MainMakes
<1>2. CASE MainWaits \/ MainLoops \/ MainChecks \/ MainTestsBroken \/ MainCloses
  BY <1>2, LeftoverFrame DEF MainWaits, MainLoops, MainChecks, MainTestsBroken, MainCloses
<1>3. ASSUME NEW a \in Addr, MainNews(a) PROVE LeftoverInv'
  <2>1. /\ \A b \in Addr : iopc[b] = "none"
        /\ \A t \in Updaters : upc[t] \in {"none", "loop", "deviceSleep"}
    BY <1>3 DEF MainNews, AllAsleep
  <2>2. /\ updated' = [updated EXCEPT ![a] = FALSE] /\ heard' = [heard EXCEPT ![a] = FALSE]
        /\ opened' = [opened EXCEPT ![a] = FALSE] /\ phd' = [phd EXCEPT ![a] = FALSE]
        /\ UNCHANGED <<iopc, upc, uptr>>
    BY <1>3 DEF MainNews
  <2> HIDE DEF TypeInv, TypeOK, fsmVars, clientVars, wireVars, ioVars, updVars
  <2>3. updated \in [Addr -> BOOLEAN] /\ opened \in [Addr -> BOOLEAN]
        /\ heard \in [Addr -> BOOLEAN] /\ phd \in [Addr -> BOOLEAN]
    BY DEF TypeInv, TypeOK
  <2>4. \A b \in Addr : updated'[b] => heard'[b]
    BY <2>2, <2>3 DEF LeftoverInv
  <2>5. \A b \in Addr : opened'[b] \/ iopc'[b] = "flag" => phd'[b]
    BY <2>1, <2>2, <2>3 DEF LeftoverInv
  <2> QED BY <2>1, <2>2, <2>4, <2>5 DEF LeftoverInv
<1>4. ASSUME NEW t \in Updaters, MainStarts(t) PROVE LeftoverInv'
  <2>1. UNCHANGED <<alive, opened, phd, updated, heard>>
    BY <1>4 DEF MainStarts
  <2>2. \A b \in Addr : iopc'[b] \in {iopc[b], "run"}
    BY <1>4 DEF MainStarts, StartIo
  <2>3. \A u \in Updaters : \/ upc'[u] = upc[u] /\ uptr'[u] = uptr[u]
                           \/ upc'[u] = "loop"
    BY <1>4 DEF MainStarts
  <2> QED BY <2>1, <2>2, <2>3 DEF LeftoverInv
<1>5. CASE MainDeletes \/ MainExits
  <2>1. /\ alive' = alive \ {obj}
        /\ UNCHANGED <<opened, phd, updated, heard, iopc, upc, uptr>>
    BY <1>5 DEF MainDeletes, MainExits, FreeClient
  <2> QED BY <2>1 DEF LeftoverInv
<1> QED BY <1>1, <1>2, <1>3, <1>4, <1>5 DEF MainStep

LEMMA LeftoverIo ==
  ASSUME TypeInv, LeftoverInv, NEW a \in Addr, IoEvent(a) \/ IoStep(a)
  PROVE  LeftoverInv'
<1> USE DEF TypeInv, TypeOK, IoGoto, clientVars, wireVars, ioVars, updVars
<1>1. CASE IoPublishesHandle(a)
  BY <1>1 DEF IoPublishesHandle, LeftoverInv
<1>2. CASE IoFlagsOpened(a)
  BY <1>2 DEF IoFlagsOpened, LeftoverInv
<1>3. CASE IoClearsUpdated(a) \/ IoReportsException(a)
  <2>1. /\ \A b \in Addr : updated'[b] => updated[b]
        /\ \A b \in Addr : iopc'[b] = "flag" => iopc[b] = "flag"
        /\ UNCHANGED <<alive, opened, phd, heard, upc, uptr>>
    <3>1. UNCHANGED <<alive, opened, phd, heard, upc, uptr>>
      BY <1>3 DEF IoClearsUpdated, IoReportsException
    <3>2. updated' = [updated EXCEPT ![a] = FALSE] /\ iopc'[a] # "flag"
      BY <1>3 DEF IoClearsUpdated, IoReportsException
    <3> HIDE DEF IoGoto, clientVars, wireVars, ioVars, updVars
    <3>3. \A b \in Addr : updated'[b] => updated[b]
      BY <3>2
    <3>4. \A b \in Addr : b # a => iopc'[b] = iopc[b]
      BY IoMoves
    <3> QED BY <3>1, <3>2, <3>3, <3>4
  <2> QED BY <2>1 DEF LeftoverInv
<1>4. CASE ~(IoPublishesHandle(a) \/ IoFlagsOpened(a) \/ IoClearsUpdated(a) \/ IoReportsException(a))
  <2> HIDE DEF TypeInv, TypeOK, fsmVars, wireVars, ioVars, updVars
  <2>0. iopc \in [Addr -> IoPcs]
    BY DEF TypeInv, TypeOK
  <2>1. iopc'[a] # "flag" /\ UNCHANGED <<opened, phd, updated>>
    <3>1. CASE IoEvent(a)
      BY <2>0, <3>1 DEF IoEvent, IoLosesSession, IoOpens, IoReceivesError, IoReceivesBadCode,
                        IoReceivesOffline, IoReceivesOnline
    <3>2. CASE IoTestsOpen(a) \/ IoTestsError(a)
      BY <2>0, <3>2 DEF IoTestsOpen, IoTestsError
    <3>3. CASE IoTestsOffline(a)
      BY <2>0, <3>3 DEF IoTestsOffline
    <3>4. CASE IoRereadsOffline(a) \/ IoSetsLastState(a) \/ IoTestsOnline(a)
      BY <2>0, <3>4 DEF IoRereadsOffline, IoSetsLastState, IoTestsOnline
    <3>5. CASE IoPicks(a) \/ IoMakes(a) \/ IoStopsWorking(a)
      BY <2>0, <3>5 DEF IoPicks, IoMakes, IoStopsWorking
    <3> HIDE DEF IoGoto, clientVars
    <3> QED BY <1>4, <3>1, <3>2, <3>3, <3>4, <3>5 DEF IoStep
  <2>2. \A b \in Addr : iopc'[b] = "flag" => iopc[b] = "flag"
    BY <2>0, <2>1, IoMoves
  <2>3. UNCHANGED <<alive, heard, upc, uptr>>
    BY IoClient
  <2> QED BY <2>1, <2>2, <2>3 DEF LeftoverInv
<1> QED BY <1>1, <1>2, <1>3, <1>4

\* A step of registration thread t is its own, and none of the flags a thread
\* goes by is lowered by it.
LEMMA UpdFrame ==
  ASSUME TypeInv, NEW t \in Updaters, UpdStep(t)
  PROVE  /\ \A u \in Updaters : u # t => upc'[u] = upc[u] /\ uptr'[u] = uptr[u]
         /\ UNCHANGED <<alive, opened, phd, iopc>>
<1> USE DEF TypeInv, TypeOK, UpdGoto, clientVars, ioVars
<1>1. CASE UpdLoops(t) \/ UpdTestsOpened(t) \/ UpdTestsState(t) \/ UpdReadsState(t)
  BY <1>1 DEF UpdLoops, UpdTestsOpened, UpdTestsState, UpdReadsState
<1>2. CASE UpdRetestsState(t) \/ UpdSends(t) \/ UpdMarksUpdated(t)
  BY <1>2 DEF UpdRetestsState, UpdSends, UpdMarksUpdated
<1>3. CASE UpdPicks(t) \/ UpdMakes(t)
  BY <1>3 DEF UpdPicks, UpdMakes
<1> QED BY <1>1, <1>2, <1>3 DEF UpdStep

LEMMA LeftoverUpd ==
  ASSUME TypeInv, LeftoverInv, NEW t \in Updaters, UpdStep(t) PROVE LeftoverInv'
<1> USE DEF TypeInv, TypeOK, UpdGoto, clientVars, wireVars
<1>0. /\ \A u \in Updaters : u # t => upc'[u] = upc[u] /\ uptr'[u] = uptr[u]
      /\ UNCHANGED <<alive, opened, phd, iopc>>
  BY UpdFrame
<1>1. CASE UpdLoops(t)
  <2>1. upc'[t] \in {"opened", "none"} /\ UNCHANGED <<updated, heard>>
    BY <1>1 DEF UpdLoops
  <2> QED BY <1>0, <2>1 DEF LeftoverInv
<1>2. CASE UpdTestsOpened(t)
  <2>1. /\ uptr'[t] = uptr[t] /\ UNCHANGED <<updated, heard>>
        /\ upc'[t] = "loop" \/ (upc'[t] = "test" /\ opened[uptr[t]])
    BY <1>2 DEF UpdTestsOpened
  <2> QED BY <1>0, <2>1 DEF LeftoverInv
<1>3. CASE UpdTestsState(t)
  <2>1. /\ uptr'[t] = uptr[t] /\ UNCHANGED <<updated, heard>>
        /\ upc[t] = "test" \/ upc'[t] \in {"deviceSleep", "loop"}
        /\ upc'[t] # "mark"
    BY <1>3 DEF UpdTestsState
  <2> QED BY <1>0, <2>1 DEF LeftoverInv
<1>4. CASE UpdReadsState(t) \/ UpdRetestsState(t)
  <2>1. /\ uptr'[t] = uptr[t] /\ UNCHANGED <<updated, heard>>
        /\ upc[t] \in {"enter", "retest"} /\ upc'[t] \in {"retest", "send", "loop"}
    BY <1>4 DEF UpdReadsState, UpdRetestsState
  <2> QED BY <1>0, <2>1 DEF LeftoverInv
<1>5. CASE UpdSends(t)
  <2>1. /\ uptr'[t] = uptr[t] /\ UNCHANGED updated
        /\ upc'[t] \in {"mark", "updatePick"}
        /\ upc'[t] = "mark" => uptr[t] \in Addr /\ heard'[uptr[t]]
    BY <1>5 DEF UpdSends
  <2>2. \A b \in Addr : heard[b] => heard'[b]
    BY <1>5 DEF UpdSends
  <2> QED BY <1>0, <2>1, <2>2 DEF LeftoverInv
<1>6. CASE UpdMarksUpdated(t)
  <2>1. upc[t] = "mark" /\ upc'[t] = "updatePick" /\ UNCHANGED heard
    BY <1>6 DEF UpdMarksUpdated
  <2>2. uptr[t] \in Addr /\ heard[uptr[t]]
    BY <2>1 DEF LeftoverInv
  <2>3. \A b \in Addr : b # uptr[t] => updated'[b] = updated[b]
    BY <1>6, <2>2 DEF UpdMarksUpdated
  <2>4. \A b \in Addr : updated'[b] => heard'[b]
    BY <2>1, <2>2, <2>3 DEF LeftoverInv
  <2> QED BY <1>0, <2>1, <2>4 DEF LeftoverInv
<1>7. CASE UpdPicks(t) \/ UpdMakes(t)
  <2>1. upc'[t] \in {"updateMake", "loop"} /\ UNCHANGED <<updated, heard>>
    BY <1>7 DEF UpdPicks, UpdMakes
  <2> QED BY <1>0, <2>1 DEF LeftoverInv
<1> QED BY <1>1, <1>2, <1>3, <1>4, <1>5, <1>6, <1>7 DEF UpdStep

LEMMA LeftoverNext ==
  ASSUME TypeInv, SessionInv, LeftoverInv, [Next]_vars PROVE LeftoverInv'
<1>1. CASE MainStep
  BY <1>1, LeftoverMain
<1>2. ASSUME NEW a \in Addr, IoEvent(a) \/ IoStep(a) PROVE LeftoverInv'
  BY <1>2, LeftoverIo
<1>3. ASSUME NEW a \in Addr, DataThreadEnds(a) PROVE LeftoverInv'
  BY <1>3, LeftoverFrame DEF DataThreadEnds, wireVars, ioVars, updVars
<1>4. ASSUME NEW t \in Updaters, UpdStep(t) PROVE LeftoverInv'
  BY <1>4, LeftoverUpd
<1>5. CASE Interrupt
  BY <1>5, LeftoverFrame DEF Interrupt, clientVars, wireVars, ioVars, updVars
<1>6. CASE UNCHANGED vars
  BY <1>6, LeftoverFrame DEF vars, clientVars, wireVars, ioVars, updVars
<1> QED BY <1>1, <1>2, <1>3, <1>4, <1>5, <1>6 DEF Next, Stopped

THEOREM LeftoverInvariant == Spec => []LeftoverInv
<1>1. Init => LeftoverInv
  BY LeftoverInit
<1>2. TypeInv /\ SessionInv /\ LeftoverInv /\ [Next]_vars => LeftoverInv'
  BY LeftoverNext
<1> QED BY <1>1, <1>2, TypeInvariant, SessionInvariant, PTL DEF Spec

\* A thread about to send over a live client finds the handle published.
THEOREM HandleFound == Spec => []HandlePublishedBeforeSend
<1>1. LeftoverInv => HandlePublishedBeforeSend
  BY DEF LeftoverInv, HandlePublishedBeforeSend
<1> QED BY <1>1, LeftoverInvariant, PTL

\* A client counts as updated only if an update went into its own session.
THEOREM UpdatedOnlyIfHeard == Spec => []UpdatedMeansHeard
<1>1. LeftoverInv => UpdatedMeansHeard
  BY DEF LeftoverInv, UpdatedMeansHeard
<1> QED BY <1>1, LeftoverInvariant, PTL
-----------------------------------------------------------------------------
(***************************************************************************)
(* The main loop implements the session supervisor: every step is one of   *)
(* its steps or leaves client, sessions and end of the process alone.      *)
(***************************************************************************)

SupervisorStep == [Supervisor!Next]_(Supervisor!vars)

LEMMA SupervisorInit == Init => Supervisor!Init
<1> SUFFICES ASSUME Init PROVE Supervisor!Init
  OBVIOUS
<1>1. obj = NoClient /\ ~Terminated
  BY DEF Init, Terminated
<1>2. \A a \in Addr : iopc[a] = "none"
  BY DEF Init
<1>3. Served = {}
  BY <1>2 DEF Served, IoBusy
<1> QED BY <1>1, <1>3 DEF Supervisor!Init

\* Only the client main holds can have a session.
LEMMA ServedIsCurrent ==
  ASSUME TypeInv, SessionInv, ~Terminated
  PROVE  /\ Served \subseteq {obj}
         /\ obj = NoClient => Served = {}
         /\ Served # {} => mpc \in {"wait", "loop", "check", "shutdown", "final"}
<1>1. \A a \in Addr : IoBusy(a) =>
        a = obj /\ mpc \in {"wait", "loop", "check", "shutdown", "final"}
  BY DEF SessionInv, Terminated
<1> QED BY <1>1, ProcessesDistinct DEF Served

\* Where main, its client and the threads' and sessions' states stay, the
\* supervisor stutters.
LEMMA SupervisorStutter ==
  ASSUME UNCHANGED <<obj, iopc, sock>>, Terminated' = Terminated
  PROVE  SupervisorStep
BY DEF SupervisorStep, Supervisor!vars, Served, IoBusy

LEMMA SupervisorMain ==
  ASSUME TypeInv, SessionInv, ~Terminated, MainStep PROVE SupervisorStep
<1> USE DEF MainGoto, Terminated, ioVars, wireVars, clientVars, updVars
<1>1. CASE MainReadsState \/ MainSetsAgentAlive \/ MainPicks \/ MainMakes
  BY <1>1, SupervisorStutter
  DEF MainReadsState, MainSetsAgentAlive, MainPicks, MainMakes
<1>2. CASE MainWaits \/ MainLoops \/ MainChecks \/ MainTestsBroken
  <2>1. UNCHANGED <<obj, iopc, sock>>
    BY <1>2 DEF MainWaits, MainLoops, MainChecks, MainTestsBroken
  <2>2. mpc' \notin {"exited", "aborted"}
    BY <1>2 DEF MainWaits, MainLoops, MainChecks, MainTestsBroken
  <2> QED BY <2>1, <2>2, SupervisorStutter
<1>3. ASSUME NEW a \in Addr, MainNews(a) PROVE SupervisorStep
  <2>1. obj = NoClient /\ obj' = a /\ ~Terminated'
    BY <1>3 DEF MainNews, SessionInv, HasClient
  <2>2. (\A b \in Addr : iopc[b] = "none") /\ UNCHANGED iopc
    BY <1>3 DEF MainNews, AllAsleep
  <2>3. Served = {} /\ Served' = {}
    BY <2>2 DEF Served, IoBusy
  <2>4. Supervisor!Adopt(a)
    BY <2>1, <2>3 DEF Supervisor!Adopt
  <2> QED BY <2>4 DEF SupervisorStep, Supervisor!Next
<1>4. ASSUME NEW t \in Updaters, MainStarts(t) PROVE SupervisorStep
  <2>1. mpc = "start" /\ UNCHANGED obj /\ ~Terminated'
    BY <1>4 DEF MainStarts
  <2>2. obj \in Addr /\ obj # NoClient /\ \A a \in Addr : iopc[a] = "none"
    BY <2>1 DEF SessionInv, HasClient, TypeInv, TypeOK
  <2>3. CASE UNCHANGED <<iopc, sock>>
    BY <2>1, <2>3, SupervisorStutter
  <2>4. CASE StartIo(obj)
    <3>1. Served = {}
      BY <2>2 DEF Served, IoBusy
    <3>2. Served' = {obj}
      BY <2>2, <2>4 DEF StartIo, Served, IoBusy, TypeInv, TypeOK
    <3>3. Supervisor!Connect
      BY <2>1, <2>2, <3>1, <3>2 DEF Supervisor!Connect
    <3> QED BY <3>3 DEF SupervisorStep, Supervisor!Next
  <2> QED BY <1>4, <2>3, <2>4 DEF MainStarts
<1>5. CASE MainDeletes
  <2>1. mpc = "delete" /\ obj' = NoClient /\ ~Terminated' /\ UNCHANGED iopc
    BY <1>5 DEF MainDeletes, FreeClient
  <2>2. obj # NoClient /\ \A a \in Addr : ~IoBusy(a)
    BY <2>1 DEF SessionInv, HasClient
  <2>3. Served = {} /\ Served' = {}
    BY <2>1, <2>2 DEF Served, IoBusy
  <2>4. Supervisor!Discard
    BY <2>1, <2>2, <2>3 DEF Supervisor!Discard
  <2> QED BY <2>4 DEF SupervisorStep, Supervisor!Next
<1>6. CASE MainCloses
  <2>1. UNCHANGED <<obj, iopc>>
    BY <1>6 DEF MainCloses, mainVars
  <2>2. Served' = Served
    BY <1>6, <2>1 DEF MainCloses, Served, IoBusy, TypeInv, TypeOK
  <2>3. CASE ~Terminated'
    BY <2>1, <2>2, <2>3 DEF SupervisorStep, Supervisor!vars
  <2>4. CASE Terminated'
    <3>1. Supervisor!Stop
      BY <2>1, <2>2, <2>4 DEF Supervisor!Stop
    <3> QED BY <3>1 DEF SupervisorStep, Supervisor!Next
  <2> QED BY <2>3, <2>4
<1>7. CASE MainExits
  <2>1. mpc' = "exited" /\ obj' = NoClient /\ sock' = [sock EXCEPT ![obj] = "closed"]
        /\ UNCHANGED iopc
    BY <1>7 DEF MainExits, FreeClient
  <2>2. Served' = {}
    <3>1. \A a \in Addr : IoBusy(a) => a = obj
      BY DEF SessionInv
    <3> QED BY <2>1, <3>1 DEF Served, IoBusy, TypeInv, TypeOK
  <2>3. Supervisor!Stop
    BY <2>1, <2>2 DEF Supervisor!Stop
  <2> QED BY <2>3 DEF SupervisorStep, Supervisor!Next
<1> QED BY <1>1, <1>2, <1>3, <1>4, <1>5, <1>6, <1>7 DEF MainStep

LEMMA SupervisorIo ==
  ASSUME TypeInv, SessionInv, ~Terminated, NEW a \in Addr, IoEvent(a) \/ IoStep(a)
  PROVE  SupervisorStep
<1> USE DEF IoGoto, Terminated, wireVars, TypeInv, TypeOK
<1>0. UNCHANGED <<mpc, obj>>
  BY DEF IoEvent, IoLosesSession, IoOpens, IoReceivesError, IoReceivesBadCode,
         IoReceivesOffline, IoReceivesOnline, IoStep, IoTestsOpen, IoPublishesHandle,
         IoFlagsOpened, IoTestsError, IoClearsUpdated, IoTestsOffline, IoRereadsOffline,
         IoSetsLastState, IoTestsOnline, IoPicks, IoMakes, IoStopsWorking,
         IoReportsException, mainVars
<1>a. ASSUME Served' = Served PROVE SupervisorStep
  BY <1>0, <1>a DEF SupervisorStep, Supervisor!vars
<1>b. ASSUME IoBusy(a), Served' = Served \ {a} PROVE SupervisorStep
  <2>1. CASE a \notin Served
    BY <1>a, <1>b, <2>1
  <2>2. CASE a \in Served
    <3>1. Served = {obj} /\ a = obj /\ obj # NoClient
      <4>1. Served \subseteq {obj}
        BY ServedIsCurrent
      <4>2. a # NoClient
        BY ProcessesDistinct
      <4> QED BY <2>2, <4>1, <4>2
    <3>2. Served' = {}
      BY <1>b, <3>1
    <3>3. Supervisor!Lose
      BY <1>0, <3>1, <3>2 DEF Supervisor!Lose
    <3> QED BY <3>3 DEF SupervisorStep, Supervisor!Next
  <2> QED BY <2>1, <2>2
<1>1. CASE IoLosesSession(a)
  <2>1. IoBusy(a) /\ Served' = Served \ {a}
    BY <1>1 DEF IoLosesSession, Served, IoBusy
  <2> QED BY <1>b, <2>1
<1>2. CASE IoStopsWorking(a)
  <2>1. IoBusy(a) /\ Served' = Served \ {a}
    BY <1>2 DEF IoStopsWorking, Served, IoBusy
  <2> QED BY <1>b, <2>1
<1>3. CASE IoReportsException(a)
  <2>1. Served' = Served
    BY <1>3 DEF IoReportsException, Served, IoBusy
  <2> QED BY <1>a, <2>1
<1>4. CASE IoOpens(a)
  <2>1. Served' = Served
    BY <1>4 DEF IoOpens, Served, IoBusy
  <2> QED BY <1>a, <2>1
<1>5. CASE ~(IoLosesSession(a) \/ IoStopsWorking(a) \/ IoReportsException(a) \/ IoOpens(a))
  <2>1. UNCHANGED sock
    BY <1>5 DEF IoEvent, IoReceivesError, IoReceivesBadCode, IoReceivesOffline,
         IoReceivesOnline, IoStep, IoTestsOpen, IoPublishesHandle, IoFlagsOpened,
         IoTestsError, IoClearsUpdated, IoTestsOffline, IoRereadsOffline,
         IoSetsLastState, IoTestsOnline, IoPicks, IoMakes
  <2>2. IoBusy(a)' /\ \A b \in Addr : b # a => iopc'[b] = iopc[b]
    BY <1>5, IoStaysBusy
  <2>3. IoBusy(a)
    BY <1>5 DEF IoBusy, IoEvent, IoReceivesError, IoReceivesBadCode, IoReceivesOffline,
         IoReceivesOnline, IoStep, IoTestsOpen, IoPublishesHandle, IoFlagsOpened,
         IoTestsError, IoClearsUpdated, IoTestsOffline, IoRereadsOffline,
         IoSetsLastState, IoTestsOnline, IoPicks, IoMakes
  <2>4. Served' = Served
    BY <2>1, <2>2, <2>3 DEF Served, IoBusy
  <2> QED BY <1>a, <2>4
<1> QED BY <1>1, <1>2, <1>3, <1>4, <1>5

LEMMA SupervisorNext ==
  ASSUME TypeInv, SessionInv, [Next]_vars PROVE SupervisorStep
<1>1. CASE ~Terminated /\ MainStep
  BY <1>1, SupervisorMain
<1>2. ASSUME NEW a \in Addr, ~Terminated, IoEvent(a) \/ IoStep(a) PROVE SupervisorStep
  BY <1>2, SupervisorIo
<1>3. ASSUME NEW a \in Addr, DataThreadEnds(a) PROVE SupervisorStep
  BY <1>3, SupervisorStutter DEF DataThreadEnds, mainVars, wireVars, ioVars, Terminated
<1>4. ASSUME NEW t \in Updaters, UpdStep(t) PROVE SupervisorStep
  <2>1. UNCHANGED <<mpc, obj, iopc, sock>>
    BY <1>4 DEF UpdStep, UpdLoops, UpdTestsOpened, UpdTestsState, UpdReadsState,
                UpdRetestsState, UpdSends, UpdMarksUpdated, UpdPicks, UpdMakes,
                mainVars, wireVars, ioVars
  <2> QED BY <2>1, SupervisorStutter DEF Terminated
<1>5. CASE Interrupt
  BY <1>5, SupervisorStutter DEF Interrupt, mainVars, wireVars, ioVars, Terminated
<1>6. CASE UNCHANGED vars
  BY <1>6, SupervisorStutter DEF vars, mainVars, wireVars, ioVars, Terminated
<1> QED
  BY <1>1, <1>2, <1>3, <1>4, <1>5, <1>6, StepsWhileRunning DEF Next, Stopped

\* The main loop keeps the supervisor's promise: one session at a time, of the
\* client it holds, let go only when the session is over or the process ends.
THEOREM ImplementsSupervisor == Spec => SupervisorSpec
<1>1. Init => Supervisor!Init
  BY SupervisorInit
<1>2. TypeInv /\ SessionInv /\ [Next]_vars => [Supervisor!Next]_(Supervisor!vars)
  BY SupervisorNext DEF SupervisorStep
<1> QED BY <1>1, <1>2, TypeInvariant, SessionInvariant, PTL
     DEF Spec, SupervisorSpec, Supervisor!Spec

-----------------------------------------------------------------------------
(***************************************************************************)
(* Who may enter WebsocketDisconnected.  The reason that leads there is    *)
(* noted on PluginRegistered by main alone, and with one slot for          *)
(* registration threads, so that a leftover thread ends before the next    *)
(* client starts its own, nobody but main can act on it: a registration    *)
(* thread that has looked at the state keeps the machine away from         *)
(* PluginRegistered until its own transition is made, although the io      *)
(* thread goes on handling events meanwhile.                               *)
(***************************************************************************)

\* Main holds a client whose threads it has started and has not given it up.
Running == mpc \in {"wait", "loop", "check", "broken", "brokenPick", "brokenMake"}

\* The io thread of a is in On_open; registration thread t is past its check
\* that the client is opened.
Opening(a) == iopc[a] \in {"open", "openPick", "openMake", "publish", "flag"}
Looked(t) == upc[t] \notin {"none", "loop", "opened"}

OpenInv ==
  /\ mpc = "start" => ~opened[obj]
  /\ Running =>
       /\ opened[obj] \/ Opening(obj) => sock[obj] # "connecting"
       /\ opened[obj] => ~Opening(obj)
       /\ \A t \in Updaters : Looked(t) => opened[obj]
       /\ \A t \in Updaters : upc[t] # "none" => uptr[t] = obj

\* SERVER_OFFLINE, once noted on WebsocketConnected, stays there.
Sticky == reason["WebsocketConnected"] = "SERVER_OFFLINE"

\* Thread t is on its way to toggle for an update, or for a retry of one.
Registering(t) ==
  \/ upc[t] = "test" /\ curr = "WebsocketConnected"
  \/ upc[t] \in {"enter", "retest", "send", "mark", "updatePick"}
  \/ upc[t] = "updateMake" /\ tog[t].from # "DeviceOffline"
Retrying(t) ==
  \/ upc[t] \in {"test", "testDevice"} /\ curr = "DeviceOffline"
  \/ upc[t] = "deviceSleep"
  \/ upc[t] = "updateMake" /\ tog[t].from = "DeviceOffline"

Chosen(t) ==
  \/ tog[t].from = "DeviceOffline" /\ tog[t].to = "WebsocketConnected"
  \/ tog[t].from = "WebsocketConnected" /\ tog[t].to \in {"PluginRegistered", "ServerOffline"}
  \/ /\ tog[t].from = "ServerOffline" /\ Sticky
     /\ tog[t].to \in {"ServerOffline", "WebsocketConnected"}

RegistrationOK(t) ==
  /\ Registering(t) => fsm = "WebsocketConnected" \/ (fsm = "ServerOffline" /\ Sticky)
  /\ Retrying(t) => fsm = "DeviceOffline"
  /\ upc[t] = "updateMake" => Chosen(t)

RegInv == Running => \A t \in Updaters : RegistrationOK(t)

\* Where the machine is while a callback of a is about to toggle: no choice
\* from there brings it to PluginRegistered.
Near == fsm \in {"PluginRegistered", "ServerOffline"}
          \/ (fsm = "WebsocketConnected" /\ Sticky)
Between == fsm \in {"PluginRegistered", "ServerOffline", "WebsocketConnected"}

CallbackOK(a) ==
  /\ iopc[a] \in {"error", "offline"} /\ curr = "PluginRegistered" => fsm = "PluginRegistered"
  /\ iopc[a] \in {"offline", "offlineElse"} /\ curr = "WebsocketConnected" => Between
  /\ iopc[a] = "online" /\ curr = "ServerOffline" => Near
  /\ iopc[a] = "errorPick" => fsm = "PluginRegistered"
  /\ iopc[a] \in {"offlinePick", "onlinePick"} => Near
  /\ iopc[a] \in {"errorMake", "offlineMake", "onlineMake"} =>
       \/ tog[a].from = "PluginRegistered" /\ fsm = "PluginRegistered"
       \/ /\ tog[a].from = "WebsocketConnected" /\ tog[a].to = "ServerOffline"
          /\ Sticky /\ Between
       \/ /\ tog[a].from = "ServerOffline"
          /\ tog[a].to \in {"ServerOffline", "WebsocketConnected"} /\ Between

CallInv == Running => \A a \in Addr : CallbackOK(a)

\* Where WEBSOCKET_DISCONNECTED is noted, and who has chosen to act on it.
NoteInv ==
  /\ \A s \in States : reason[s] = "WEBSOCKET_DISCONNECTED" =>
       s = "PluginRegistered" /\ mpc \in {"brokenPick", "brokenMake"}
  /\ \A p \in Procs : tog[p].to = "WebsocketDisconnected" =>
       p = Main /\ mpc = "brokenMake"
  /\ mpc = "broken" /\ curr = "PluginRegistered" => fsm = "PluginRegistered"
  /\ mpc = "brokenPick" => fsm = "PluginRegistered"
  /\ mpc = "brokenMake" => tog[Main].from = "PluginRegistered"
  /\ curr \notin Dead

DownInv == OpenInv /\ RegInv /\ CallInv /\ NoteInv

\* A leftover registration thread ends before the next client starts its own.
OneUpdater == \A t, u \in Updaters : t = u

LEMMA ToggledDown ==
  ASSUME NEW s \in States, NEW r \in Reasons, NEW last,
         Toggled(s, r, last) = "WebsocketDisconnected"
  PROVE  r = "WEBSOCKET_DISCONNECTED"
BY DEF Toggled, States, Reasons, InitToggle, AgentAliveToggle, AgentDisabledToggle,
       WebsocketConnectedToggle, DeviceOfflineToggle, WebsocketDisconnectedToggle,
       PluginRegisteredToggle, ResendPluginToggle, ServerOfflineToggle

LEMMA ToggledNear ==
  ASSUME NEW r \in Reasons, NEW last, r # "WEBSOCKET_DISCONNECTED"
  PROVE  /\ Toggled("DeviceOffline", r, last) = "WebsocketConnected"
         /\ Toggled("WebsocketConnected", r, last) \in {"PluginRegistered", "ServerOffline"}
         /\ r = "SERVER_OFFLINE" => Toggled("WebsocketConnected", r, last) = "ServerOffline"
         /\ Toggled("ServerOffline", r, last) \in {"ServerOffline", "WebsocketConnected"}
BY DEF Toggled, WebsocketConnectedToggle, DeviceOfflineToggle, ServerOfflineToggle

LEMMA DownInit == Init => DownInv
<1> SUFFICES ASSUME Init PROVE DownInv
  OBVIOUS
<1>1. OpenInv /\ RegInv /\ CallInv
  BY DEF Init, OpenInv, RegInv, CallInv, Running
<1>2. \A p \in Procs : tog[p].to = "Init"
  BY DEF Init, NoToggle
<1>3. curr \notin Dead
  BY DEF Init, NoState, Dead
<1>4. NoteInv
  BY <1>2, <1>3 DEF Init, NoteInv
<1> QED BY <1>1, <1>4 DEF DownInv

\* Main, the io threads and the registration threads are different processes.
LEMMA Distinct ==
  /\ Main \in Procs /\ Addr \subseteq Procs /\ Updaters \subseteq Procs
  /\ \A a \in Addr : a \in Procs \ {Main}
  /\ \A t \in Updaters : t \in Procs \ {Main}
  /\ \A a \in Addr, t \in Updaters : a # t
BY ProcessesDistinct DEF Procs

\* What carrying out a transition does to the machine.
LEMMA MakeEffect ==
  ASSUME TypeInv, NEW p \in Procs, MakeTransition(p)
  PROVE  /\ fsm' = IF tog[p].to = tog[p].from THEN fsm ELSE tog[p].to
         /\ curr' = curr /\ Sticky' = Sticky
         /\ tog'[p].to = "Init"
         /\ \A q \in Procs : q # p => tog'[q] = tog[q]
         /\ \A s \in States : reason'[s] = "WEBSOCKET_DISCONNECTED" =>
              reason[s] = "WEBSOCKET_DISCONNECTED"
         /\ tog[p].from = "PluginRegistered" =>
              reason'["PluginRegistered"] = "PLUGIN_REGISTERED"
<1>0. /\ reason \in [States -> Reasons] /\ tog \in [Procs -> [from : States, to : States]]
      /\ tog[p].from \in States
  BY DEF TypeInv, TypeOK
<1>1. reason' = [reason EXCEPT ![tog[p].from] = SettledReason(tog[p].from, @)]
  BY DEF MakeTransition
<1>2. SettledReason("WebsocketConnected", reason["WebsocketConnected"])
        = reason["WebsocketConnected"]
  BY DEF SettledReason
<1>3. Sticky' = Sticky
  BY <1>0, <1>1, <1>2 DEF Sticky, States
<1>4. \A s \in States : reason'[s] = "WEBSOCKET_DISCONNECTED" =>
        reason[s] = "WEBSOCKET_DISCONNECTED"
  BY <1>0, <1>1 DEF SettledReason
<1>5. tog[p].from = "PluginRegistered" => reason'["PluginRegistered"] = "PLUGIN_REGISTERED"
  BY <1>0, <1>1 DEF SettledReason
<1>6. tog'[p].to = "Init" /\ \A q \in Procs : q # p => tog'[q] = tog[q]
  BY <1>0 DEF MakeTransition, NoToggle
<1> QED BY <1>3, <1>4, <1>5, <1>6 DEF MakeTransition

\* ... and choosing one.
LEMMA PickEffect ==
  ASSUME TypeInv, NEW p \in Procs, PickTransition(p)
  PROVE  /\ UNCHANGED <<fsm, curr, reason>>
         /\ tog'[p].from = fsm /\ tog'[p].to = Toggled(fsm, reason[fsm], lastState)
         /\ \A q \in Procs : q # p => tog'[q] = tog[q]
BY DEF PickTransition, TypeInv, TypeOK, fsmVars

-----------------------------------------------------------------------------

\* The machine is left alone up to a reading of the state, the noting of a
\* reason and a choice of main's, and the registration threads stay put.
Quiet ==
  /\ UNCHANGED <<fsm, upc>>
  /\ curr' \in {curr, fsm}
  /\ Sticky => Sticky'
  /\ \A p \in Procs \ {Main} : tog'[p] = tog[p]

LEMMA QuietRegistration ==
  ASSUME NEW t \in Updaters, RegistrationOK(t), Quiet PROVE RegistrationOK(t)'
<1>1. tog'[t] = tog[t] /\ UNCHANGED <<fsm, upc>> /\ curr' \in {curr, fsm} /\ (Sticky => Sticky')
  BY Distinct DEF Quiet
<1>2. upc[t] = "updateMake" => Chosen(t)'
  BY <1>1 DEF RegistrationOK, Chosen
<1>3. Registering(t)' => Registering(t) \/ fsm = "WebsocketConnected"
  BY <1>1 DEF Registering
<1>4. Retrying(t)' => Retrying(t) \/ fsm = "DeviceOffline"
  BY <1>1 DEF Retrying
<1> QED BY <1>1, <1>2, <1>3, <1>4 DEF RegistrationOK

LEMMA QuietCallback ==
  ASSUME NEW a \in Addr, CallbackOK(a), Quiet, iopc'[a] = iopc[a] PROVE CallbackOK(a)'
<1>1. tog'[a] = tog[a] /\ UNCHANGED fsm /\ curr' \in {curr, fsm} /\ (Sticky => Sticky')
  BY Distinct DEF Quiet
<1>2. (Near => Near') /\ Between' = Between
  BY <1>1 DEF Near, Between
<1>3. fsm = "WebsocketConnected" => Between
  BY DEF Between
<1>4. fsm = "ServerOffline" => Near
  BY DEF Near
<1> QED BY <1>1, <1>2, <1>3, <1>4 DEF CallbackOK

\* A step of main while it holds a running client.
LEMMA MainRunning ==
  ASSUME TypeInv, MainStep, Running', mpc # "start"
  PROVE  Running /\ Quiet /\ UNCHANGED <<iopc, obj, opened, sock, uptr>>
<1> USE DEF Running, Quiet, MainGoto, ReadState, TypeInv, TypeOK, fsmVars, clientVars, wireVars,
            ioVars, updVars
<1>1. CASE MainReadsState \/ MainSetsAgentAlive \/ MainMakes \/ MainDeletes \/ MainCloses
           \/ MainExits
  BY <1>1 DEF MainReadsState, MainSetsAgentAlive, MainMakes, MainDeletes, MainCloses, MainExits
<1>2. CASE MainPicks
  BY <1>2, PickEffect, Distinct DEF MainPicks, Sticky
<1>3. CASE \E a \in Addr : MainNews(a)
  BY <1>3 DEF MainNews
<1>4. CASE \E t \in Updaters : MainStarts(t)
  BY <1>4 DEF MainStarts
<1>5. CASE MainWaits \/ MainLoops \/ MainChecks
  BY <1>5 DEF MainWaits, MainLoops, MainChecks, Sticky
<1>6. CASE MainTestsBroken
  <2>1. Sticky' = Sticky
    BY <1>6 DEF MainTestsBroken, SetReason, Sticky, States
  <2> QED BY <1>6, <2>1 DEF MainTestsBroken
<1> QED BY <1>1, <1>2, <1>3, <1>4, <1>5, <1>6 DEF MainStep

\* The one that starts the threads: none of them has got anywhere yet.
LEMMA MainStarting ==
  ASSUME TypeInv, SessionInv, OpenInv, OneUpdater, MainStep, mpc = "start"
  PROVE  /\ mpc' = "wait" /\ UNCHANGED <<obj, opened, fsm, curr, tog, reason>>
         /\ ~opened[obj]
         /\ \A a \in Addr : iopc'[a] \in {"none", "run"}
         /\ \A t \in Updaters : upc'[t] \in {"none", "loop"} /\ (upc'[t] # "none" => uptr'[t] = obj)
<1>1. PICK t \in Updaters : MainStarts(t)
  BY DEF MainStep, MainGoto, MainReadsState, MainSetsAgentAlive, MainPicks, MainMakes, MainNews,
         MainWaits, MainLoops, MainChecks, MainTestsBroken, MainDeletes, MainCloses, MainExits
<1>2. mpc' = "wait" /\ UNCHANGED <<obj, opened, fsm, curr, tog, reason>>
  BY <1>1 DEF MainStarts, MainGoto, fsmVars
<1>3. ~opened[obj]
  BY DEF OpenInv
<1>4. \A a \in Addr : iopc'[a] \in {"none", "run"}
  <2>1. \A a \in Addr : iopc[a] = "none"
    BY DEF SessionInv
  <2>2. iopc' = iopc \/ iopc' = [iopc EXCEPT ![obj] = "run"]
    BY <1>1 DEF MainStarts, StartIo
  <2> QED BY <2>1, <2>2 DEF TypeInv, TypeOK
<1>5. upc'[t] \in {"none", "loop"} /\ (upc'[t] # "none" => uptr'[t] = obj)
  BY <1>1 DEF MainStarts, TypeInv, TypeOK
<1> QED BY <1>2, <1>3, <1>4, <1>5 DEF OneUpdater

LEMMA DownMain ==
  ASSUME TypeInv, SessionInv, OpenInv, RegInv, CallInv, OneUpdater, MainStep, Running'
  PROVE  RegInv' /\ CallInv'
<1>1. CASE mpc = "start"
  <2>1. /\ \A a \in Addr : iopc'[a] \in {"none", "run"}
        /\ \A t \in Updaters : upc'[t] \in {"none", "loop"}
    BY <1>1, MainStarting
  <2>2. \A t \in Updaters : RegistrationOK(t)'
    BY <2>1 DEF RegistrationOK, Registering, Retrying
  <2>3. \A a \in Addr : CallbackOK(a)'
    BY <2>1 DEF CallbackOK
  <2> QED BY <2>2, <2>3 DEF RegInv, CallInv
<1>2. CASE mpc # "start"
  <2>1. Running /\ Quiet /\ UNCHANGED iopc
    BY <1>2, MainRunning
  <2> QED BY <2>1, QuietRegistration, QuietCallback DEF RegInv, CallInv
<1> QED BY <1>1, <1>2

LEMMA OpenMain ==
  ASSUME TypeInv, SessionInv, OpenInv, OneUpdater, MainStep
  PROVE  OpenInv'
<1>1. CASE mpc = "start"
  <2>1. /\ mpc' = "wait" /\ UNCHANGED <<obj, opened>> /\ ~opened[obj]
        /\ \A a \in Addr : iopc'[a] \in {"none", "run"}
        /\ \A t \in Updaters : upc'[t] \in {"none", "loop"}
                                 /\ (upc'[t] # "none" => uptr'[t] = obj)
    BY <1>1, MainStarting
  <2>2. obj \in Addr
    BY <1>1 DEF SessionInv, HasClient, TypeInv, TypeOK
  <2>3. ~Opening(obj)'
    BY <2>1, <2>2 DEF Opening
  <2> QED BY <2>1, <2>3 DEF OpenInv, Looked
<1>2. CASE mpc # "start" /\ Running'
  <2>1. Running /\ UNCHANGED <<upc, iopc, obj, opened, sock, uptr>>
    BY <1>2, MainRunning DEF Quiet
  <2>2. mpc' # "start"
    BY <1>2 DEF Running
  <2> QED BY <2>1, <2>2 DEF OpenInv, Looked, Opening
<1>3. CASE mpc # "start" /\ mpc' = "start"
  <2>1. PICK a \in Addr : MainNews(a)
    BY <1>3 DEF MainStep, MainGoto, MainReadsState, MainSetsAgentAlive, MainPicks, MainMakes,
                MainStarts, MainWaits, MainLoops, MainChecks, MainTestsBroken, MainDeletes,
                MainCloses, MainExits
  <2>2. obj' = a /\ ~opened'[a]
    BY <2>1 DEF MainNews, TypeInv, TypeOK
  <2> QED BY <1>3, <2>2 DEF OpenInv, Running
<1>4. CASE mpc' # "start" /\ ~Running'
  BY <1>4 DEF OpenInv
<1> QED BY <1>1, <1>2, <1>3, <1>4

-----------------------------------------------------------------------------

\* A step of a registration thread: it reads the state at most, or it toggles.
LEMMA UpdKinds ==
  ASSUME TypeInv, NEW t \in Updaters, UpdStep(t)
  PROVE  /\ ~Terminated /\ UNCHANGED <<mpc, obj, iopc, opened, sock>>
         /\ \/ UNCHANGED <<fsm, tog, reason>> /\ curr' \in {curr, fsm}
            \/ UpdPicks(t)
            \/ UpdMakes(t)
<1> USE DEF UpdGoto, ReadState, fsmVars, mainVars, clientVars, wireVars, ioVars
<1>1. CASE UpdLoops(t) \/ UpdTestsOpened(t) \/ UpdTestsState(t) \/ UpdReadsState(t)
  BY <1>1 DEF UpdLoops, UpdTestsOpened, UpdTestsState, UpdReadsState
<1>2. CASE UpdRetestsState(t) \/ UpdSends(t) \/ UpdMarksUpdated(t)
  BY <1>2 DEF UpdRetestsState, UpdSends, UpdMarksUpdated
<1>3. CASE UpdPicks(t) \/ UpdMakes(t)
  BY <1>3 DEF UpdPicks, UpdMakes
<1> QED BY <1>1, <1>2, <1>3 DEF UpdStep

LEMMA OpenUpd ==
  ASSUME TypeInv, OpenInv, OneUpdater, NEW t \in Updaters, UpdStep(t)
  PROVE  OpenInv'
<1>1. UNCHANGED <<mpc, obj, iopc, opened, sock>>
  BY UpdKinds
<1>2. Running => (upc'[t] # "none" => uptr'[t] = obj) /\ (Looked(t)' => opened[obj])
  <2> SUFFICES ASSUME Running
               PROVE  (upc'[t] # "none" => uptr'[t] = obj) /\ (Looked(t)' => opened[obj])
    OBVIOUS
  <2>0. /\ upc[t] # "none" => uptr[t] = obj
        /\ Looked(t) => opened[obj]
        /\ upc \in [Updaters -> UpdPcs] /\ uptr \in [Updaters -> Addr \cup {NoClient}]
    BY DEF OpenInv, TypeInv, TypeOK
  <2> USE <2>0 DEF UpdGoto, Looked
  <2>1. CASE UpdLoops(t)
    BY <2>1 DEF UpdLoops
  <2>2. CASE UpdTestsOpened(t)
    BY <2>2 DEF UpdTestsOpened
  <2>3. CASE UpdTestsState(t) \/ UpdReadsState(t) \/ UpdRetestsState(t)
    BY <2>3 DEF UpdTestsState, UpdReadsState, UpdRetestsState
  <2>4. CASE UpdSends(t) \/ UpdMarksUpdated(t)
    BY <2>4 DEF UpdSends, UpdMarksUpdated
  <2>5. CASE UpdPicks(t) \/ UpdMakes(t)
    BY <2>5 DEF UpdPicks, UpdMakes
  <2> QED BY <2>1, <2>2, <2>3, <2>4, <2>5 DEF UpdStep
<1> QED BY <1>1, <1>2 DEF OpenInv, Running, Opening, OneUpdater

LEMMA RegUpd ==
  ASSUME TypeInv, NoteInv, Running, NEW t \in Updaters, RegistrationOK(t), UpdStep(t)
  PROVE  RegistrationOK(t)'
<1>0. upc \in [Updaters -> UpdPcs]
  BY DEF TypeInv, TypeOK
<1> USE <1>0 DEF UpdGoto, RegistrationOK, Registering, Retrying
<1>1. CASE UpdLoops(t)
  BY <1>1 DEF UpdLoops
<1>2. CASE UpdTestsOpened(t)
  BY <1>2 DEF UpdTestsOpened, ReadState, fsmVars
<1>3. CASE UpdTestsState(t)
  <2>1. curr # "ResendPlugin"
    BY DEF NoteInv, Dead
  <2>2. UNCHANGED <<fsm, reason, curr>>
    BY <1>3 DEF UpdTestsState, fsmVars
  <2> QED BY <1>3, <2>1, <2>2 DEF UpdTestsState, Sticky
<1>4. CASE UpdReadsState(t) \/ UpdRetestsState(t)
  BY <1>4 DEF UpdReadsState, UpdRetestsState, fsmVars, Sticky
<1>5. CASE UpdSends(t) \/ UpdMarksUpdated(t)
  BY <1>5 DEF UpdSends, UpdMarksUpdated, fsmVars, Sticky
<1>6. CASE UpdPicks(t)
  <2>1. /\ UNCHANGED <<fsm, curr, reason>>
        /\ tog'[t].from = fsm /\ tog'[t].to = Toggled(fsm, reason[fsm], lastState)
    BY <1>6, PickEffect, Distinct DEF UpdPicks
  <2>2. /\ upc'[t] = "updateMake" /\ upc[t] \in {"updatePick", "deviceSleep"}
    BY <1>6 DEF UpdPicks
  <2>3. \/ fsm = "WebsocketConnected" \/ (fsm = "ServerOffline" /\ Sticky)
        \/ fsm = "DeviceOffline"
    BY <2>2
  <2>4. reason[fsm] \in Reasons /\ reason[fsm] # "WEBSOCKET_DISCONNECTED"
    BY <2>3 DEF NoteInv, TypeInv, TypeOK
  <2>5. Chosen(t)'
    BY <2>1, <2>3, <2>4, ToggledNear DEF Chosen, Sticky
  <2>6. Registering(t)' => fsm # "DeviceOffline"
    BY <2>1, <2>2
  <2>7. Retrying(t)' => fsm = "DeviceOffline"
    BY <2>1, <2>2
  <2> HIDE DEF Registering, Retrying
  <2> QED BY <2>1, <2>3, <2>5, <2>6, <2>7 DEF Sticky
<1>7. CASE UpdMakes(t)
  BY <1>7 DEF UpdMakes
<1> QED BY <1>1, <1>2, <1>3, <1>4, <1>5, <1>6, <1>7 DEF UpdStep

\* The states a registration thread takes the machine from and to.
LEMMA UpdMakeEffect ==
  ASSUME TypeInv, NEW t \in Updaters, RegistrationOK(t), UpdMakes(t)
  PROVE  /\ Sticky' = Sticky /\ curr' = curr
         /\ \A p \in Procs : p # t => tog'[p] = tog[p]
         /\ \/ fsm = "DeviceOffline"
            \/ /\ fsm = "WebsocketConnected" \/ (fsm = "ServerOffline" /\ Sticky)
               /\ Near'
<1>1. /\ fsm' = IF tog[t].to = tog[t].from THEN fsm ELSE tog[t].to
      /\ curr' = curr /\ Sticky' = Sticky
      /\ \A p \in Procs : p # t => tog'[p] = tog[p]
  BY MakeEffect, Distinct DEF UpdMakes
<1>2. upc[t] = "updateMake"
  BY DEF UpdMakes, UpdGoto
<1>3. Chosen(t)
  BY <1>2 DEF RegistrationOK
<1>4. CASE tog[t].from = "DeviceOffline"
  <2>1. fsm = "DeviceOffline"
    BY <1>2, <1>4 DEF RegistrationOK, Retrying
  <2> QED BY <1>1, <2>1
<1>5. CASE tog[t].from # "DeviceOffline"
  <2>1. fsm = "WebsocketConnected" \/ (fsm = "ServerOffline" /\ Sticky)
    BY <1>2, <1>5 DEF RegistrationOK, Registering
  <2>2. Near'
    BY <1>1, <1>3, <1>5, <2>1 DEF Chosen, Near
  <2> QED BY <1>1, <2>1, <2>2
<1> QED BY <1>4, <1>5

LEMMA CallUpd ==
  ASSUME TypeInv, NEW t \in Updaters, RegistrationOK(t), UpdStep(t),
         NEW a \in Addr, CallbackOK(a)
  PROVE  CallbackOK(a)'
<1>0. UNCHANGED iopc
  BY UpdKinds
<1>1. CASE UNCHANGED <<fsm, tog, reason>> /\ curr' \in {curr, fsm}
  BY <1>0, <1>1 DEF CallbackOK, Near, Between, Sticky
<1>2. CASE UpdPicks(t)
  <2>1. UNCHANGED <<fsm, curr, reason>> /\ tog'[a] = tog[a]
    BY <1>2, PickEffect, Distinct DEF UpdPicks
  <2> QED BY <1>0, <2>1 DEF CallbackOK, Near, Between, Sticky
<1>3. CASE UpdMakes(t)
  <2>1. /\ Sticky' = Sticky /\ curr' = curr /\ tog'[a] = tog[a]
        /\ \/ fsm = "DeviceOffline"
           \/ /\ fsm = "WebsocketConnected" \/ (fsm = "ServerOffline" /\ Sticky)
              /\ Near'
    BY <1>3, UpdMakeEffect, Distinct
  <2>2. CASE fsm = "DeviceOffline"
    BY <1>0, <2>1, <2>2 DEF CallbackOK, Near, Between
  <2>3. CASE fsm # "DeviceOffline"
    <3>1. Near' /\ Between'
      BY <2>1, <2>3 DEF Near, Between
    <3>2. fsm # "PluginRegistered"
      BY <2>1, <2>3
    <3> QED BY <1>0, <2>1, <3>1, <3>2 DEF CallbackOK
  <2> QED BY <2>2, <2>3
<1> QED BY <1>1, <1>2, <1>3, UpdKinds

-----------------------------------------------------------------------------

\* A step of an io thread: it reads the state or notes a reason at most, or it
\* toggles.
LEMMA IoKinds ==
  ASSUME TypeInv, NEW a \in Addr, IoEvent(a) \/ IoStep(a)
  PROVE  /\ UNCHANGED <<mpc, obj, upc, uptr>>
         /\ \/ /\ UNCHANGED <<fsm, tog>> /\ curr' \in {curr, fsm} /\ (Sticky => Sticky')
               /\ \A s \in States : reason'[s] = "WEBSOCKET_DISCONNECTED" =>
                    reason[s] = "WEBSOCKET_DISCONNECTED"
            \/ IoPicks(a)
            \/ IoMakes(a)
<1>0. reason \in [States -> Reasons]
  BY DEF TypeInv, TypeOK
<1> USE DEF ReadState, fsmVars, mainVars, updVars, Sticky
<1>1. CASE IoEvent(a)
  BY <1>1 DEF IoEvent, IoLosesSession, IoOpens, IoReceivesError, IoReceivesBadCode,
              IoReceivesOffline, IoReceivesOnline
<1>2. CASE IoTestsOpen(a)
  BY <1>0, <1>2 DEF IoTestsOpen, SetReason, States
<1>3. CASE IoTestsError(a)
  BY <1>0, <1>3 DEF IoTestsError, SetReason, States
<1>4. CASE IoTestsOffline(a)
  BY <1>0, <1>4 DEF IoTestsOffline, SetReason, States
<1>5. CASE IoPublishesHandle(a) \/ IoFlagsOpened(a) \/ IoClearsUpdated(a)
  BY <1>5 DEF IoPublishesHandle, IoFlagsOpened, IoClearsUpdated
<1>6. CASE IoRereadsOffline(a) \/ IoSetsLastState(a) \/ IoTestsOnline(a)
  BY <1>6 DEF IoRereadsOffline, IoSetsLastState, IoTestsOnline
<1>7. CASE IoStopsWorking(a) \/ IoReportsException(a)
  BY <1>7 DEF IoStopsWorking, IoReportsException
<1>8. CASE IoPicks(a) \/ IoMakes(a)
  BY <1>8 DEF IoPicks, IoMakes
<1> QED BY <1>1, <1>2, <1>3, <1>4, <1>5, <1>6, <1>7, <1>8 DEF IoStep

\* A thread in a callback serves main's client; any other step only reports
\* the exception and touches nothing the other threads look at.
LEMMA IoServes ==
  ASSUME TypeInv, SessionInv, ~Terminated, NEW a \in Addr, IoEvent(a) \/ IoStep(a)
  PROVE  \/ IoBusy(a) /\ a = obj /\ mpc \in {"wait", "loop", "check", "shutdown", "final"}
         \/ IoReportsException(a)
<1>1. CASE IoReportsException(a)
  BY <1>1
<1>2. CASE ~IoReportsException(a)
  <2>1. IoBusy(a)
    BY <1>2, IoStaysBusy DEF IoStopsWorking, IoGoto, IoBusy
  <2> QED BY <2>1 DEF SessionInv, Terminated
<1> QED BY <1>1, <1>2

\* What an io step does to the session and the flag On_open raises last.
LEMMA IoOpening ==
  ASSUME TypeInv, NEW a \in Addr, IoEvent(a) \/ IoStep(a),
         opened[a] \/ Opening(a) => sock[a] # "connecting",
         opened[a] => ~Opening(a)
  PROVE  /\ (opened[a] \/ Opening(a))' => sock'[a] # "connecting"
         /\ opened'[a] => ~Opening(a)'
         /\ opened[a] => opened'[a]
         /\ \A b \in Addr : b # a => /\ opened'[b] = opened[b] /\ sock'[b] = sock[b]
                                     /\ iopc'[b] = iopc[b]
<1>0. /\ iopc \in [Addr -> IoPcs] /\ opened \in [Addr -> BOOLEAN]
      /\ sock \in [Addr -> {"none", "connecting", "open", "closing", "closed"}]
  BY DEF TypeInv, TypeOK
<1>00. iopc' \in [Addr -> IoPcs] /\ \A b \in Addr : b # a => iopc'[b] = iopc[b]
  BY <1>0, IoMoves
<1> USE <1>0, <1>00 DEF IoGoto, Opening, clientVars, wireVars
<1>1. CASE IoLosesSession(a)
  BY <1>1 DEF IoLosesSession
<1>2. CASE IoOpens(a)
  BY <1>2 DEF IoOpens
<1>3. CASE IoReceivesError(a) \/ IoReceivesBadCode(a) \/ IoReceivesOffline(a)
           \/ IoReceivesOnline(a)
  BY <1>3 DEF IoReceivesError, IoReceivesBadCode, IoReceivesOffline, IoReceivesOnline
<1>4. CASE IoTestsOpen(a) \/ IoPublishesHandle(a)
  BY <1>4 DEF IoTestsOpen, IoPublishesHandle
<1>5. CASE IoFlagsOpened(a)
  BY <1>5 DEF IoFlagsOpened
<1>6. CASE IoTestsError(a) \/ IoClearsUpdated(a) \/ IoTestsOffline(a)
  BY <1>6 DEF IoTestsError, IoClearsUpdated, IoTestsOffline
<1>7. CASE IoRereadsOffline(a) \/ IoSetsLastState(a) \/ IoTestsOnline(a)
  BY <1>7 DEF IoRereadsOffline, IoSetsLastState, IoTestsOnline
<1>8. CASE IoPicks(a)
  BY <1>8 DEF IoPicks
<1>9. CASE IoMakes(a)
  BY <1>9 DEF IoMakes
<1>10. CASE IoStopsWorking(a) \/ IoReportsException(a)
  BY <1>10 DEF IoStopsWorking, IoReportsException
<1> HIDE DEF IoGoto, Opening, clientVars, wireVars
<1> QED
  BY <1>1, <1>2, <1>3, <1>4, <1>5, <1>6, <1>7, <1>8, <1>9, <1>10 DEF IoEvent, IoStep

LEMMA OpenIo ==
  ASSUME TypeInv, SessionInv, OpenInv, ~Terminated, NEW a \in Addr, IoEvent(a) \/ IoStep(a)
  PROVE  OpenInv'
<1>1. UNCHANGED <<mpc, obj, upc, uptr>>
  BY IoKinds
<1>2. CASE IoBusy(a) /\ a = obj /\ mpc \in {"wait", "loop", "check", "shutdown", "final"}
  <2>1. mpc' # "start"
    BY <1>1, <1>2
  <2>2. CASE ~Running
    BY <1>1, <2>1, <2>2 DEF OpenInv, Running
  <2>3. CASE Running
    <3>1. /\ opened[a] \/ Opening(a) => sock[a] # "connecting"
          /\ opened[a] => ~Opening(a)
      BY <1>2, <2>3 DEF OpenInv
    <3>2. /\ (opened[a] \/ Opening(a))' => sock'[a] # "connecting"
          /\ opened'[a] => ~Opening(a)'
          /\ opened[a] => opened'[a]
      BY <3>1, IoOpening
    <3> QED BY <1>1, <1>2, <2>1, <2>3, <3>2 DEF OpenInv, Looked, Running, Opening
  <2> QED BY <2>2, <2>3
<1>3. CASE IoReportsException(a)
  <2>1. UNCHANGED <<opened, sock>>
    BY <1>3 DEF IoReportsException, wireVars
  <2>2. \A b \in Addr : Opening(b)' => Opening(b)
    BY <1>3 DEF IoReportsException, IoGoto, Opening, TypeInv, TypeOK
  <2>3. Running => obj \in Addr
    BY DEF Running, SessionInv, HasClient, TypeInv, TypeOK
  <2> QED BY <1>1, <2>1, <2>2, <2>3 DEF OpenInv, Looked, Running
<1> QED BY <1>2, <1>3, IoServes

\* The io thread's toggles, as the registration threads see them.
LEMMA RegIo ==
  ASSUME TypeInv, SessionInv, OpenInv, Running, NEW a \in Addr, IoEvent(a) \/ IoStep(a),
         CallbackOK(a), NEW t \in Updaters, RegistrationOK(t)
  PROVE  RegistrationOK(t)'
<1>1. UNCHANGED <<mpc, obj, upc, uptr>>
  BY IoKinds
<1>2. CASE UNCHANGED <<fsm, tog>> /\ curr' \in {curr, fsm} /\ (Sticky => Sticky')
  <2>1. Quiet
    BY <1>1, <1>2 DEF Quiet
  <2> QED BY <2>1, QuietRegistration
<1>3. CASE IoPicks(a)
  <2>1. UNCHANGED <<fsm, curr, reason>> /\ tog'[t] = tog[t]
    BY <1>3, PickEffect, Distinct DEF IoPicks
  <2> QED BY <1>1, <2>1 DEF RegistrationOK, Registering, Retrying, Chosen, Sticky
<1>4. CASE IoMakes(a)
  <2>1. /\ fsm' = IF tog[a].to = tog[a].from THEN fsm ELSE tog[a].to
        /\ curr' = curr /\ Sticky' = Sticky /\ tog'[t] = tog[t]
    BY <1>4, MakeEffect, Distinct DEF IoMakes
  <2>2. CASE ~Looked(t)
    BY <1>1, <2>2 DEF RegistrationOK, Registering, Retrying, Looked
  <2>3. CASE Looked(t)
    <3>1. a = obj /\ opened[obj]
      BY <1>4, <2>3, IoServes DEF IoMakes, IoGoto, OpenInv, IoReportsException, SessionInv,
         IoBusy, Terminated
    <3>2. iopc[a] \in {"errorMake", "offlineMake", "onlineMake"}
      BY <1>4, <3>1 DEF IoMakes, IoGoto, OpenInv, Opening
    <3>3. CASE tog[a].from = "PluginRegistered" /\ fsm = "PluginRegistered"
      <4>1. ~Registering(t) /\ ~Retrying(t)
        BY <3>3 DEF RegistrationOK
      <4>2. ~Registering(t)' /\ ~Retrying(t)' /\ upc'[t] # "updateMake"
        BY <1>1, <2>1, <4>1 DEF Registering, Retrying
      <4> QED BY <4>2 DEF RegistrationOK
    <3>4. CASE fsm' = fsm \/ (fsm' = "ServerOffline" /\ Sticky /\ Between)
               \/ (fsm' = "WebsocketConnected" /\ Between)
      <4>1. (Registering(t)' <=> Registering(t)) /\ (Retrying(t)' <=> Retrying(t))
        BY <1>1, <2>1 DEF Registering, Retrying
      <4>2. upc'[t] = "updateMake" => Chosen(t)'
        BY <1>1, <2>1 DEF RegistrationOK, Chosen
      <4>3. Between => fsm # "DeviceOffline"
        BY DEF Between
      <4> QED BY <2>1, <3>4, <4>1, <4>2, <4>3 DEF RegistrationOK
    <3> QED BY <2>1, <3>2, <3>3, <3>4 DEF CallbackOK
  <2> QED BY <2>2, <2>3
<1> QED BY <1>2, <1>3, <1>4, IoKinds

\* A callback's own progress.
LEMMA CallIo ==
  ASSUME TypeInv, NoteInv, NEW a \in Addr, IoEvent(a) \/ IoStep(a), CallbackOK(a)
  PROVE  CallbackOK(a)'
<1>0. iopc \in [Addr -> IoPcs] /\ reason \in [States -> Reasons]
  BY DEF TypeInv, TypeOK
<1> USE <1>0 DEF IoGoto
<1>1. CASE IoLosesSession(a) \/ IoOpens(a) \/ IoReceivesBadCode(a)
  BY <1>1 DEF IoLosesSession, IoOpens, IoReceivesBadCode, CallbackOK
<1>2. CASE IoReceivesError(a) \/ IoReceivesOffline(a) \/ IoReceivesOnline(a)
  <2>1. iopc'[a] \in {"error", "offline", "online"} /\ curr' = fsm /\ fsm' = fsm
    BY <1>2 DEF IoReceivesError, IoReceivesOffline, IoReceivesOnline, ReadState, fsmVars
  <2> QED BY <2>1 DEF CallbackOK, Near, Between
<1>3. CASE IoTestsOpen(a) \/ IoPublishesHandle(a) \/ IoFlagsOpened(a)
  BY <1>3 DEF IoTestsOpen, IoPublishesHandle, IoFlagsOpened, CallbackOK
<1>4. CASE IoTestsError(a)
  <2>1. UNCHANGED <<fsm, curr>> /\ iopc'[a] \in {"errorPick", "errorClear"}
        /\ (iopc'[a] = "errorPick" => iopc[a] = "error" /\ curr = "PluginRegistered")
    BY <1>4 DEF IoTestsError
  <2> QED BY <2>1 DEF CallbackOK
<1>5. CASE IoTestsOffline(a)
  <2>1. UNCHANGED <<fsm, curr>>
    BY <1>5 DEF IoTestsOffline
  <2>2. CASE iopc'[a] = "run" \/ (iopc'[a] = "offlineElse" /\ iopc[a] = "offline")
    BY <2>1, <2>2 DEF CallbackOK, Between
  <2>3. CASE iopc'[a] = "offlinePick" /\ iopc[a] = "offline" /\ curr = "PluginRegistered"
    BY <2>1, <2>3 DEF CallbackOK, Near
  <2>4. CASE /\ iopc'[a] = "offlinePick" /\ iopc[a] = "offlineElse"
             /\ curr = "WebsocketConnected" /\ Sticky'
    BY <2>1, <2>4 DEF CallbackOK, Near, Between
  <2>5. SetReason("WebsocketConnected", "SERVER_OFFLINE") => Sticky'
    BY DEF SetReason, Sticky, States
  <2> QED BY <1>5, <2>2, <2>3, <2>4, <2>5 DEF IoTestsOffline
<1>6. CASE IoClearsUpdated(a) \/ IoRereadsOffline(a) \/ IoSetsLastState(a)
  BY <1>6 DEF IoClearsUpdated, IoRereadsOffline, IoSetsLastState, CallbackOK
<1>7. CASE IoTestsOnline(a)
  <2>1. UNCHANGED <<fsm, curr, reason>> /\ iopc'[a] \in {"onlinePick", "run"}
        /\ (iopc'[a] = "onlinePick" => iopc[a] = "online" /\ curr = "ServerOffline")
    BY <1>7 DEF IoTestsOnline, fsmVars
  <2> QED BY <2>1 DEF CallbackOK, Near, Sticky
<1>8. CASE IoPicks(a)
  <2>1. /\ UNCHANGED <<fsm, curr, reason>>
        /\ tog'[a].from = fsm /\ tog'[a].to = Toggled(fsm, reason[fsm], lastState)
    BY <1>8, PickEffect, Distinct DEF IoPicks
  <2>2. CASE iopc'[a] = "openMake"
    BY <2>2 DEF CallbackOK
  <2>3. CASE iopc[a] = "errorPick" /\ iopc'[a] = "errorMake"
    BY <2>1, <2>3 DEF CallbackOK
  <2>4. CASE /\ iopc[a] \in {"offlinePick", "onlinePick"}
             /\ iopc'[a] \in {"offlineMake", "onlineMake"}
    <3>1. Near
      BY <2>4 DEF CallbackOK
    <3>2. Near' /\ Between' /\ Sticky' = Sticky
      BY <2>1, <3>1 DEF Near, Between, Sticky
    <3>3. CASE fsm = "PluginRegistered"
      BY <2>1, <2>4, <3>3 DEF CallbackOK
    <3>4. CASE fsm = "ServerOffline" \/ (fsm = "WebsocketConnected" /\ Sticky)
      <4>1. reason[fsm] \in Reasons /\ reason[fsm] # "WEBSOCKET_DISCONNECTED"
        BY <3>4 DEF NoteInv, TypeInv, TypeOK
      <4>2. \/ fsm = "ServerOffline" /\ tog'[a].to \in {"ServerOffline", "WebsocketConnected"}
            \/ fsm = "WebsocketConnected" /\ Sticky /\ tog'[a].to = "ServerOffline"
        BY <2>1, <3>4, <4>1, ToggledNear DEF Sticky
      <4> QED BY <2>1, <2>4, <3>2, <4>2 DEF CallbackOK
    <3> QED BY <3>1, <3>3, <3>4 DEF Near
  <2> QED BY <1>8, <2>2, <2>3, <2>4 DEF IoPicks
<1>9. CASE IoMakes(a)
  BY <1>9 DEF IoMakes, CallbackOK
<1>10. CASE IoStopsWorking(a) \/ IoReportsException(a)
  BY <1>10 DEF IoStopsWorking, IoReportsException, CallbackOK
<1> QED
  BY <1>1, <1>2, <1>3, <1>4, <1>5, <1>6, <1>7, <1>8, <1>9, <1>10 DEF IoEvent, IoStep

\* The other io threads are done or, when the step is the last of one that is,
\* see nothing of it.
LEMMA CallOther ==
  ASSUME TypeInv, SessionInv, Running, NEW a \in Addr, IoEvent(a) \/ IoStep(a),
         NEW b \in Addr, b # a, CallbackOK(b)
  PROVE  CallbackOK(b)'
<1>1. iopc'[b] = iopc[b]
  BY IoMoves DEF TypeInv, TypeOK
<1>2. CASE IoReportsException(a)
  BY <1>1, <1>2 DEF IoReportsException, fsmVars, CallbackOK, Near, Between, Sticky
<1>3. CASE ~IoBusy(b)
  BY <1>1, <1>3 DEF IoBusy, CallbackOK
<1>4. CASE IoBusy(b) /\ ~IoReportsException(a)
  BY <1>4, IoServes DEF SessionInv, Running, Terminated
<1> QED BY <1>2, <1>3, <1>4

-----------------------------------------------------------------------------

\* What keeps the notes: none is added, none is chosen, and where main stands
\* on one the machine stays where it is.
LEMMA NoteFrame ==
  ASSUME NoteInv, DeadInv, UNCHANGED <<mpc, fsm>>, curr' \in {curr, fsm},
         \A s \in States : reason'[s] = "WEBSOCKET_DISCONNECTED" =>
           reason[s] = "WEBSOCKET_DISCONNECTED",
         \A p \in Procs : tog'[p].to = "WebsocketDisconnected" =>
           tog[p].to = "WebsocketDisconnected",
         tog'[Main] = tog[Main]
  PROVE  NoteInv'
BY DEF NoteInv, DeadInv

LEMMA NoteMain ==
  ASSUME TypeInv, DeadInv, NoteInv, MainStep
  PROVE  NoteInv'
<1>0. /\ fsm \in States /\ reason \in [States -> Reasons]
      /\ tog \in [Procs -> [from : States, to : States]]
  BY DEF TypeInv, TypeOK
<1>1. CASE MainReadsState \/ MainWaits \/ MainLoops \/ MainDeletes \/ MainCloses \/ MainExits
           \/ (\E a \in Addr : MainNews(a)) \/ (\E t \in Updaters : MainStarts(t))
  <2>1. UNCHANGED <<fsm, tog, reason>> /\ curr' \in {curr, fsm}
        /\ mpc \notin {"brokenPick", "brokenMake"}
        /\ mpc' \notin {"broken", "brokenPick", "brokenMake"}
    BY <1>1 DEF MainReadsState, MainWaits, MainLoops, MainDeletes, MainCloses, MainExits,
                MainNews, MainStarts, MainGoto, ReadState, fsmVars
  <2> QED BY <2>1 DEF NoteInv, DeadInv
<1>2. CASE MainSetsAgentAlive
  <2>1. /\ UNCHANGED <<fsm, tog, curr>> /\ mpc = "alive" /\ mpc' = "alivePick"
        /\ reason' = [reason EXCEPT ![curr] = "AGENT_ALIVE"]
    BY <1>2 DEF MainSetsAgentAlive, MainGoto, SetReason
  <2> QED BY <1>0, <2>1 DEF NoteInv
<1>3. CASE MainPicks
  <2>1. /\ UNCHANGED <<fsm, curr, reason>>
        /\ tog'[Main].from = fsm /\ tog'[Main].to = Toggled(fsm, reason[fsm], lastState)
        /\ \A q \in Procs : q # Main => tog'[q] = tog[q]
    BY <1>3, PickEffect, Distinct DEF MainPicks
  <2>2. tog'[Main].to = "WebsocketDisconnected" => reason[fsm] = "WEBSOCKET_DISCONNECTED"
    <3>1. reason[fsm] \in Reasons
      BY <1>0
    <3>2. Toggled(fsm, reason[fsm], lastState) = "WebsocketDisconnected" =>
            reason[fsm] = "WEBSOCKET_DISCONNECTED"
      BY <1>0, <3>1, ToggledDown
    <3> QED BY <2>1, <3>2
  <2>3. \/ mpc = "alivePick" /\ mpc' = "aliveMake"
        \/ mpc = "brokenPick" /\ mpc' = "brokenMake"
    BY <1>3 DEF MainPicks, MainGoto
  <2>4. CASE mpc = "alivePick" /\ mpc' = "aliveMake"
    BY <1>0, <2>1, <2>2, <2>4 DEF NoteInv
  <2>5. CASE mpc = "brokenPick" /\ mpc' = "brokenMake"
    BY <2>1, <2>5 DEF NoteInv
  <2> QED BY <2>3, <2>4, <2>5
<1>4. CASE MainMakes
  <2>1. /\ curr' = curr
        /\ tog'[Main].to = "Init"
        /\ \A q \in Procs : q # Main => tog'[q] = tog[q]
        /\ \A s \in States : reason'[s] = "WEBSOCKET_DISCONNECTED" =>
             reason[s] = "WEBSOCKET_DISCONNECTED"
        /\ tog[Main].from = "PluginRegistered" =>
             reason'["PluginRegistered"] = "PLUGIN_REGISTERED"
    BY <1>4, MakeEffect, Distinct DEF MainMakes
  <2>2. \/ mpc = "aliveMake" /\ mpc' = "new"
        \/ mpc = "brokenMake" /\ mpc' = "delete"
    BY <1>4 DEF MainMakes, MainGoto
  <2>3. \A s \in States : reason'[s] # "WEBSOCKET_DISCONNECTED"
    BY <2>1, <2>2 DEF NoteInv
  <2> QED BY <2>1, <2>2, <2>3 DEF NoteInv
<1>5. CASE MainChecks
  <2>1. /\ UNCHANGED <<fsm, tog, reason>>
        /\ \/ mpc' = "loop" /\ curr' = curr
           \/ mpc' = "broken" /\ curr' = fsm
        /\ mpc = "check"
    BY <1>5 DEF MainChecks, MainGoto, ReadState, fsmVars
  <2> QED BY <2>1 DEF NoteInv, DeadInv
<1>6. CASE MainTestsBroken
  <2>1. /\ UNCHANGED <<fsm, tog, curr>> /\ mpc = "broken"
        /\ \/ /\ mpc' = "brokenPick" /\ curr = "PluginRegistered"
              /\ reason' = [reason EXCEPT !["PluginRegistered"] = "WEBSOCKET_DISCONNECTED"]
           \/ mpc' = "delete" /\ reason' = reason
    BY <1>6 DEF MainTestsBroken, MainGoto, SetReason
  <2> QED BY <1>0, <2>1 DEF NoteInv
<1> QED BY <1>1, <1>2, <1>3, <1>4, <1>5, <1>6 DEF MainStep

LEMMA NoteIo ==
  ASSUME TypeInv, SessionInv, DeadInv, NoteInv, ~Terminated,
         NEW a \in Addr, IoEvent(a) \/ IoStep(a)
  PROVE  NoteInv'
<1>0. fsm \in States /\ reason \in [States -> Reasons]
  BY DEF TypeInv, TypeOK
<1>1. UNCHANGED mpc
  BY IoKinds
<1>2. CASE UNCHANGED <<fsm, tog>> /\ curr' \in {curr, fsm}
           /\ \A s \in States : reason'[s] = "WEBSOCKET_DISCONNECTED" =>
                reason[s] = "WEBSOCKET_DISCONNECTED"
  BY <1>1, <1>2, NoteFrame
<1>3. CASE IoPicks(a) \/ IoMakes(a)
  <2>1. mpc \notin {"broken", "brokenPick", "brokenMake"}
    BY <1>3, IoServes DEF IoPicks, IoMakes, IoReportsException, IoGoto
  <2>2. \A s \in States : reason[s] # "WEBSOCKET_DISCONNECTED"
    BY <2>1 DEF NoteInv
  <2>3. \A p \in Procs : tog[p].to # "WebsocketDisconnected"
    BY <2>1 DEF NoteInv
  <2>4. CASE IoPicks(a)
    <3>1. /\ UNCHANGED <<fsm, curr, reason>>
          /\ tog'[a].to = Toggled(fsm, reason[fsm], lastState)
          /\ \A q \in Procs : q # a => tog'[q] = tog[q]
      BY <2>4, PickEffect, Distinct DEF IoPicks
    <3>2. tog'[a].to # "WebsocketDisconnected"
      BY <1>0, <2>2, <3>1, ToggledDown
    <3> QED BY <1>1, <2>1, <2>3, <3>1, <3>2 DEF NoteInv
  <2>5. CASE IoMakes(a)
    <3>1. /\ curr' = curr /\ tog'[a].to = "Init"
          /\ \A q \in Procs : q # a => tog'[q] = tog[q]
          /\ \A s \in States : reason'[s] = "WEBSOCKET_DISCONNECTED" =>
               reason[s] = "WEBSOCKET_DISCONNECTED"
      BY <2>5, MakeEffect, Distinct DEF IoMakes
    <3> QED BY <1>1, <2>1, <2>2, <2>3, <3>1 DEF NoteInv
  <2> QED BY <1>3, <2>4, <2>5
<1> QED BY <1>2, <1>3, IoKinds

LEMMA NoteUpd ==
  ASSUME TypeInv, DeadInv, RegInv, NoteInv, NEW t \in Updaters, UpdStep(t)
  PROVE  NoteInv'
<1>0. fsm \in States /\ reason \in [States -> Reasons]
  BY DEF TypeInv, TypeOK
<1>1. UNCHANGED mpc
  BY UpdKinds
<1>2. CASE UNCHANGED <<fsm, tog, reason>> /\ curr' \in {curr, fsm}
  BY <1>1, <1>2, NoteFrame
<1>3. CASE UpdPicks(t)
  <2>1. /\ UNCHANGED <<fsm, curr, reason>>
        /\ tog'[t].to = Toggled(fsm, reason[fsm], lastState)
        /\ \A q \in Procs : q # t => tog'[q] = tog[q]
    BY <1>3, PickEffect, Distinct DEF UpdPicks
  <2>2. Running => fsm # "PluginRegistered"
    BY <1>3 DEF UpdPicks, UpdGoto, RegInv, RegistrationOK, Registering, Retrying
  <2>3. reason[fsm] # "WEBSOCKET_DISCONNECTED"
    BY <1>0, <2>2 DEF NoteInv, Running
  <2>4. tog'[t].to # "WebsocketDisconnected"
    BY <1>0, <2>1, <2>3, ToggledDown
  <2>5. tog'[Main] = tog[Main]
    BY <2>1, Distinct
  <2> QED BY <1>1, <2>1, <2>4, <2>5, NoteFrame
<1>4. CASE UpdMakes(t)
  <2>1. /\ curr' = curr /\ tog'[t].to = "Init"
        /\ \A q \in Procs : q # t => tog'[q] = tog[q]
        /\ \A s \in States : reason'[s] = "WEBSOCKET_DISCONNECTED" =>
             reason[s] = "WEBSOCKET_DISCONNECTED"
    BY <1>4, MakeEffect, Distinct DEF UpdMakes
  <2>2. Running => fsm # "PluginRegistered"
    BY <1>4 DEF UpdMakes, UpdGoto, RegInv, RegistrationOK, Registering, Retrying
  <2>3. mpc # "brokenPick" /\ ~(mpc = "broken" /\ curr = "PluginRegistered")
    BY <2>2 DEF NoteInv, Running
  <2>4. tog'[Main] = tog[Main]
    BY <2>1, Distinct
  <2> QED BY <1>1, <2>1, <2>3, <2>4 DEF NoteInv
<1> QED BY <1>2, <1>3, <1>4, UpdKinds

-----------------------------------------------------------------------------

\* A step that leaves alone all that DownInv is about.
LEMMA DownFrame ==
  ASSUME DownInv, UNCHANGED <<fsm, reason, curr, tog, mpc, obj, opened, sock, iopc, upc, uptr>>
  PROVE  DownInv'
<1>1. OpenInv'
  BY DEF DownInv, OpenInv, Running, Opening, Looked
<1>2. RegInv'
  BY DEF DownInv, RegInv, Running, RegistrationOK, Registering, Retrying, Chosen, Sticky
<1>3. CallInv'
  BY DEF DownInv, CallInv, Running, CallbackOK, Near, Between, Sticky
<1>4. NoteInv'
  BY DEF DownInv, NoteInv
<1> QED BY <1>1, <1>2, <1>3, <1>4 DEF DownInv

LEMMA DownNext ==
  ASSUME OneUpdater, TypeInv, SessionInv, DeadInv, DownInv, [Next]_vars
  PROVE  DownInv'
<1> USE DEF DownInv
<1>1. CASE MainStep
  <2>1. Running' => RegInv' /\ CallInv'
    BY <1>1, DownMain
  <2>2. RegInv' /\ CallInv'
    BY <2>1 DEF RegInv, CallInv
  <2> QED BY <1>1, <2>2, OpenMain, NoteMain
<1>2. ASSUME NEW a \in Addr, IoEvent(a) \/ IoStep(a) PROVE DownInv'
  <2>1. ~Terminated /\ UNCHANGED mpc
    BY <1>2, StepsWhileRunning, IoKinds
  <2>2. RegInv'
    BY <1>2, <2>1, RegIo DEF RegInv, CallInv, Running
  <2>3. CallInv'
    BY <1>2, <2>1, CallIo, CallOther DEF CallInv, Running
  <2> QED BY <1>2, <2>1, <2>2, <2>3, OpenIo, NoteIo
<1>3. ASSUME NEW t \in Updaters, UpdStep(t) PROVE DownInv'
  <2>1. UNCHANGED mpc
    BY <1>3, UpdKinds
  <2>2. RegInv'
    <3> SUFFICES ASSUME Running PROVE \A u \in Updaters : RegistrationOK(u)'
      BY <2>1 DEF RegInv, Running
    <3>1. RegistrationOK(t)'
      BY <1>3, RegUpd DEF RegInv
    <3> QED BY <3>1 DEF OneUpdater
  <2>3. CallInv'
    <3> SUFFICES ASSUME Running, NEW a \in Addr PROVE CallbackOK(a)'
      BY <2>1 DEF CallInv, Running
    <3>1. RegistrationOK(t) /\ CallbackOK(a)
      BY DEF RegInv, CallInv
    <3> QED BY <1>3, <3>1, CallUpd
  <2> QED BY <1>3, <2>2, <2>3, OpenUpd, NoteUpd
<1>4. ASSUME NEW a \in Addr, DataThreadEnds(a) PROVE DownInv'
  BY <1>4, DownFrame DEF DataThreadEnds, fsmVars, mainVars, wireVars, ioVars, updVars
<1>5. CASE Interrupt
  BY <1>5, DownFrame DEF Interrupt, fsmVars, mainVars, clientVars, wireVars, ioVars, updVars
<1>6. CASE UNCHANGED vars
  BY <1>6, DownFrame DEF vars, fsmVars, mainVars, clientVars, wireVars, ioVars, updVars
<1> QED BY <1>1, <1>2, <1>3, <1>4, <1>5, <1>6 DEF Next, Stopped

\* The machine enters WebsocketDisconnected only while main makes the
\* transition it asked for, when no io thread runs.
LEMMA DownStep ==
  ASSUME TypeInv, SessionInv, DownInv, [Next]_vars,
         fsm # "WebsocketDisconnected", fsm' = "WebsocketDisconnected"
  PROVE  Served = {}
<1>1. PICK p \in Procs : MakeTransition(p)
  BY MachineSteps DEF MachineStep, PickTransition, fsmVars
<1>2. tog[p].to = "WebsocketDisconnected"
  BY <1>1 DEF MakeTransition
<1>3. mpc = "brokenMake"
  BY <1>2 DEF DownInv, NoteInv
<1> QED BY <1>3 DEF SessionInv, Served

\* With one slot for registration threads the machine is told of a lost
\* connection only when no session is served, although main, the callbacks and
\* the registration thread toggle it without a lock.
THEOREM DownOnlyWhenDown == OneUpdater /\ Spec => DisconnectedOnlyWhenDown
<1>1. Init => DownInv
  BY DownInit
<1>2. OneUpdater /\ TypeInv /\ SessionInv /\ DeadInv /\ DownInv /\ [Next]_vars => DownInv'
  BY DownNext
<1>3. TypeInv /\ SessionInv /\ DownInv /\ [Next]_vars =>
        [fsm # "WebsocketDisconnected" /\ fsm' = "WebsocketDisconnected" => Served = {}]_vars
  BY DownStep
<1>4. Init => DeadInv
  BY DeadInit
<1>5. TypeInv /\ DeadInv /\ [Next]_vars => DeadInv'
  BY DeadNext
<1>6. CASE OneUpdater
  <2>1. Spec => [](TypeInv /\ SessionInv /\ DeadInv)
    BY <1>4, <1>5, TypeInvariant, SessionInvariant, PTL DEF Spec
  <2>2. TypeInv /\ SessionInv /\ DeadInv /\ DownInv /\ [Next]_vars => DownInv'
    BY <1>2, <1>6
  <2> QED BY <1>1, <1>3, <2>1, <2>2, PTL DEF Spec, DisconnectedOnlyWhenDown
<1> QED BY <1>6
=============================================================================
