---------------------------- MODULE MCUtilities ----------------------------
(***************************************************************************)
(* The utilities of Util/src for threads - the recursive mutex, the log and  *)
(* the threads themselves - and websocketpp's endpoint.  A behaviour          *)
(* exercises one of them, chosen at the start, and the others rest.           *)
(***************************************************************************)
EXTENDS UtlMutex, Integers

CONSTANTS LogThreads, MaxFileSize, MinFiles, SetMax, NotCalled, SpecialMax, OpenMayFail,
          MaxDay, MaxLines, Native, MaxThreads

VARIABLES
  part,  \* "mutex", "log", "threads" or "endpoint"
  day, clock, readers, writer, cur, logDay, size, dir, special, handles, logPc, stamp, fd,
  threads, outcome,
  plan, ep, io, cons, ops, reply

\* With their theorems, for MCUtilities_proofs.
Log == INSTANCE UtlLog_proofs WITH Threads <- LogThreads, pc <- logPc

\* To inherit, the lowest, one between, the highest, and one there is not.
Thr == INSTANCE UtlThread_proofs WITH Asked <- {-1, 0, 5, 9, 10}

Plan(role, may, made, listens, starts) ==
  [role |-> role, may |-> may, cons |-> made, listens |-> listens, starts |-> starts]

Endpoint == INSTANCE WsEndpoint_proofs WITH Scenarios <-
  {Plan("server", {"run"}, 3, 2, 2), Plan("server", {"set"}, 2, 1, 1),
   Plan("server", {"give", "call"}, 2, 1, 1), Plan("client", {"set", "call"}, 2, 0, 0),
   Plan("client", {"give", "again", "run", "perpetual", "time"}, 1, 0, 0)}

ASSUME LogParameters == Log!LogAssumption

ASSUME ThreadParameters == Thr!ThreadAssumption

logVars == <<day, clock, readers, writer, cur, logDay, size, dir, special, handles, logPc, stamp, fd>>

threadVars == <<threads, outcome>>

endpointVars == <<plan, ep, io, cons, ops, reply>>

PartInit ==
  /\ part \in {"mutex", "log", "threads", "endpoint"} /\ Init /\ Log!Init
  /\ IF part = "threads" THEN Thr!Init ELSE threads = << >> /\ outcome = Thr!NoOutcome
  /\ IF part = "endpoint" THEN Endpoint!Init
     ELSE plan = "none" /\ ep = "none" /\ io = "none" /\ cons = << >> /\ ops = {} /\ reply = "none"

PartNext ==
  \/ part = "mutex" /\ Next /\ UNCHANGED <<part, logVars, threadVars, endpointVars>>
  \/ part = "log" /\ Log!Next /\ UNCHANGED <<part, vars, threadVars, endpointVars>>
  \/ part = "threads" /\ Thr!Next /\ UNCHANGED <<part, vars, logVars, endpointVars>>
  \/ part = "endpoint" /\ Endpoint!Next /\ UNCHANGED <<part, vars, logVars, threadVars>>

\* No action with fairness is enabled in a part that rests.
PartSpec ==
  /\ PartInit /\ [][PartNext]_<<part, vars, logVars, threadVars, endpointVars>>
  /\ Fairness /\ Log!Fairness

-----------------------------------------------------------------------------
(***************************************************************************)
(* The properties, stated in the modules of the parts                      *)
(***************************************************************************)

\* The log's variables hold values of their types (Utl_Log.cpp:59-78).
LogTypeOK == Log!TypeOK

\* No line goes to a file another thread has closed (Utl_Log.cpp:280-283, 425-426).
NoWriteToClosedFile == Log!NoWriteToClosedFile

\* Files overrun their limit by a line per thread at most, and the directory stays
\* within its number of files (Utl_Log.cpp:411-423, 516-533).
FilesBounded == Log!SizesBounded /\ Log!FilesBounded

\* A full file is replaced once (Utl_Log.cpp:429-443).
NoFileClosedEarly == Log!NoFileClosedEarly

\* Every call of the log returns (Utl_Log.cpp:425-426, 543-546).
EveryCallReturns == Log!EveryCallReturns

\* Threads have the priorities they should, and handles name the threads that may be
\* joined (Utl_thread.cpp:112-145, 188-298).
ThreadsRight == Thr!ThreadsRight

\* An endpoint that listens accepts, with no more loops than were started; every
\* connection is started or terminated once; the service that is deleted is the
\* endpoint's own; a call by a handle that reports no error has reached its connection
\* (transport/asio/endpoint.hpp:95-263, 404-845, server_endpoint.hpp:106-190,
\* client_endpoint.hpp:89-168, endpoint_impl.hpp:35-265).
EndpointRight ==
  part = "endpoint" =>
    /\ Endpoint!ListeningIsTrue /\ Endpoint!NeverDeaf /\ Endpoint!LoopsAsStarted
    /\ Endpoint!NothingLost /\ Endpoint!ServiceKept
    /\ Endpoint!SettingsOfCreation /\ Endpoint!CallsAnswered

=============================================================================
