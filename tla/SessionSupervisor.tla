-------------------------- MODULE SessionSupervisor --------------------------
(***************************************************************************)
(* What the main loop promises of the plugIN's websocket sessions, without *)
(* threads or state machine: there is never more than one, it belongs to   *)
(* the client main holds, and main lets go of a client only when its       *)
(* session is over - except when the whole process stops.                  *)
(***************************************************************************)
CONSTANTS Addr, NoClient

VARIABLES
  current,   \* the client main holds
  sessions,  \* the clients with a session under way and an io thread to serve it
  stopped    \* the process has ended

vars == <<current, sessions, stopped>>

Init == current = NoClient /\ sessions = {} /\ stopped = FALSE

Adopt(a) ==
  /\ ~stopped /\ current = NoClient /\ sessions = {}
  /\ current' = a
  /\ UNCHANGED <<sessions, stopped>>

Connect ==
  /\ ~stopped /\ current # NoClient /\ sessions = {}
  /\ sessions' = {current}
  /\ UNCHANGED <<current, stopped>>

Lose ==
  /\ ~stopped /\ current # NoClient /\ sessions = {current}
  /\ sessions' = {}
  /\ UNCHANGED <<current, stopped>>

Discard ==
  /\ ~stopped /\ current # NoClient /\ sessions = {}
  /\ current' = NoClient
  /\ UNCHANGED <<sessions, stopped>>

Stop ==
  /\ ~stopped
  /\ stopped' = TRUE
  /\ current' \in {current, NoClient}
  /\ sessions' \in {sessions, {}}

Next == (\E a \in Addr : Adopt(a)) \/ Connect \/ Lose \/ Discard \/ Stop

Spec == Init /\ [][Next]_vars
=============================================================================
