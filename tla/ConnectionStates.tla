-------------------------- MODULE ConnectionStates --------------------------
(***************************************************************************)
(* The connection state machine of the plugIN (MainSrc/ConcreteStates.cpp) *)
(* as pure operators.  Every state of the program is a singleton object    *)
(* that carries a reason (mReason); CConnection::toggle asks the current   *)
(* object where to go, and the answer depends on that object's reason      *)
(* only.  Nothing resets a reason except where SettledReason says so, so   *)
(* it sticks to the object across visits.                                  *)
(*                                                                         *)
(* A definition X_Y below, marked as a mutant, is X with a bug: put in the *)
(* place of X it makes TLC find a property violated (README.md).           *)
(***************************************************************************)

\* The ten singletons.  ResendPlugin, AgentDisabled and Exit exist in the code
\* but the reasons that lead to them are never set.
States == {"Init", "AgentAlive", "AgentDisabled", "WebsocketConnected",
           "DeviceOffline", "WebsocketDisconnected", "PluginRegistered",
           "ResendPlugin", "ServerOffline", "Exit"}

Reasons == {"NONE", "PLUGIN_REGISTERED", "DEVICE_OFFLINE", "SERVER_OFFLINE",
            "SERVER_ONLINE", "WEBSOCKET_DISCONNECTED", "AGENT_DISABLED",
            "AGENT_ALIVE", "WEBSOCKET_CONNECTED", "RESEND_PLUGIN", "ERROR"}

\* mLastState of ServerOffline before anyone sets it.
NoState == "NULL"

-----------------------------------------------------------------------------
(***************************************************************************)
(* One toggle() per class: the state the connection is in afterwards.      *)
(* Staying put means the method did not call setState.                     *)
(***************************************************************************)

InitToggle(r) ==
  CASE r = "AGENT_ALIVE"    -> "AgentAlive"
    [] r = "AGENT_DISABLED" -> "AgentDisabled"
    [] OTHER                -> "Init"

AgentAliveToggle(r) ==
  CASE r = "WEBSOCKET_CONNECTED"    -> "WebsocketConnected"
    [] r = "WEBSOCKET_DISCONNECTED" -> "WebsocketDisconnected"
    [] OTHER                        -> "AgentAlive"

AgentDisabledToggle(r) ==
  CASE r = "ERROR"       -> "Exit"
    [] r = "AGENT_ALIVE" -> "AgentAlive"
    [] OTHER             -> "AgentDisabled"

\* Mutant: only a reason that says so registers.
WebsocketConnectedToggle_OnReason(r) ==
  CASE r = "SERVER_OFFLINE"         -> "ServerOffline"
    [] r = "WEBSOCKET_DISCONNECTED" -> "WebsocketDisconnected"
    [] r = "PLUGIN_REGISTERED"      -> "PluginRegistered"
    [] OTHER                        -> "WebsocketConnected"

\* The default branch is the registration: any reason but the two listed.
WebsocketConnectedToggle(r) ==
  CASE r = "SERVER_OFFLINE"         -> "ServerOffline"
    [] r = "WEBSOCKET_DISCONNECTED" -> "WebsocketDisconnected"
    [] OTHER                        -> "PluginRegistered"

\* Mutant: the default branch is missing.
DeviceOfflineToggle_NoDefault(r) ==
  IF r = "WEBSOCKET_DISCONNECTED" THEN "WebsocketDisconnected" ELSE "DeviceOffline"

DeviceOfflineToggle(r) ==
  IF r = "WEBSOCKET_DISCONNECTED" THEN "WebsocketDisconnected"
                                  ELSE "WebsocketConnected"

WebsocketDisconnectedToggle(r) ==
  IF r = "AGENT_DISABLED" THEN "AgentDisabled" ELSE "AgentAlive"

\* Mutant: the WEBSOCKET_DISCONNECTED case lacks its break.
PluginRegisteredToggle_NoBreak(r) ==
  CASE r = "DEVICE_OFFLINE" -> "DeviceOffline"
    [] r = "SERVER_OFFLINE" -> "ServerOffline"
    [] r \in {"WEBSOCKET_DISCONNECTED", "AGENT_DISABLED"} -> "AgentDisabled"
    [] r = "RESEND_PLUGIN"  -> "WebsocketConnected"
    [] OTHER                -> "PluginRegistered"

\* RESEND_PLUGIN falls through into the empty ERROR case.
PluginRegisteredToggle(r) ==
  CASE r = "DEVICE_OFFLINE"         -> "DeviceOffline"
    [] r = "SERVER_OFFLINE"         -> "ServerOffline"
    [] r = "WEBSOCKET_DISCONNECTED" -> "WebsocketDisconnected"
    [] r = "AGENT_DISABLED"         -> "AgentDisabled"
    [] r = "RESEND_PLUGIN"          -> "WebsocketConnected"
    [] OTHER                        -> "PluginRegistered"

ResendPluginToggle(r) ==
  IF r = "PLUGIN_REGISTERED" THEN "PluginRegistered" ELSE "ResendPlugin"

\* Decided by mLastState, not by the reason.
ServerOfflineToggle(last) ==
  IF last \in {"PluginRegistered", "WebsocketConnected"}
  THEN "WebsocketConnected"
  ELSE "ServerOffline"

-----------------------------------------------------------------------------

\* The virtual call mCurrentState->toggle(): where state s goes on reason r.
Toggled(s, r, last) ==
  CASE s = "Init"                  -> InitToggle(r)
    [] s = "AgentAlive"            -> AgentAliveToggle(r)
    [] s = "AgentDisabled"         -> AgentDisabledToggle(r)
    [] s = "WebsocketConnected"    -> WebsocketConnectedToggle(r)
    [] s = "DeviceOffline"         -> DeviceOfflineToggle(r)
    [] s = "WebsocketDisconnected" -> WebsocketDisconnectedToggle(r)
    [] s = "PluginRegistered"      -> PluginRegisteredToggle(r)
    [] s = "ResendPlugin"          -> ResendPluginToggle(r)
    [] s = "ServerOffline"         -> ServerOfflineToggle(last)
    [] OTHER                       -> s

\* What toggle() leaves in the object's mReason.
SettledReason(s, r) ==
  CASE s = "PluginRegistered" -> "PLUGIN_REGISTERED"
    [] s = "ResendPlugin"     -> "RESEND_PLUGIN"
    [] OTHER                  -> r
=============================================================================
