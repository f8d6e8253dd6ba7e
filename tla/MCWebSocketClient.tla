------------------------- MODULE MCWebSocketClient -------------------------
(***************************************************************************)
(* Small instances of WebSocketClient for TLC.                             *)
(***************************************************************************)
EXTENDS WebSocketClient, TLC

\* Registration threads are interchangeable.
UpdaterSymmetry == Permutations(Updaters)
=============================================================================
