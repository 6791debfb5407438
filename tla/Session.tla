------------------------------- MODULE Session ------------------------------
(***************************************************************************)
(* What a WebSocketClient promises the application that installs onopen,   *)
(* onmessage and onclose: the order of the callbacks, as the comment over  *)
(* WebSocketClient::open lays it out.  lastcb is the callback invoked last. *)
(*                                                                         *)
(*     none -> onopen -> onmessage* -> onclose        none -> onclose      *)
(***************************************************************************)
VARIABLE lastcb

SInit == lastcb = "none"

Opened == lastcb = "none" /\ lastcb' = "onopen"

Message == lastcb \in {"onopen", "onmessage"} /\ lastcb' = "onmessage"

Closed == lastcb # "onclose" /\ lastcb' = "onclose"

SNext == Opened \/ Message \/ Closed

SSpec == SInit /\ [][SNext]_lastcb
=============================================================================
