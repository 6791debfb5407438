------------------------------ MODULE MCClient ------------------------------
EXTENDS WebSocketClient
=============================================================================
