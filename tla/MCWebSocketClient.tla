------------------------- MODULE MCWebSocketClient --------------------------
\* An instance of WebSocketClient for TLC; the .cfg file gives the constants.
EXTENDS WebSocketClient
=============================================================================
