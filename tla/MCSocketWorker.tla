--------------------------- MODULE MCSocketWorker ---------------------------
EXTENDS SocketWorker
=============================================================================
