------------------------- MODULE MCSocketStateFrame -------------------------
EXTENDS SocketStateFrame
=============================================================================
