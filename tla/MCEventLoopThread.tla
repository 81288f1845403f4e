------------------------- MODULE MCEventLoopThread -------------------------
EXTENDS EventLoopThread

CONSTANTS main, c1, c2
=============================================================================
