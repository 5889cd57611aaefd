---------------------------- MODULE MCEventLoop -----------------------------
EXTENDS EventLoopProperties
=============================================================================
