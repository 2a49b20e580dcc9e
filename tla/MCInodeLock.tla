----------------------------- MODULE MCInodeLock -----------------------------
EXTENDS InodeLock
=============================================================================
