--------------------------- MODULE MCSignalParent ---------------------------
EXTENDS SignalParent
=============================================================================
