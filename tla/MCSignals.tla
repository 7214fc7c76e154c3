------------------------------- MODULE MCSignals -------------------------------
EXTENDS Signals
=============================================================================
