---------------------------- MODULE MCTuiSession ----------------------------
EXTENDS TuiSession
=============================================================================
