------------------------------ MODULE MCSyncRun -----------------------------
EXTENDS SyncRun
=============================================================================
