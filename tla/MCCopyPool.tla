----------------------------- MODULE MCCopyPool -----------------------------
EXTENDS CopyPool
=============================================================================
