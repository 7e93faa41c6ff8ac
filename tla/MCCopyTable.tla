---------------------------- MODULE MCCopyTable -----------------------------
EXTENDS CopyTable
=============================================================================
