---------------------------- MODULE MCToolCache ----------------------------
EXTENDS ToolCache
=============================================================================
