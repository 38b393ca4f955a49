----------------------------- MODULE MCMcrStart ------------------------------
EXTENDS McrStart
=============================================================================
