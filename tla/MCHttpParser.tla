---------------------------- MODULE MCHttpParser -----------------------------
EXTENDS HttpParser
=============================================================================
