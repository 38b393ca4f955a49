----------------------------- MODULE MCHttpConn ------------------------------
EXTENDS HttpConn
=============================================================================
