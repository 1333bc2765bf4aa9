--------------------------- MODULE MCPthreadCond ---------------------------
EXTENDS PthreadCond

CONSTANTS t1, t2, t3

=============================================================================
