---------------------------- MODULE MCLuaEvent ----------------------------
EXTENDS LuaEvent

CONSTANTS l1, l2, l3, c1, c2
=============================================================================
