------------------------------ MODULE MCRuntime ------------------------------
EXTENDS Runtime
CONSTANTS a1, a2
MCOrder == <<a1, a2>>
MCSeveral == {a2}
=============================================================================
