--------------------------- MODULE MCEventHandler ---------------------------
EXTENDS EventHandlerRefinement

CONSTANTS c1, c2, w1

MCWf == [c \in InfoClient |-> w1]
=============================================================================
