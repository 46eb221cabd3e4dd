--------------------------- MODULE MCDispatchSteady ---------------------------
EXTENDS DispatchSteady

CONSTANTS i1, r1, s1

OneRepository == [i \in Issues |-> r1]
Ranks == [i \in Issues |-> 1]
CommandKinds == [c \in Commands |-> "start"]
=============================================================================
