------------------------------ MODULE MCDispatch ------------------------------
EXTENDS Dispatch

CONSTANTS i1, i2, r1, r2, s1, n1, t1

OneRepository == [i \in Issues |-> r1]
TwoRepositories == [i \in Issues |-> IF i = i1 THEN r1 ELSE r2]
Ranks == [i \in Issues |-> IF i = i1 THEN 1 ELSE 2]
CommandKinds == [c \in Commands |-> CASE c = s1 -> "start"
                                      [] c = n1 -> "next"
                                      [] OTHER -> "restart"]
=============================================================================
