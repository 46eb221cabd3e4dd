------------------------------ MODULE MCLifecycle ------------------------------
(***************************************************************************)
(* Lifecycle on small instances: which kind of command each id stands for. *)
(***************************************************************************)
EXTENDS Lifecycle, TLC

CONSTANTS a1, a2, a3, c1, c2, c3, c4

AttemptSymmetry == Permutations(Attempts)

OneStop == [c \in Commands |-> "stop"]

OneRestart == [c \in Commands |-> "restart"]

StopRestart == [c \in Commands |-> IF c = c1 THEN "stop" ELSE "restart"]

AllButRestart ==
  [c \in Commands |-> CASE c = c1 -> "stop"    [] c = c2 -> "return"
                        [] c = c3 -> "archive" [] OTHER -> "restore"]
=============================================================================
