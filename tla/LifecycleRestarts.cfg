CONSTANTS
  a1 = a1 a2 = a2 a3 = a3 c1 = c1 c2 = c2 c3 = c3 c4 = c4
  Nobody = nobody
  Attempts = {a1, a2, a3}
  Commands = {c1, c2}
  KindOf <- StopRestart
  MembersSurvive = TRUE
  MaxDisturbances = 1
SPECIFICATION Spec
SYMMETRY AttemptSymmetry
INVARIANTS OneSiblingPerRestart StoppedIsGone ProcessHoldsSlot
CHECK_DEADLOCK FALSE
