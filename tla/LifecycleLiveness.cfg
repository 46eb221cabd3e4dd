CONSTANTS
  a1 = a1 a2 = a2 a3 = a3 c1 = c1 c2 = c2 c3 = c3 c4 = c4
  Nobody = nobody
  Attempts = {a1}
  Commands = {c1, c2, c3, c4}
  KindOf <- AllButRestart
  MembersSurvive = FALSE
  MaxDisturbances = 2
SPECIFICATION FairSpec
INVARIANTS TypeOK ConsequenceOnce ProcessHoldsSlot ReturnedHasNoPullRequest
PROPERTY CommandsFinish
CHECK_DEADLOCK FALSE
