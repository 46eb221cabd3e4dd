CONSTANTS
  a1 = a1 a2 = a2 a3 = a3 c1 = c1 c2 = c2 c3 = c3 c4 = c4
  Nobody = nobody
  Attempts = {a1, a2}
  Commands = {c1}
  KindOf <- OneRestart
  MembersSurvive = FALSE
  MaxDisturbances = 2
SPECIFICATION FairSpec
PROPERTY StartupCompletes
CHECK_DEADLOCK FALSE
