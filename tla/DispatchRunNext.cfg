CONSTANTS
  i1 = i1 i2 = i2 r1 = r1 r2 = r2 s1 = s1 n1 = n1 t1 = t1
  Poller = poller
  Issues = {i1, i2}
  Repositories = {r1}
  RepositoryOf <- OneRepository
  Rank <- Ranks
  Commands = {n1}
  KindOf <- CommandKinds
  Resumers = {}
  Clients = {c1}
  Slots = 1
  FetchLimit = 2
  MaxAttempts = 2
  MaxTenures = 1
  MaxDisturbances = 0
SPECIFICATION Spec
INVARIANT NextStartNotRetried
CHECK_DEADLOCK FALSE
