CONSTANTS
  i1 = i1 r1 = r1 s1 = s1
  Poller = poller
  Issues = {i1}
  Repositories = {r1}
  RepositoryOf <- OneRepository
  Rank <- Ranks
  Commands = {s1}
  KindOf <- CommandKinds
  Resumers = {}
  Clients = {c1}
  Slots = 1
  FetchLimit = 1
  MaxAttempts = 3
  MaxTenures = 3
  MaxDisturbances = 3
SPECIFICATION SteadySpec
PROPERTIES SteadyIssueNotRetried
CHECK_DEADLOCK FALSE
