CONSTANTS
  i1 = i1 i2 = i2 r1 = r1 r2 = r2 s1 = s1 n1 = n1 t1 = t1
  Poller = poller
  Issues = {i1}
  Repositories = {r1}
  RepositoryOf <- OneRepository
  Rank <- Ranks
  Commands = {s1}
  KindOf <- CommandKinds
  Resumers = {}
  Clients = {c1, c2}
  Slots = 2
  FetchLimit = 2
  MaxAttempts = 4
  MaxTenures = 2
  MaxDisturbances = 1
SPECIFICATION Spec
INVARIANTS TypeOK QueueConsistent OneActiveAttempt StartedOnce TenureAdmitsOnce QueuedStartNotRetried
PROPERTIES ReceiptsDurable
CHECK_DEADLOCK FALSE
