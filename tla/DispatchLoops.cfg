CONSTANTS
  i1 = i1 i2 = i2 r1 = r1 r2 = r2 s1 = s1 n1 = n1 t1 = t1
  Poller = poller
  Issues = {i1, i2}
  Repositories = {r1, r2}
  RepositoryOf <- TwoRepositories
  Rank <- Ranks
  Commands = {}
  KindOf <- CommandKinds
  Resumers = {l1}
  Clients = {c1}
  Slots = 1
  FetchLimit = 2
  MaxAttempts = 4
  MaxTenures = 1
  MaxDisturbances = 1
SPECIFICATION Spec
INVARIANTS QueueConsistent CapacityRespected LossObserved
PROPERTIES ClosedDispatchReservesNothing FifoAcrossPolls
CHECK_DEADLOCK FALSE
