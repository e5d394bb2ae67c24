SPECIFICATION FairSpec
CONSTANTS
  None = None
  Internal = Internal
  c1 = c1
  c2 = c2
  c3 = c3
  n1 = n1
  n2 = n2
  Clients = {c1, c2}
  Nodes = {n1, n2}
  QueueCapacity = 1
  MaxJobs = 3
  MaxPanics = 1
CHECK_DEADLOCK FALSE
INVARIANT TypeOK
INVARIANT SnapshotAgrees
INVARIANT NodeCountsAddUp
INVARIANT FreeUnlessAbandoned
PROPERTY QueuedJobsComplete
