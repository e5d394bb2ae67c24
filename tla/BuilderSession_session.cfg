SPECIFICATION FairSession
CONSTANTS
  None = None
  h1 = h1
  h2 = h2
  b1 = b1
  b2 = b2
  p1 = p1
  Handlers = {h1, h2}
  Unlucky = {b1}
  Builders = {b1, b2}
  Paths = {p1}
  Derivation = p1
  MaxNonces = 2
  Digests <- SessionDigests
  CommitRequests <- SessionCommits
  RevealRequests <- SessionReveals
  StatusRequests <- SessionPolls
  MinimumBuilders = 1
  CommitWindow = 1
  RevealWindow = 1
  MaxRounds = 2
  LastCommit = 0
  MaxClock = 2
  MaxFailures = 0
  MaxLosses = 1
  MaxBusy = 1
CHECK_DEADLOCK FALSE
INVARIANT SessionTypeOK
INVARIANT DoneIsBacked
INVARIANT OneRoundPerBuild
PROPERTY LeavesRound
