SPECIFICATION Spec
CONSTANTS
  None = None
  h1 = h1
  h2 = h2
  b1 = b1
  b2 = b2
  b3 = b3
  p1 = p1
  p2 = p2
  Handlers = {h1, h2}
  Builders = {b1, b2}
  Paths = {p1}
  Digests <- HonestDigests
  CommitRequests <- HonestCommits
  RevealRequests <- HonestReveals
  StatusRequests <- NoRequests
  MinimumBuilders = 1
  CommitWindow = 1
  RevealWindow = 1
  MaxRounds = 2
  LastCommit = 0
  MaxClock = 2
  MaxFailures = 0
SYMMETRY Symmetry
PROPERTY RevealPhaseCloses
