SPECIFICATION ConsensusSpec
CONSTANTS
  None = None
  b1 = b1
  b2 = b2
  b3 = b3
  p1 = p1
  v1 = v1
  v2 = v2
  Builders = {b1, b2, b3}
  Paths = {p1}
  Variants = {v1, v2}
  Claims <- OneOutput
  Times = {1, 2}
  MinimumBuilders = 2
  MaxRounds = 2
  MaxCommitments = 4
  MaxMoves = 1
SYMMETRY Symmetry
INVARIANT ApprovedIsBacked
INVARIANT LatestWins
INVARIANT QuietAnswerIsRight
