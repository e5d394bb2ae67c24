SPECIFICATION ConsensusSpec
CONSTANTS
  None = None
  b1 = b1
  b2 = b2
  b3 = b3
  p1 = p1
  v1 = v1
  v2 = v2
  Builders = {b1, b2}
  Paths = {p1}
  Variants = {v1, v2}
  Claims <- OneOutput
  Times = {1, 2}
  MinimumBuilders = 1
  MaxRounds = 2
  MaxCommitments = 3
  MaxMoves = 2
SYMMETRY Symmetry
INVARIANT ApprovedHadTheLead
