SPECIFICATION PipelineSpec
CONSTANTS
  Blank = Blank
  TooLong = TooLong
  Spaced = Spaced
  None = None
  b1 = b1
  b2 = b2
  b3 = b3
  b4 = b4
  flake = flake
  attribute = attribute
  drv1 = drv1
  drv2 = drv2
  dev = dev
  out = out
  x = x
  y = y
  z = z
  quiet = quiet
  loud = loud
  MaxInteger = 1
  Commands <- SomeCommands
  BuilderIds = {b1, Blank, TooLong}
  LocationLists <- SomeLocations
  Metadata <- SomeMetadata
  DerivationSets <- SomeDerivations
  BuildResults <- SomeResults
  PathInfos <- SomeInfos
  Logs <- SomeLogs
  Moments = {0, 1}
  OtherEvidences <- OthersMaySend
CHECK_DEADLOCK FALSE
INVARIANT StoredWhole
INVARIANT ReadBackOpensDigest
INVARIANT CommittedIsAccepted
INVARIANT TrustFollowsEvidence
