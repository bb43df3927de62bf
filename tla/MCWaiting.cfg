SPECIFICATION FairSpec
CONSTANTS
  p = p
  s = s
  t = t
  Pubs = {p}
  Crashable = {p}
  Streams = {s, t}
  Modes = {"ring", "pinned"}
  Strategies <- OneSpins
  Depth = 1
  WordMod = 2
  SpinBudget = 1
  CheckEvery = 2
  IterMax = 3
  MaxSeq = 2
CHECK_DEADLOCK FALSE
INVARIANTS
  TypeOK
  SleepersCounted
PROPERTIES
  RecvReturns
  DeathReported
