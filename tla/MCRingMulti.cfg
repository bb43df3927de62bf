SPECIFICATION FairSpec
CONSTANTS
  Pubs = {p, q}
  Owners = {}
  Streams = {s}
  Topics = {t}
  Handles <- AllHandles
  Blocks = {b1, b2, b3}
  Depth = 1
  CacheSize = 1
  RcMod = 8
  NoBlock = NoBlock
  SeqWriting = SeqWriting
  Dirty = Dirty
  Crashable = {p, s}
  ForceOnLive = FALSE
  MaxSeq = 2
  MaxHeld = 1
INVARIANTS
  TypeOK
  SlotMutex
  SampleIntegrity
  RefcountExact
  OnePlacePerBlock
PROPERTY
  CommitCompletes
CHECK_DEADLOCK FALSE
