SPECIFICATION FairSpec
CONSTANTS
  Pubs = {o}
  Owners = {o}
  Streams = {s}
  Topics = {t1, t2}
  Handles <- AllHandles
  Blocks = {b1, b2, b3}
  Depth = 2
  CacheSize = 2
  RcMod = 8
  NoBlock = NoBlock
  SeqWriting = SeqWriting
  Dirty = Dirty
  Crashable = {}
  ForceOnLive = FALSE
  MaxSeq = 4
  MaxHeld = 2
INVARIANTS
  SampleIntegrity
  RefcountExact
PROPERTIES
  SkipOnlyLapped
  CommittedIsReceived
