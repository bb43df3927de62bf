SPECIFICATION Spec
CONSTANTS
  Pubs = {p, q}
  Owners = {}
  Streams = {s}
  Topics = {t}
  Handles <- AllHandles
  Blocks = {b1, b2, b3}
  Depth = 1
  CacheSize = 1
  RcMod = 8
  NoBlock = NoBlock
  SeqWriting = SeqWriting
  Dirty = Dirty
  Crashable = {}
  ForceOnLive = TRUE
  MaxSeq = 3
  MaxHeld = 1
SYMMETRY Symmetry
INVARIANT
  HeldBlockUntouched
