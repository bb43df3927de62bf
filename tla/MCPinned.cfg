SPECIFICATION Spec
CONSTANTS
  p1 = p1
  p2 = p2
  s1 = s1
  s2 = s2
  b1 = b1
  b2 = b2
  NoBlock = NoBlock
  Writer = Writer
  Dirty = Dirty
  Pubs = {p1, p2}
  Streams = {s1, s2}
  Blocks = {b1, b2}
  Lens = {0, 1}
  SeqMod = 2
  MaxSeq = 3
SYMMETRY Symmetry
CHECK_DEADLOCK FALSE
INVARIANTS
  TypeOK
  PinnedExclusion
  GuardIntegrity
PROPERTIES
  GuardStable
