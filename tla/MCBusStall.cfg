SPECIFICATION FairSpec
CONSTANTS
  l = l
  r = r
  Torn = Torn
  NoPid = NoPid
  Subs = {r}
  Local = {}
  Crashable = {}
  RingSize = 2
  Watermarks = {0}
  Unbounded = Unbounded
  SlotCounts = {1}
  MaxSeq = 4
CHECK_DEADLOCK FALSE
PROPERTIES
  PublishCompletes
