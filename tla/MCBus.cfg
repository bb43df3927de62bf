SPECIFICATION FairSpec
CONSTANTS
  l = l
  r = r
  Torn = Torn
  NoPid = NoPid
  Subs = {l, r}
  Local = {l}
  Crashable = {r}
  RingSize = 2
  Watermarks = {0}
  Unbounded = Unbounded
  SlotCounts = {1, 2}
  MaxSeq = 3
CHECK_DEADLOCK FALSE
INVARIANTS
  TypeOK
  LosslessLocal
  LocalSlotKept
PROPERTIES
  ImplementsBroadcast
  PublishCompletesLocal
