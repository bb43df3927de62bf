SPECIFICATION Spec
CONSTANTS
  BlockCount = 3
  Clients = {c1, c2, c3}
  NoBlock = NoBlock
  GenMod = 5
SYMMETRY Symmetry
INVARIANTS
  TypeOK
  FreeListIntact
  ExclusiveAllocation
PROPERTY
  ImplementsPool
