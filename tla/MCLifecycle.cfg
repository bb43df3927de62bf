SPECIFICATION FairSpec
CONSTANTS
  a = a
  b = b
  c = c
  srv = srv
  cli = cli
  bus = bus
  Procs = {a, b, c}
  Names = {srv, cli, bus}
  BusNames = {bus}
  Files = {f1, f2, f3, f4}
  LockFiles = {l1, l2, l3}
  None = None
  Scenarios <- AllScenarios
  Crashable = {a}
  Peer <- PeerOf
  MaxSend = 1
INVARIANTS
  TypeOK
  NameHeld
  AttachedReady
PROPERTIES
  PeersMeet
  SentIsReceived
CHECK_DEADLOCK FALSE
