SPECIFICATION Spec
CONSTANTS
  QNum = 2
  IdxMod = 4
  Kinds = {"blk", "net", "vhost"}
  Server = {s1, s2}
  RxServer = {r1, r2}
  Bounds <- MCBounds
  TornResets = FALSE
  CPU = {c1, c2}
  MaxSignals = 2
  MaxExits = 2
  MaxInput = 3
  MaxOutput = 1
  MaxClears = 3
INVARIANTS
  QueueSafe MachineSafe UartSafe
PROPERTIES
  QueuesServe ChainsAreServed 
CHECK_DEADLOCK FALSE
