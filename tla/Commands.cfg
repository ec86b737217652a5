SPECIFICATION Spec
CONSTANTS
  Client = {"c", "d"}
  MaxInst = 2
  Scenarios <- MCScenarios
  PtyBuf = 1
  SockBuf = 1
  Key = {"p", "q", "e", "x"}
  MaxKeys = 4
  MaxChunk = 2
  ChanCap = 2
  FrameMod = 4
  Builder = {"p", "q"}
  Jobs <- MCJobs
  MaxStage = 3
  MaxTrouble = 2
INVARIANTS
  ConsoleSafe KeysSafe 
PROPERTIES
  ConsoleServes
CHECK_DEADLOCK FALSE
