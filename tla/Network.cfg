SPECIFICATION NwSpec
CONSTANTS
  Cont = {"a", "b"}
  Startup = {"b"}
  LastIP = 4
  MaxRuns = 3
  Families = {"v4", "na", "pd"}
  DhcpServer = {"s1", "s2"}
  Pool <- MCPool
  LeaseTimes <- MCLeaseTimes
  ObtainTicks = 1
  MaxWire = 1
  Prefix = {"p", "q"}
  Native = {"c"}
  VM = {"v"}
  MaxChanges = 2
  MaxFails = 1
  MaxStarts = 1
  Router = {"r1", "r2"}
  RaPrefix = {"p", "q"}
  Valid <- MCValid
  BurstGap = 0
  ConfirmDelay = 1
  SolicitGap = 2
  MissTimeout = 2
  WithdrawKeep = 3
  MissLimit = 2
  RaMaxRouters = 2
  FirstPrefix = "p"
  FirstAdverts <- MCFirstAdverts
  MaxNow = 4
  MaxAdverts = 4
  MaxRenumbers = 1
INVARIANTS
  LinksSafe LeaseSafe RenumberSafe 
PROPERTIES
  CancelEndsLoop Converges
CHECK_DEADLOCK FALSE
