SPECIFICATION FairSpec
CONSTANTS
    CLIs = {c1, c2}
    Insts = {i1, i2, i3, i4}
    NoRec = NoRec
    NoInst = NoInst
    Free = Free
    Ops = {"run", "kill", "stop", "rm", "rerun"}
    Modes = {"fg", "startup"}
    Limits = FALSE
    ProcessesMayCrash = FALSE
    PlacementMayFail = FALSE
    MayHang = FALSE
    MaxExits = 1
INVARIANT DaemonRunsOne
PROPERTY LockIsReleased
PROPERTY StartupIsRecovered
CHECK_DEADLOCK FALSE
