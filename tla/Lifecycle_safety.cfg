SPECIFICATION Spec
CONSTANTS
    CLIs = {c1, c2}
    Insts = {i1, i2, i3, i4}
    NoRec = NoRec
    NoInst = NoInst
    Free = Free
    Ops = {"run", "kill", "stop", "rm", "rerun"}
    Modes = {"fg", "fgrm", "bg", "startup"}
    Limits = TRUE
    ProcessesMayCrash = TRUE
    PlacementMayFail = TRUE
    MayHang = TRUE
    MaxExits = 2
SYMMETRY Symmetry
INVARIANT TypeOK
INVARIANT OneInstance
INVARIANT StopSticks
INVARIANT ResourcesKept
CHECK_DEADLOCK FALSE
