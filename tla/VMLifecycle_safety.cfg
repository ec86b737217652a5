\* Two commands of every kind, recovery, one fault, failing and hanging VMMs.
SPECIFICATION Spec
CONSTANTS
    CLIs = {c1, c2}
    Insts = {i1, i2}
    NoRec = NoRec
    NoPid = NoPid
    Free = Free
    Ops = {"run", "kill", "stop", "rm"}
    Modes = {"fg", "fgrm", "bg", "bgrm", "startup"}
    ProcessesMayCrash = TRUE
    PlacementMayFail = TRUE
    MayHang = TRUE
    MaxFaults = 1
SYMMETRY Symmetry
INVARIANT VMSafe
PROPERTY ComesBackByRun
CHECK_DEADLOCK FALSE
