SPECIFICATION Spec
CONSTANTS
    CLIs = {c1, c2}
    Insts = {i1, i2, i3, i4}
    NoRec = NoRec
    NoInst = NoInst
    Free = Free
    Ops = {"run", "rerun"}
    Modes = {"bg"}
    Limits = FALSE
    ProcessesMayCrash = FALSE
    PlacementMayFail = FALSE
    MayHang = FALSE
    MaxExits = 1
SYMMETRY Symmetry
INVARIANT OneLiveInstance
CHECK_DEADLOCK FALSE
