SPECIFICATION FairSpec
CONSTANTS
    Insts = {i1, i2}
    Sessions = {s1, s2}
    None = None
    NoRec = NoRec
    NoInst = NoInst
    Kinds = {"net", "unix"}
    MaxBoots = 1
INVARIANT ForwardsSafe
PROPERTY WaitersSpareOthers
PROPERTY PortIsReleased
CHECK_DEADLOCK FALSE
