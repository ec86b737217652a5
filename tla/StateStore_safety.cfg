SPECIFICATION Spec
CONSTANTS
    Names = {n1}
    Clients = {c1}
    Absent = Absent
    MaxWrites = 2
    MaxEvents = 2
    DaemonMayCrash = TRUE
    WatcherMayDie = TRUE
    TimeoutsHappen = TRUE
    WritesMayFail = FALSE
INVARIANTS
    TypeOK
    UpdatePending
    RemovalPending
PROPERTY
    GenerationsMoveForward
