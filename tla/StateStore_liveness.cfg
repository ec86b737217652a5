SPECIFICATION FairSpec
CONSTANTS
    Names = {n1}
    Clients = {c1}
    Absent = Absent
    MaxWrites = 2
    MaxEvents = 1
    DaemonMayCrash = TRUE
    WatcherMayDie = TRUE
    TimeoutsHappen = FALSE
    WritesMayFail = TRUE
PROPERTIES
    GhostsAreReaped
    UnknownFilesAreLoaded
