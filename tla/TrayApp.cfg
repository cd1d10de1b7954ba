SPECIFICATION FairTraySpec
CONSTANTS
    Procs = {p1, p2}
    Faults <- MCAllFaults
    TrayFaults <- MCAllTrayFaults
    Handled = {p1}
    MaxLaunches = 1
    NoProc = NoProc
INVARIANTS
    OneOwner
    NoStaleLock
    PortFollowsLock
    StopOrder
    ServerStopsFirst
PROPERTIES
    StopExits
    ExitCompletes
CHECK_DEADLOCK FALSE
