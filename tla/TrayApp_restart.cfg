SPECIFICATION FairTraySpec
CONSTANTS
    Procs = {p1, p2}
    Faults <- MCRefusedOnly
    TrayFaults <- MCNoFaults
    Handled = {p1}
    MaxLaunches = 1
    NoProc = NoProc
PROPERTY RestartHappens
CHECK_DEADLOCK FALSE
