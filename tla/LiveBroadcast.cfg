SPECIFICATION FairSpec
CONSTANTS
    Dashboards = {c1, c2}
    Debuggers = {d1}
    MaxClients = 2
    MaxRevision = 2
    Nothing = Nothing
INVARIANTS
    LimitHeld
    SlotsMatchHandlers
PROPERTIES
    NeverBackwards
    CatchesUp
    VanishedIsFreed
