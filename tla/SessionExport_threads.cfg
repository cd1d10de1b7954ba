SPECIFICATION Spec
CONSTANTS
    Exports <- MCTwoExports
    Pages <- MCNoPages
    MaxSessions = 1
    MaxSamples = 2
    NoThread = NoThread
INVARIANT
    NeverCutShort
CHECK_DEADLOCK FALSE
