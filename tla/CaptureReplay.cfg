SPECIFICATION Spec
CONSTANTS
    Payloads <- MCPayloads
    MaxTime = 2
    MaxPackets = 3
    MaxStarts = 2
    Chunk = 1
INVARIANTS
    LosesAtMostOne
    SpacingKept
    DoneIsTheCapture
CHECK_DEADLOCK FALSE
