SPECIFICATION Spec
CONSTANTS
    Window = 2
    MaxTime = 3
    MaxPackets = 3
    None = None
INVARIANT PublisherSurvives
CHECK_DEADLOCK FALSE
