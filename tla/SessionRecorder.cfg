SPECIFICATION Spec
CONSTANTS
    Cars <- MCCars
    RecordingEnabled = TRUE
    TelemetryTimeout = 1
    EndTimeout = 2
    SampleGap = 2
    MaxTime = 4
    MaxRevision = 3
    MaxObservations = 3
    MaxFailures = 1
    MaxRestarts = 0
    Pill = Pill
    Empty = Empty
    NoEvent = NoEvent
INVARIANTS
    TypeOK
    NewestKept
    DropsAccounted
    OnlyLastOpen
    RecordedOnce
    StatusFollows
    SpansAreTight
CHECK_DEADLOCK FALSE
