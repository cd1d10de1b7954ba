SPECIFICATION FairSpec
CONSTANTS
    Cars <- MCOneCar
    RecordingEnabled = TRUE
    TelemetryTimeout = 1
    EndTimeout = 2
    SampleGap = 1
    MaxTime = 3
    MaxRevision = 2
    MaxObservations = 2
    MaxFailures = 1
    MaxRestarts = 1
    Pill = Pill
    Empty = Empty
    NoEvent = NoEvent
PROPERTIES
    ImplementsStore
    StopEndsWriter
    SilenceEndsSession
CHECK_DEADLOCK FALSE
