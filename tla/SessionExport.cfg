SPECIFICATION Spec
CONSTANTS
    Exports <- MCOneExport
    Pages <- MCPages
    MaxSessions = 2
    MaxSamples = 3
    NoThread = NoThread
INVARIANTS
    ExportIsPrefix
    ReadsNeverGoBack
    SummaryNotAhead
CHECK_DEADLOCK FALSE
