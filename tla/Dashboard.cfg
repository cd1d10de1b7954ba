SPECIFICATION FairSpec
CONSTANTS
    Events <- MCEvents
    Fetches = {f1, f2}
    MaxNews = 3
    MaxWire = 2
    MaxFailures = 8
INVARIANTS
    OneAttempt
    BacksOff
PROPERTY CatchesUp
