SPECIFICATION Spec
CONSTANTS
    TelemetryTimeout = 1
    Window = 2
    MaxTime = 4
    Plausible <- MCPlausible
    Senders <- MCSenders
    NaN = NaN
    Inf = Inf
    NegInf = NegInf
    Missing = Missing
INVARIANTS
    ShownTogether
    RowsShowTheirBytes
    GuidanceTruthful
    OneFieldIsForgiven
    RateIsTrue
CHECK_DEADLOCK FALSE
