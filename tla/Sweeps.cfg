SPECIFICATION SweepsSpec
CONSTANTS
    Sweeps = {s1, s2}
    Ids = {1, 2}
    Calls <- SweepCalls
    MaxTries = 2
    NoCall = NoCall
INVARIANTS TypeOK Accounted SummaryHasSource
PROPERTIES SweepsOnlyFill NothingForgotten SweepsEnd
