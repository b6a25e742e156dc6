SPECIFICATION FairSpec
CONSTANTS
    Duration <- MCDuration
    Reason = {unavailable, not_configured}
    MaxTime = 6
    MaxCorrections = 2
    None = None
INVARIANTS
    TypeOK
    NeverOvercounts
    ClockInv
    WakesForNextDuration
PROPERTIES
    DurationsObserved
