SPECIFICATION FairSpec
CONSTANTS
    d1 = d1
    d2 = d2
    d3 = d3
    d4 = d4
    home = home
    none = none
    NoDevice = NoDevice
    Concurrency = 2
    Devices <- MCDevices
    Sites <- MCSites
    SiteOf <- MCSiteOf
    SiteConcurrency <- MCSiteConcurrency
    Outcomes <- MCOutcomes
CHECK_DEADLOCK FALSE
INVARIANT TypeOK
INVARIANT BoundedWork
INVARIANT NoDuplicateResult
INVARIANT ClosedIsComplete
INVARIANT TruthfulReport
INVARIANT SendNeverBlocks
PROPERTY CancelStartsNothing
PROPERTY Completes
PROPERTY ImplementsContract
