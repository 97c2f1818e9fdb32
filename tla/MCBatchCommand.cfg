SPECIFICATION BatchSpec
CONSTANTS
    d1 = d1
    d2 = d2
    d3 = d3
    home = home
    NoDevice = NoDevice
    Concurrency = 2
    Devices <- MCDevices
    Sites <- MCSites
    SiteOf <- MCSiteOf
    SiteConcurrency <- MCSiteConcurrency
    Outcomes <- MCOutcomes
    Success <- MCSuccess
CHECK_DEADLOCK FALSE
INVARIANT ExitCodeTellsTruth
INVARIANT InterruptedReportsAll
PROPERTY BatchEnds
