SPECIFICATION Spec
CONSTANTS
    s1 = s1
    s2 = s2
    s0 = s0
    p1 = p1
    p2 = p2
    None = None
    MaxCrashes = 1
    Pids <- MCPids
    Sessions <- MCSessions
    Old <- MCOld
    OldPid = p2
CHECK_DEADLOCK FALSE
INVARIANT LiveSessionsAreUntouched
INVARIANT NothingLeftBehind
INVARIANT OrphansAreReaped
PROPERTY SessionsEnd
