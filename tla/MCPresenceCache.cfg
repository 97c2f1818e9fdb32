SPECIFICATION FairSpec
CONSTANTS
    c1 = c1
    c2 = c2
    c3 = c3
    c4 = c4
    k1 = k1
    k2 = k2
    None = None
    MaxEvictions = 2
    Callers <- MCCallers
    Keys <- MCKeys
    KeyOf <- MCKeyOf
    Forced <- MCForced
    Mortal <- MCMortal
CHECK_DEADLOCK FALSE
PROPERTY ImplementsCacheContract
INVARIANT OnlySoundResultsSpread
PROPERTY EveryCallReturns
