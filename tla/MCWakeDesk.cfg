SPECIFICATION FairSpec
CONSTANTS
    pc1 = pc1
    pc2 = pc2
    NoMachine = NoMachine
    Machines <- MCOneMachine
    MaxInFlight = 2
    MaxBegun = 4
    MaxFound = 2
    Doing <- MCBusy
CHECK_DEADLOCK FALSE
INVARIANT SpinnersAreBacked
INVARIANT WakeAndRemoteDoNotOverlap
PROPERTY SpinnersStop
