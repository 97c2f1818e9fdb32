SPECIFICATION Spec
CONSTANTS
    pc1 = pc1
    pc2 = pc2
    NoMachine = NoMachine
    Machines <- MCOneMachine
    MaxInFlight = 3
    MaxBegun = 4
    MaxFound = 0
    Doing <- MCPower
CHECK_DEADLOCK FALSE
INVARIANT ActionsDoNotOverlap
