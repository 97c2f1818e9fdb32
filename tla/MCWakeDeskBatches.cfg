SPECIFICATION Spec
CONSTANTS
    pc1 = pc1
    pc2 = pc2
    NoMachine = NoMachine
    Machines <- MCMachines
    MaxInFlight = 2
    MaxBegun = 5
    MaxFound = 0
    Doing <- MCBatches
CHECK_DEADLOCK FALSE
SYMMETRY MCSymmetry
INVARIANT ReplacedIsCancelled
INVARIANT BatchAccounts
INVARIANT RetriesSpareTheCompleted
PROPERTY ResultsRetained
