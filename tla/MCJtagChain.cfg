SPECIFICATION Spec
CONSTANTS
    Chains <- SmallChains
    DataBits = 3
    HostData = {3}
    HostAddresses = {1, 2}
INVARIANTS
    ScanReaches
    OperatorKnowsChain

