SPECIFICATION FairSpec
CONSTANTS
    ValidConfigs <- MCValidConfigs
    MaxPosts = 3
    NumOuts = 2
    NumIns = 2
    Slots = 4
    INT_MAX = 2000
INVARIANTS
    OnlyStored
    ShownAgain
    DeviceAsShown
    SlotsServe
    OutputsReachable
PROPERTIES
    NeverBackwards
    RequestedIsApplied
    KeepsRegister
CHECK_DEADLOCK FALSE
