SPECIFICATION FaultySpec
CONSTANTS
    NumOutPorts = 2
    InPorts = {1, 2}
    NoPort = 255
    MaxPulseCounters = 4
    WaitTimeInMillis = 20
    SchedulerRuns = FALSE
    SleepTicks = 1
    MaxPulses = 1
    MaxFaults = 1
    Outputs <- MCOutputs
    Counters <- MCCounters
    Meters <- MCMeters
    MinHold <- MCMinHold
INVARIANTS
    TypeOK
    FalseEdgesBounded
    EveryEdgeCounted
    RecountBound
