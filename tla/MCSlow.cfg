SPECIFICATION FairSpec
CONSTANTS
    NumOutPorts = 1
    InPorts = {1, 2}
    NoPort = 255
    MaxPulseCounters = 4
    WaitTimeInMillis = 20
    SchedulerRuns = FALSE
    SleepTicks = 2
    MaxPulses = 2
    Outputs <- MCOutputs
    Counters <- MCCounters
    Meters <- MCMeters
    MinHold <- MCMinHold
INVARIANTS
    NoMissedPulse
PROPERTIES
    EveryOutputSampled
    PulseEventuallyCounted
