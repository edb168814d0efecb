SPECIFICATION Spec
CONSTANTS
    NumOutPorts = 2
    InPorts = {1, 2}
    NoPort = 255
    MaxPulseCounters = 3
    WaitTimeInMillis = 20
    SchedulerRuns = TRUE
    SleepTicks = 1
    MaxPulses = 1
    Outputs <- MCOutputs
    Counters <- MCCounters
    Meters <- MCMeters
    MinHold <- MCMinHold
INVARIANTS
    NoPhantomPulse
    ReportedOnce
PROPERTIES
    KeepsPromise
