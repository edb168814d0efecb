SPECIFICATION Spec
CONSTANTS
    Now = 100000
    Ages = {0}
    Counters <- MCCounters
    TableSize = 3
    MaxRuns = 1
    MaxPulses = 1
    Messages = {"refused", "tls", "socket"}
    MAX_ERRORS = 2
    MaxReports = 1
INVARIANTS
    ResultsKept
