SPECIFICATION Spec
CONSTANTS
    Now = 100000
    Ages = {0, 59, 60, 3599, 7200}
    Counters <- MCCounters
    TableSize = 3
    MaxRuns = 2
    MaxPulses = 1
    Messages = {refused, tls, socket}
    MAX_ERRORS = 2
    MaxReports = 3
SYMMETRY MessageSymmetry
INVARIANTS
    PayloadIsBatch
    DeliveredOnce
    TablesInBounds
    StatusShown
    ErrorsAccounted
PROPERTIES
    ResetDiscardsNothing
