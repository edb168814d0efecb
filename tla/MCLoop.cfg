SPECIFICATION Spec
CONSTANTS
    HoursPerDay = 2
    MinutesPerHour = 3
    SecondsPerMinute = 5
    Schedules <- MCSchedules
    Starts <- MCStarts
    Took = {0, 1}
    Late = {2}
    RunMillis = {400}
    Shifts <- MCShifts
    Waited = {700}
    MaxDisturbed = 1
    MaxDays = 1
INVARIANTS
    EveryRunIsDue
    NextRunExact
    RefusedOnlyAtLongestGap
    ResaveKeeps
CHECK_DEADLOCK FALSE
