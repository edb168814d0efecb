SPECIFICATION Spec
CONSTANTS
    HoursPerDay = 24
    MinutesPerHour = 60
    SecondsPerMinute = 60
    Schedules <- MCSchedules
    Starts <- MCStarts
    Took = {0, 1}
    Late = {0, 2}
    RunMillis = {0, 400}
    Shifts = {}
    Waited = {}
    MaxDisturbed = 0
    MaxDays = 2
INVARIANTS
    KeepsRunning
CHECK_DEADLOCK FALSE
