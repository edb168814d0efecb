SPECIFICATION FairSpec
CONSTANTS
    Configs = {c1, c2, c3}
    ValidConfigs = {c1, c2}
    BootConfigs = {c1, c3}
    EmptyConfig = empty
    MaxSaves = 2
    MaxRestarts = 1
INVARIANTS
    NoRunOnceStopped
    OneThread
    EndsOnlyByItself
PROPERTIES
    JoinReturns
    SavedIsApplied
CHECK_DEADLOCK FALSE
