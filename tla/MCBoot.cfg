SPECIFICATION FairSpec
CONSTANTS
    Configs = {"complete", "other", "incomplete", "empty"}
    ValidConfigs = {"complete", "other"}
    Unread = "empty"
    MaxRestarts = 1
INVARIANTS
    BootFollowsAnswer
PROPERTIES
    EveryBootEnds
    ButtonBringsServer
    SavedStartsScheduler
