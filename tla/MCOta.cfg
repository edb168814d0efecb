SPECIFICATION FairSpec
CONSTANTS
    Pages <- MCPages
    NoPage = "none"
    Size <- MCSize
    NumChunks = 3
    BufferSize = 2
    MaxUploads = 3
    MaxFaults = 2
INVARIANTS BufferHeld BootsOnlyWhole
PROPERTY FirstUploadInstalls
CHECK_DEADLOCK FALSE
