SPECIFICATION FairSpec
CONSTANTS
    MaxStarts = 2
    MaxWorkers = 2
    Block = 2
    Reads = {1}
    MaxPcm = 2
    Frame <- MCFrame
INVARIANTS TypeOK OneRoundLeft CrashIsExplained 
PROPERTIES StoppedFallsSilent
CHECK_DEADLOCK FALSE
