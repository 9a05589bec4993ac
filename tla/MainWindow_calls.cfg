SPECIFICATION FairSpec
CONSTANTS
    MaxCalls = 2
    MaxTicks = 2
    MaxVolumes = 1
    MaxToggles = 2
INVARIANTS TypeOK StateIsCurrent NoStaleDisplay
PROPERTIES WaitsEnd
CHECK_DEADLOCK FALSE
