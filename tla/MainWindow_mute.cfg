SPECIFICATION Spec
CONSTANTS
    MaxCalls = 2
    MaxTicks = 2
    MaxVolumes = 1
    MaxToggles = 2
INVARIANTS MuteHonoured
CHECK_DEADLOCK FALSE
