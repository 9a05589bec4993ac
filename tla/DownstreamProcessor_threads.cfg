SPECIFICATION Spec
CONSTANTS
    Capacity = 2
    Timestamp = {1, 2}
    SerialNumber = {1}
    MaxPackets = 4
    MaxFetches = 6
INVARIANTS TypeOK DelayBound 
 
CHECK_DEADLOCK FALSE
