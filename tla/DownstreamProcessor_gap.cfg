SPECIFICATION Spec
CONSTANTS
    Capacity = 2
    Timestamp = {1, 2}
    SerialNumber = {1, 2, 3}
    MaxPackets = 4
    MaxFetches = 6
PROPERTY GapReported
CHECK_DEADLOCK FALSE
