SPECIFICATION Spec
CONSTANTS
    Endpoint = {e1, e2, e3}
    Frame <- MCFrame
    SendMayBlock = TRUE
    MaxTurns = 4
SYMMETRY Symmetry
INVARIANTS TypeOK RoomIsExact
 
CHECK_DEADLOCK FALSE
