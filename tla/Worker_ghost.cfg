SPECIFICATION Spec
CONSTANTS
    Owner <- Desktops
    MaxPolls = 2
    MaxAnswers = 1
INVARIANT LeavesRoom
CHECK_DEADLOCK FALSE
