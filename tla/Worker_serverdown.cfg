SPECIFICATION FairSpec
CONSTANTS
    Owner <- Desktops
    MaxPolls = 2
    MaxAnswers = 1
PROPERTY ServerDownNoticed
CHECK_DEADLOCK FALSE
