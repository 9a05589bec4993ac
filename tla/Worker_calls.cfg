SPECIFICATION FairSpec
CONSTANTS
    Owner <- Owners
    MaxPolls = 2
    MaxAnswers = 2
INVARIANTS TypeOK  OneVerdict
PROPERTIES StopReturns QuietAfterReturn
CHECK_DEADLOCK FALSE
