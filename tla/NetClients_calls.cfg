SPECIFICATION ClientSpec
CONSTANTS
    MaxEndpoints = 2
    MaxSends = 4
    MaxHeard = 3
    Datagram <- Boundary
    SocketBuffer = 2
    MaxArrivals = 4
INVARIANTS ClientTypeOK Conserved HeardInOrder NeverStalls WholePackets ReceiverHasItsClient
PROPERTIES DestructorReturns 
CHECK_DEADLOCK FALSE
