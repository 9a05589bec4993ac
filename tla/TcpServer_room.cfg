SPECIFICATION FairSpec
CONSTANTS
    Session = {s1, s2, s3}
    Request = {"LoginRequest", "LogoutRequest", "AudioMessage"}
    TraceCycle = 2
    MaxPackets = 2
INVARIANTS TypeOK WritesInOrder MembersAreServed
PROPERTIES  PlaceComesFree
CHECK_DEADLOCK FALSE
