SPECIFICATION FairSpec
CONSTANTS
    a = a
    b = b
    c1 = c1
    c2 = c2
    Peers <- TwoPeers
    Calls <- TwoCalls
    Caller <- FromEach
    Callee <- ToEach
    Requesters <- OnlyB
    Certified <- OnlyA
    MaxSessions <- RoomAtA
    MaxNonces = 2
    Repeated <- FromA
INVARIANTS
    TypeOK SessionsAgree DispatchedOnce NoLostWakeup HandshakeTidy 
PROPERTIES
    EstablishedKept
    Settles
CHECK_DEADLOCK FALSE
