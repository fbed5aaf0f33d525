\* Every radio and every pace.
SPECIFICATION Spec
CONSTANTS
    Flows <- MCAllFlows
    MaxRetransmit = 1
    SessionId = 7
    Salt = salt
    Threshold = 16
    CounterMod = 32
    TimeMax = 31
    OverflowChecks = TRUE
    JumpWindow = 50
    MacLen = 16
    MaxPayload = 32
    HandshakeLimit = 56
\* The loop ends.
CHECK_DEADLOCK FALSE
INVARIANTS
    TypeOK
    LatencyBounded
    NonceBindsPacket
    NeverFails
PROPERTIES
    ImplementsPromise
