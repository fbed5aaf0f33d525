\* Careful and free callers; frames of two sessions on their way.
SPECIFICATION LinkSpec
CONSTANTS
    Threshold = 4
    CounterMod = 5
    Salts = {s1, s2}
    Callers = {"careful", "free"}
    JumpWindow = 2
    MacLen = 16
    MaxPayload = 32
    HandshakeLimit = 56
    MaxAir = 2
SYMMETRY MCSymmetry
\* A keyboard that is off, with no salt left and nothing in the air, stays off.
CHECK_DEADLOCK FALSE
INVARIANTS
    LinkTypeOK
    NonceUsedOnce
    AheadOfIssued
    AcceptedOnce
    NextGetsThrough
PROPERTIES
    CountersIncrease
    SpentForGood
    PacketCountersInRange
