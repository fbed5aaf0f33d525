\* A window of two counters, enough packets to fall out of it, and the lengths
\* of the source.
SPECIFICATION Spec
CONSTANTS
    JumpWindow = 2
    Suites <- MCSuites
    MaxPayload = 32
    HandshakeLimit = 56
    SessionId = 7
    Bodies <- MCBodies
    MaxSent = 4
    MaxDamage = 1
\* Everything is sent, and has arrived or is lost.
CHECK_DEADLOCK FALSE
INVARIANTS
    TypeOK
    AcceptedInOrder
    AcceptedAsSent
    IntactOpens
    ParseAgrees
PROPERTIES
    LockedOutForGood
