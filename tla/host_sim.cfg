\* Jitter below, at and above the 2 ms of a step, and on both sides of what
\* overflows the clock; counters to resume from on both sides of the default and
\* of the threshold.
SPECIFICATION Spec
CONSTANTS
    DefaultSalt = default
    OtherSalt = other
    Jitters = {0, 1, 2, 3, 5, 27, 28, 31}
    ResumeCounters = {0, 1, 3, 15, 16}
    Threshold = 16
    CounterMod = 32
    TimeMax = 31
    OverflowChecks = TRUE
    JumpWindow = 50
    MacLen = 16
    MaxPayload = 32
    HandshakeLimit = 56
\* The program ends.
CHECK_DEADLOCK FALSE
INVARIANTS
    TypeOK
    WarmWakeFresh
    AttemptsAccount
    SamplesSound
