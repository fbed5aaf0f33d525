\* A tick of three bits, the latch held for 3 ms, iterations up to 2 ms apart, two
\* equal readings to change a line.
SPECIFICATION Spec
CONSTANTS
    StableSamples = 2
    LatchAutoClear = 3
    TickMod = 8
    PollTicks = 2
    BootTicks = {2}
INVARIANTS
    TypeOK
    LcdTruthful
    LatchExpires
PROPERTIES
    Debounced
    LatchHeld
    Recovers
