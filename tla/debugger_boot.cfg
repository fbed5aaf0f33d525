\* As debugger.cfg, for the latch that the boot sets.
SPECIFICATION Spec
CONSTANTS
    StableSamples = 3
    LatchAutoClear = 4
    TickMod = 8
    PollTicks = 2
    BootTicks = {2}
PROPERTIES
    BootLatchHeld
