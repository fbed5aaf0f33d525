\* A build with overflow checks, every configuration.
SPECIFICATION Spec
CONSTANTS
    TimeMax = 5
    OverflowChecks = TRUE
    Configs <- MCConfigs
    Steps = {1, 2}
    MaxFrames = 4
\* A push that panics ends the program.
CHECK_DEADLOCK FALSE
INVARIANTS
    TypeOK
    StatsAccount
PROPERTIES
    OvertakesOne
    JitterPasses
    ImplementsChannel
