\* The times in units of 10 ms, rounded up; a heartbeat after 6 packets and USB
\* after 3 instead of 1000 and 301; a number of three bits.
SPECIFICATION Spec
CONSTANTS
    Blip = 5
    BeaconPause = 20
    LoopPause = 1
    Slack = 1
    HeartbeatAt = 6
    UsbAfter = 2
    SeqWrap = 8
    MaxBursts = 2
INVARIANTS
    TypeOK
    OneLossPerBurst
    SeqTellsLosses
PROPERTIES
    BeatsWithBeacons
