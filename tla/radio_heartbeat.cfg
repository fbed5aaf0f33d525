\* As radio_link.cfg.
SPECIFICATION Spec
CONSTANTS
    Blip = 5
    BeaconPause = 20
    LoopPause = 1
    Slack = 1
    HeartbeatAt = 6
    UsbAfter = 2
    SeqWrap = 8
    MaxBursts = 2
PROPERTIES
    BeatsWithoutPackets
