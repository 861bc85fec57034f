\* Two devices: the second uses a connection on which a poll has failed.
CONSTANTS
    NumDevices = 2
    Entries = 2
    Broken = {}
SPECIFICATION Spec
CHECK_DEADLOCK FALSE
INVARIANTS
    AckedWasSent
    GarbledInCycle
    SyslogInvariant
