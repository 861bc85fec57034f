\* A file that is full after one line, three rolled files, a buffer of one line.
CONSTANTS
    NumDevices = 2
    Entries = 2
    Broken = {}
    BufSize = 2
    RotateBytes = 2
    RotateKeep = 3
    MaxFails = 2
SPECIFICATION Spec
CHECK_DEADLOCK FALSE
INVARIANTS
    AckedIsDurable
    RotationDropsOldest
    FileInvariant
