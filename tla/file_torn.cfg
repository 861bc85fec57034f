\* A file that is never rotated; the buffer has no room for the newline of the first line.
CONSTANTS
    NumDevices = 1
    Entries = 2
    Broken = {}
    BufSize = 1
    RotateBytes = 0
    RotateKeep = 1
    MaxFails = 1
SPECIFICATION Spec
CHECK_DEADLOCK FALSE
INVARIANT AckedIsReadable
