\* Three devices, the first of them unreachable or with events the receiver rejects.
CONSTANTS
    NumDevices = 3
    Entries = 3
    Broken = {2}
    MaxBatch = 2
    Poison = {1}
SPECIFICATION Spec
CHECK_DEADLOCK FALSE
INVARIANTS
    AckedIsAccepted
    OnlyOwnEvents
    HecInvariant
PROPERTIES
    EveryDeviceServed
    Stops
