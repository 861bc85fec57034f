\* One writer, processes and the machine failing at any call.
CONSTANTS
    Writers = {w1}
    DeviceStates = {v1, v2}
    Absent = Absent
    Torn = Torn
    PowerMayFail = TRUE
    MaxInodes = 4
SPECIFICATION Spec
INVARIANTS
    NeverTorn
    SaveInvariant
PROPERTIES
    RefinesCell
