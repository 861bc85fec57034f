\* The service and one `once` beside it, two devices, polls that fail at every step.
CONSTANTS
    Half = 6
    None = None
    verify_chain = TRUE
    Alphabet = {"h", "a", "b", "_"}
    Unset = Unset
    Missing = Missing
    Configs <- PlainConfigs
    Processes = {"run", "once"}
    DryRuns <- ServiceAndOnce
    FirstItem = 11
    Torn = Torn
    FailAt = {"emit", "save", "rename"}
    MaxEntries = 3
    MaxOnce = 1
SPECIFICATION Spec
CHECK_DEADLOCK FALSE
INVARIANTS
    NothingLost
    CursorCovered
    ChainVerdicts
PROPERTIES
    KeepsPromise
