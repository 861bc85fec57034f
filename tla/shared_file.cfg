\* The service alone, two devices whose names sanitize() maps to one file.
CONSTANTS
    Half = 6
    None = None
    verify_chain = TRUE
    Alphabet = {"h", "a", "b", "_"}
    Unset = Unset
    Missing = Missing
    Configs <- AlikeConfigs
    Processes = {"run"}
    DryRuns <- ServiceOnly
    FirstItem = 11
    Torn = Torn
    FailAt = {}
    MaxEntries = 3
    MaxOnce = 1
SPECIFICATION Spec
CHECK_DEADLOCK FALSE
INVARIANTS
    NothingLost
