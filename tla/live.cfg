\* Everything is collected in the end, however long polls failed and whatever the probe says.
CONSTANTS
    Half = 6
    None = None
    verify_chain = TRUE
    Capacity = 2
    FirstItem = 10
    ForceAudit = TRUE
    Audited = {}
    Serials = {"A"}
    FirstSerial = "A"
    TickSteps = {1}
    BootTicks = {0}
    MaxEntries = 3
    MaxTick = 3
    MaxBoots = 1
    MaxResets = 0
    MaxUnlogged = 1
    MaxShared = 0
    device_info_source = "connector"
    skip_poll_when_unchanged = TRUE
    force_full_poll_every = 1
    advance_log_index = TRUE
    enrich_objects = FALSE
    Objects = 0
    DryRuns = {FALSE}
    ProbeHonest = FALSE
    AbortAt = {"skip", "emit", "commit", "save", "rename"}
    PowerMayFail = FALSE
    MaxSkips = 2
SPECIFICATION LiveSpec
INVARIANTS
    NothingLost
PROPERTIES
    EveryEntryCollected
    EveryGapReported
