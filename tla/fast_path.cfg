\* advance_log_index = false: the device keeps everything and only the cursor moves,
\* under a probe that may answer anything, with a reset or a replacement of the HSM.
CONSTANTS
    Half = 6
    None = None
    verify_chain = TRUE
    Capacity = 3
    FirstItem = 10
    ForceAudit = TRUE
    Audited = {"list_objects"}
    Serials = {"A", "B"}
    FirstSerial = "A"
    TickSteps = {1}
    BootTicks = {0}
    MaxEntries = 3
    MaxTick = 3
    MaxBoots = 0
    MaxResets = 1
    MaxUnlogged = 0
    MaxShared = 0
    device_info_source = "connector"
    skip_poll_when_unchanged = TRUE
    force_full_poll_every = 2
    advance_log_index = FALSE
    enrich_objects = TRUE
    Objects = 1
    DryRuns = {FALSE, TRUE}
    ProbeHonest = FALSE
    AbortAt = {"skip", "create_session", "get_log_entries", "emit", "set_log_index", "commit", "save", "rename"}
    PowerMayFail = FALSE
    MaxSkips = 4
SPECIFICATION Spec
CHECK_DEADLOCK FALSE
INVARIANTS
    ChainSound
    SkipCeiling
    SkipInvariant
    ParseSound
    NothingSentTwice
