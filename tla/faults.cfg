\* Every way a poll can end early, over a 16-bit wrap, at a device that
\* overwrites its oldest entry when its buffer is full.
CONSTANTS
    Half = 6
    None = None
    verify_chain = TRUE
    Capacity = 2
    FirstItem = 10
    ForceAudit = FALSE
    Audited = {"set_log_index"}
    Serials = {"A"}
    FirstSerial = "A"
    TickSteps = {1}
    BootTicks = {0}
    MaxEntries = 5
    MaxTick = 5
    MaxBoots = 0
    MaxResets = 0
    MaxUnlogged = 0
    MaxShared = 1
    device_info_source = "none"
    skip_poll_when_unchanged = FALSE
    force_full_poll_every = 0
    advance_log_index = TRUE
    enrich_objects = FALSE
    Objects = 0
    DryRuns = {FALSE, TRUE}
    ProbeHonest = TRUE
    AbortAt = {"create_session", "get_log_entries", "emit", "set_log_index", "commit", "save", "rename"}
    PowerMayFail = TRUE
    MaxSkips = 0
SPECIFICATION Spec
CHECK_DEADLOCK FALSE
INVARIANTS
    TypeOK
    NothingLost
    PollInvariant
    VerdictInvariant
    CursorCovered
    ReadIsDelivered
    ChainSound
    NoFalseMismatch
PROPERTIES
    DiskIsCell
    KeepsPromise
