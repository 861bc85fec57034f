\* A factory reset: the entries of the new log.
CONSTANTS
    Half = 6
    None = None
    verify_chain = TRUE
    Capacity = 2
    FirstItem = 1
    ForceAudit = FALSE
    Audited = {}
    Serials = {"A"}
    FirstSerial = "A"
    TickSteps = {1}
    BootTicks = {0}
    MaxEntries = 4
    MaxTick = 5
    MaxBoots = 0
    MaxResets = 1
    MaxUnlogged = 0
    MaxShared = 0
    device_info_source = "none"
    skip_poll_when_unchanged = FALSE
    force_full_poll_every = 0
    advance_log_index = TRUE
    enrich_objects = FALSE
    Objects = 0
    DryRuns = {FALSE}
    ProbeHonest = TRUE
    AbortAt = {}
    PowerMayFail = FALSE
    MaxSkips = 0
SPECIFICATION Spec
CHECK_DEADLOCK FALSE
INVARIANTS
    ReadIsDelivered
