\* Polls that end early only before they acknowledge, reboots, and a force-audit
\* device that counts what it could not record; a boot entry may carry a sentinel for a tick.
CONSTANTS
    Half = 8
    None = None
    verify_chain = TRUE
    Capacity = 3
    FirstItem = 14
    ForceAudit = TRUE
    Audited = {"authenticate_session", "device_info", "get_log_entries"}
    Serials = {"A"}
    FirstSerial = "A"
    TickSteps = {0, 1}
    BootTicks = {0, 9}
    MaxEntries = 5
    MaxTick = 2
    MaxBoots = 2
    MaxResets = 0
    MaxUnlogged = 2
    MaxShared = 0
    device_info_source = "session"
    skip_poll_when_unchanged = FALSE
    force_full_poll_every = 0
    advance_log_index = TRUE
    enrich_objects = FALSE
    Objects = 0
    DryRuns = {FALSE, TRUE}
    ProbeHonest = TRUE
    AbortAt = {"create_session", "authenticate_session", "device_info", "get_log_entries", "emit", "set_log_index"}
    PowerMayFail = FALSE
    MaxSkips = 0
SPECIFICATION Spec
CHECK_DEADLOCK FALSE
INVARIANTS
    SequenceTotalOrder
    BootSessionSound
    OrderInvariant
    TimesSound
