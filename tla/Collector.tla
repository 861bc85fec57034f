----------------------------- MODULE Collector -----------------------------
(***************************************************************************)
(* The collector polling one device: src/src/collector.rs `poll`,          *)
(* `try_fast_path`, `poll_reason`, `poll_device` and                       *)
(* `refresh_fast_path_baseline`, with DeviceState::load and ::save of      *)
(* src/src/state.rs.                                                       *)
(*                                                                         *)
(* A poll is a sequence of steps, pc naming the one to take next.  Between *)
(* any two of them the device may move (module Device): applications use   *)
(* it, it reboots, another client frees entries.  At the steps AbortAt the *)
(* poll may end early, because a call returned an error that `?` passes    *)
(* up, or because the process died: either way everything in memory is     *)
(* dropped and what is left is the device, the sink and the state file.    *)
(* Where PowerMayFail, the collector's machine may stop, too: no save      *)
(* syncs the directory, so that an older state file may come back.         *)
(* The sink keeps what reached it; a failing write may leave a prefix of   *)
(* the batch there.                                                        *)
(***************************************************************************)
EXTENDS Device

CONSTANTS
    device_info_source,         \* Config: "connector", "session" or "none"
    skip_poll_when_unchanged,   \* Config
    force_full_poll_every,      \* Config
    advance_log_index,          \* Config
    enrich_objects,             \* Config
    Objects,                    \* objects list_objects returns
    DryRuns,                    \* values of --dry-run polls are started with
    ProbeHonest,                \* the unauthenticated figures are the device's
    AbortAt,                    \* steps at which a poll may end early
    PowerMayFail,               \* the collector's machine may stop
    MaxSkips                    \* bound: consecutive skipped polls

Steps == {"skip", "create_session", "authenticate_session", "device_info",
          "get_log_entries", "enrich", "emit", "set_log_index", "commit",
          "save", "rename"}

ASSUME CollectorAssumption ==
    /\ device_info_source \in {"connector", "session", "none"}
    /\ skip_poll_when_unchanged \in BOOLEAN
    /\ force_full_poll_every \in Nat
    /\ advance_log_index \in BOOLEAN
    /\ enrich_objects \in BOOLEAN
    /\ Objects \in Nat
    /\ DryRuns \subseteq BOOLEAN
    /\ ProbeHonest \in BOOLEAN
    /\ AbortAt \subseteq Steps
    /\ PowerMayFail \in BOOLEAN
    /\ MaxSkips \in Nat

VARIABLES
    pc,             \* the step the running poll takes next, or "idle"
    dry_run,        \* the running poll was started with --dry-run
    state,          \* DeviceState in memory
    disk,           \* DeviceState that load() would return now
    older,          \* what it may return after the machine stopped, disk included
    snapshot,       \* Snapshot.serial of the running poll
    entries,        \* ids of the entries get_log_entries returned
    gap,            \* the unlogged count get_log_entries returned
    lookups,        \* enrichment commands still to send
    transformed,    \* what transform() returned
    emitted,        \* history: entry events that reached the sink
    reported,       \* history: the largest unlogged count that reached the sink
    skips           \* history: polls that ended well, skipped, since the log was
                    \* read or the machine stopped

pollVars == <<pc, dry_run, state, snapshot, entries, gap, lookups, transformed>>
fileVars == <<disk, older>>
sinkVars == <<emitted, reported>>
vars == <<deviceVars, pollVars, fileVars, sinkVars, skips>>

(* DeviceState::default(), which load() also returns when there is no file.*)
DefaultState ==
    [serial |-> None, last_item |-> None, last_digest |-> None, last_tick |-> None,
     sequence |-> 0, boot_session |-> 0, last_log_store_used |-> None,
     polls_skipped |-> 0]

NothingTransformed ==
    [new_entries |-> {}, events |-> {}, sequence |-> 0, boot_session |-> 0]

Ids == 1 .. Len(log)
Events == [id: Ids, sequence: Nat, boot_session: Nat,
           chain_status: {"ok", "mismatch", "unverified", None}]
DeviceStates ==
    [serial: Serials \union {None}, last_item: Items \union {None},
     last_digest: Nat \union {None}, last_tick: Nat \union {None},
     sequence: Nat, boot_session: Nat, last_log_store_used: Nat \union {None},
     polls_skipped: Nat]

(* Every variable has its type; the entries a poll works on were recorded. *)
TypeOK ==
    /\ DeviceTypeOK
    /\ pc \in Steps \union {"idle"}
    /\ dry_run \in BOOLEAN
    /\ state \in DeviceStates
    /\ older \subseteq DeviceStates
    /\ disk \in older
    /\ snapshot \in Serials \union {None}
    /\ entries \subseteq Ids
    /\ gap \in Nat
    /\ lookups \in Nat
    /\ transformed.new_entries \subseteq Ids
    /\ transformed.events \subseteq Events
    /\ transformed.sequence \in Nat
    /\ transformed.boot_session \in Nat
    /\ emitted \subseteq Events
    /\ reported \in Nat
    /\ skips \in Nat

Init ==
    /\ DeviceInit
    /\ pc = "idle"
    /\ dry_run = FALSE
    /\ state = DefaultState
    /\ disk = DefaultState
    /\ older = {DefaultState}
    /\ snapshot = None
    /\ entries = {}
    /\ gap = 0
    /\ lookups = 0
    /\ transformed = NothingTransformed
    /\ emitted = {}
    /\ reported = 0
    /\ skips = 0

(* The poll is over, one way or another: nothing in memory survives it.    *)
EndPoll ==
    /\ pc' = "idle"
    /\ dry_run' = FALSE
    /\ state' = DefaultState
    /\ snapshot' = None
    /\ entries' = {}
    /\ gap' = 0
    /\ lookups' = 0
    /\ transformed' = NothingTransformed

-----------------------------------------------------------------------------
(* Starting a poll.                                                        *)

fast_path_enabled == skip_poll_when_unchanged /\ device_info_source = "connector"

(* The answers an unauthenticated GetDeviceInfo may give.                  *)
ProbeAnswers ==
    IF ProbeHonest THEN {DeviceInfo}
    ELSE [log_store_used: 0 .. Capacity, log_store_capacity: {0, Capacity},
          serial: Serials]

(* The last reason of poll_reason(): enough polls were skipped.            *)
skip_ceiling_reached_OffByOne(st) ==
    force_full_poll_every > 0 /\ st.polls_skipped > force_full_poll_every
skip_ceiling_reached(st) ==
    force_full_poll_every > 0 /\ st.polls_skipped >= force_full_poll_every

(* poll_reason() = None: nothing speaks against answering from the probe.  *)
CanSkip(st, info) ==
    /\ st.last_log_store_used # None
    /\ info.log_store_used = st.last_log_store_used
    /\ info.log_store_capacity # 0
    /\ info.log_store_used < info.log_store_capacity
    /\ st.serial # None => st.serial = info.serial
    /\ ~skip_ceiling_reached(st)

(* poll(): probe the device if so configured, and either answer from the   *)
(* probe or go on to open a session.                                       *)
Poll ==
    /\ pc = "idle"
    /\ dry_run' \in DryRuns
    /\ IF device_info_source = "connector"
       THEN \E info \in ProbeAnswers :
              IF fast_path_enabled /\ ~dry_run' /\ CanSkip(disk, info)
              THEN /\ pc' = "skip"
                   /\ state' = disk
                   /\ UNCHANGED snapshot
              ELSE /\ pc' = "create_session"
                   /\ snapshot' = info.serial
                   /\ UNCHANGED state
       ELSE /\ pc' = "create_session"
            /\ UNCHANGED <<state, snapshot>>
    /\ UNCHANGED <<deviceVars, entries, gap, lookups, transformed, fileVars, sinkVars, skips>>

(* The rest of try_fast_path(): the heartbeat is flushed, and the skip is  *)
(* counted, to be saved.                                                   *)
Skip_NotCounted ==
    /\ pc = "skip"
    /\ pc' = "save"
    /\ UNCHANGED <<deviceVars, dry_run, state, snapshot, entries, gap, lookups,
                   transformed, fileVars, sinkVars, skips>>
Skip ==
    /\ pc = "skip"
    /\ skips < MaxSkips
    /\ state' = [state EXCEPT !.polls_skipped = @ + 1]
    /\ pc' = "save"
    /\ UNCHANGED <<deviceVars, dry_run, snapshot, entries, gap, lookups, transformed,
                   fileVars, sinkVars, skips>>

-----------------------------------------------------------------------------
(* Reading the log.                                                        *)

(* connect(): the session is opened by two commands, each of which leaves  *)
(* an entry.                                                               *)
CreateSession ==
    /\ pc = "create_session"
    /\ RecordOwn("create_session", freed)
    /\ pc' = "authenticate_session"
    /\ UNCHANGED <<born, tick, boots, serial, resets, shared, dry_run, state, snapshot,
                   entries, gap, lookups, transformed, fileVars, sinkVars, skips>>

AuthenticateSession ==
    /\ pc = "authenticate_session"
    /\ RecordOwn("authenticate_session", freed)
    /\ pc' = IF device_info_source = "session" THEN "device_info" ELSE "get_log_entries"
    /\ UNCHANGED <<born, tick, boots, serial, resets, shared, dry_run, state, snapshot,
                   entries, gap, lookups, transformed, fileVars, sinkVars, skips>>

GetDeviceInfo ==
    /\ pc = "device_info"
    /\ snapshot' = serial
    /\ RecordOwn("device_info", freed)
    /\ pc' = "get_log_entries"
    /\ UNCHANGED <<born, tick, boots, serial, resets, shared, dry_run, state,
                   entries, gap, lookups, transformed, fileVars, sinkVars, skips>>

(* The log is read, and only then the entry of the read itself recorded;   *)
(* the cursor is loaded after the read.                                    *)
GetLogEntries ==
    /\ pc = "get_log_entries"
    /\ entries' = Buffer
    /\ gap' = unlogged
    /\ RecordOwn("get_log_entries", freed)
    /\ state' = disk
    /\ lookups' = IF enrich_objects /\ select_new(log, Buffer, disk) # {}
                  THEN Objects + 1 ELSE 0
    /\ skips' = 0
    /\ pc' = "enrich"
    /\ UNCHANGED <<born, tick, boots, serial, resets, shared, dry_run, snapshot,
                   transformed, fileVars, sinkVars>>

(* ObjectCatalog::build(): list_objects and one get_object_info per object.*)
(* Errors are swallowed; one of list_objects ends the lookups.             *)
Enrich ==
    /\ pc = "enrich"
    /\ lookups > 0
    /\ \/ RecordOwn("list_objects", freed) /\ lookups' = lookups - 1
       \/ /\ lookups = Objects + 1
          /\ lookups' = 0
          /\ UNCHANGED <<log, freed, gone, unlogged>>
    /\ UNCHANGED <<born, tick, boots, serial, resets, shared, pc, dry_run, state, snapshot,
                   entries, gap, transformed, fileVars, sinkVars, skips>>

Transform_AckFirst ==
    /\ pc = "enrich"
    /\ lookups = 0
    /\ transformed' = transform(log, entries, state)
    /\ pc' = "set_log_index"
    /\ UNCHANGED <<deviceVars, dry_run, state, snapshot, entries, gap, lookups, fileVars,
                   sinkVars, skips>>
Transform ==
    /\ pc = "enrich"
    /\ lookups = 0
    /\ transformed' = transform(log, entries, state)
    /\ pc' = "emit"
    /\ UNCHANGED <<deviceVars, dry_run, state, snapshot, entries, gap, lookups, fileVars,
                   sinkVars, skips>>

-----------------------------------------------------------------------------
(* Emitting, acknowledging and committing, in that order.                  *)

(* Every event is written, the unlogged-events one after the entries, and  *)
(* the sink is flushed.                                                    *)
Emit_GapWithEntriesOnly ==
    /\ pc = "emit"
    /\ emitted' = emitted \union transformed.events
    /\ reported' = IF gap > reported /\ transformed.new_entries # {} THEN gap ELSE reported
    /\ pc' = "set_log_index"
    /\ UNCHANGED <<deviceVars, dry_run, state, snapshot, entries, gap, lookups,
                   transformed, fileVars, skips>>
Emit ==
    /\ pc = "emit"
    /\ emitted' = emitted \union transformed.events
    /\ reported' = IF gap > reported THEN gap ELSE reported
    /\ pc' = "set_log_index"
    /\ UNCHANGED <<deviceVars, dry_run, state, snapshot, entries, gap, lookups,
                   transformed, fileVars, skips>>

(* A write or the flush fails: some prefix of the batch got through, and   *)
(* the poll ends.                                                          *)
EmitFails_Ignored ==
    /\ pc = "emit"
    /\ "emit" \in AbortAt
    /\ \E upTo \in transformed.new_entries :
         emitted' = emitted \union {v \in transformed.events : v.id <= upTo}
    /\ pc' = "set_log_index"
    /\ UNCHANGED <<deviceVars, dry_run, state, snapshot, entries, gap, lookups,
                   transformed, fileVars, reported, skips>>
EmitFails ==
    /\ pc = "emit"
    /\ "emit" \in AbortAt
    /\ \E upTo \in transformed.new_entries :
         emitted' = emitted \union {v \in transformed.events : v.id <= upTo}
    /\ EndPoll
    /\ UNCHANGED <<deviceVars, fileVars, reported, skips>>

(* Acknowledge the newest entry to the device, and move the cursor to it.  *)
SetLogIndex ==
    /\ pc = "set_log_index"
    /\ ~dry_run
    /\ transformed.new_entries # {}
    /\ LET last == Max(transformed.new_entries)
       IN  /\ IF advance_log_index
              THEN RecordOwn("set_log_index", FreedBy(log[last].item))
              ELSE UNCHANGED <<log, freed, gone, unlogged>>
           /\ state' = [state EXCEPT !.last_item = log[last].item,
                                     !.last_digest = last,
                                     !.last_tick = log[last].tick]
    /\ pc' = "commit"
    /\ UNCHANGED <<born, tick, boots, serial, resets, shared, dry_run, snapshot, entries,
                   gap, lookups, transformed, fileVars, sinkVars, skips>>

NothingToAcknowledge ==
    /\ pc = "set_log_index"
    /\ ~dry_run
    /\ transformed.new_entries = {}
    /\ pc' = "commit"
    /\ UNCHANGED <<deviceVars, dry_run, state, snapshot, entries, gap, lookups,
                   transformed, fileVars, sinkVars, skips>>

(* A dry run neither acknowledges nor saves.                               *)
DryRunEnds ==
    /\ pc = "set_log_index"
    /\ dry_run
    /\ EndPoll
    /\ UNCHANGED <<deviceVars, fileVars, sinkVars, skips>>

(* refresh_fast_path_baseline(): probe again; a failing probe clears the   *)
(* baseline.                                                               *)
Baselines ==
    IF fast_path_enabled
    THEN {info.log_store_used : info \in ProbeAnswers} \union {None}
    ELSE {state.last_log_store_used}

(* What the poll learnt goes into the DeviceState that is to be saved.     *)
Commit_NoSequence ==
    /\ pc = "commit"
    /\ \E used \in Baselines :
         state' = [state EXCEPT
                     !.last_log_store_used = used,
                     !.polls_skipped = IF fast_path_enabled THEN 0 ELSE @,
                     !.serial = IF snapshot # None THEN snapshot ELSE @,
                     !.boot_session = transformed.boot_session]
    /\ pc' = "save"
    /\ UNCHANGED <<deviceVars, dry_run, snapshot, entries, gap, lookups, transformed,
                   fileVars, sinkVars, skips>>
Commit ==
    /\ pc = "commit"
    /\ \E used \in Baselines :
         state' = [state EXCEPT
                     !.last_log_store_used = used,
                     !.polls_skipped = IF fast_path_enabled THEN 0 ELSE @,
                     !.serial = IF snapshot # None THEN snapshot ELSE @,
                     !.sequence = transformed.sequence,
                     !.boot_session = transformed.boot_session]
    /\ pc' = "save"
    /\ UNCHANGED <<deviceVars, dry_run, snapshot, entries, gap, lookups, transformed,
                   fileVars, sinkVars, skips>>

(* DeviceState::save(): the temporary file is complete and synced; the old *)
(* file is removed first and then the new one renamed over its place.      *)
(* Neither change of the directory is synced.                              *)
ChangeDisk(st) ==
    /\ disk' = st
    /\ older' = IF PowerMayFail THEN older \union {st} ELSE {st}

SaveRemove ==
    /\ pc = "save"
    /\ ChangeDisk(DefaultState)
    /\ pc' = "rename"
    /\ UNCHANGED <<deviceVars, dry_run, state, snapshot, entries, gap, lookups,
                   transformed, sinkVars, skips>>

SaveRename ==
    /\ pc = "rename"
    /\ ChangeDisk(state)
    /\ skips' = IF state.polls_skipped > 0 THEN skips + 1 ELSE skips
    /\ EndPoll
    /\ UNCHANGED <<deviceVars, sinkVars>>

(* A call fails, or the process dies: the poll ends where it is.           *)
Abort_SavesAnyway ==
    /\ pc \in AbortAt
    /\ EndPoll
    /\ ChangeDisk(state)
    /\ UNCHANGED <<deviceVars, sinkVars, skips>>
Abort ==
    /\ pc \in AbortAt
    /\ EndPoll
    /\ UNCHANGED <<deviceVars, fileVars, sinkVars, skips>>

(* The operating system writes the directory back, in its own time.        *)
WriteBack ==
    /\ PowerMayFail
    /\ older' = {disk}
    /\ UNCHANGED <<deviceVars, pollVars, disk, sinkVars, skips>>

(* The collector's machine stops, and an older state file may come back.   *)
PowerFailure ==
    /\ PowerMayFail
    /\ EndPoll
    /\ disk' \in older
    /\ older' = {disk'}
    /\ skips' = 0
    /\ UNCHANGED <<deviceVars, sinkVars>>

-----------------------------------------------------------------------------
PollStep ==
    \/ Poll \/ Skip \/ CreateSession \/ AuthenticateSession \/ GetDeviceInfo
    \/ GetLogEntries \/ Enrich \/ Transform \/ Emit \/ SetLogIndex
    \/ NothingToAcknowledge \/ DryRunEnds \/ Commit \/ SaveRemove \/ SaveRename

Environment == DeviceNext /\ UNCHANGED <<pollVars, fileVars, sinkVars, skips>>

Next == PollStep \/ EmitFails \/ Abort \/ WriteBack \/ PowerFailure \/ Environment

Spec == Init /\ [][Next]_vars
-----------------------------------------------------------------------------
(* Properties.                                                             *)

Delivered == {v.id : v \in emitted}

(* No entry leaves the ring buffer on the collector's account before its   *)
(* event reached the sink: the order emit, flush, set_log_index of         *)
(* poll_device, over every early end of a poll and every entry that        *)
(* arrives while one is running.  What others overwrote or freed is in     *)
(* gone.                                                                   *)
NothingLost == \A e \in 1 .. freed : e \in Delivered \union gone

(* Nothing at or before the saved cursor, or one that a power failure      *)
(* brought back, is still owed: select_new() will never return those       *)
(* entries again, whether or not the device still holds them               *)
(* (advance_log_index = false leaves them there).                          *)
CursorCovered ==
    disk.last_digest # None =>
        \A e \in 1 .. disk.last_digest : e \in Delivered \union gone

(* No entry up to the saved cursor is sent again, although the device may  *)
(* still hold all of them (advance_log_index = false): events are repeated *)
(* only when the poll that sent them did not get to save its cursor, or    *)
(* the machine stopped and took it back (docs/event-schema.md:12).         *)
NothingSentTwice ==
    pc = "emit" /\ disk.last_digest # None =>
        \A e \in transformed.new_entries : e > disk.last_digest

(* When a poll gets as far as acknowledging, every entry it read is in the *)
(* sink, from this poll or an earlier one: select_new() drops only what    *)
(* was emitted before.                                                     *)
ReadIsDelivered ==
    pc \in {"set_log_index", "commit"} => entries \subseteq Delivered

(* An event that says "ok" has its predecessor in the sink: the check of   *)
(* the hash chain never vouches for a link across a missing entry, within  *)
(* a batch, across polls, or across the 16-bit wrap of the item number.    *)
ChainSound ==
    \A v \in emitted : v.chain_status = "ok" => log[v.id].prev \in Delivered

(* A log nobody tampered with never raises "mismatch", whatever was lost,  *)
(* repeated or aborted (between factory resets).                           *)
NoFalseMismatch == \A v \in emitted : v.chain_status # "mismatch"

(* sequence orders the entries of the device: a later entry has a larger   *)
(* number, and an entry that is sent again keeps its own.                  *)
SequenceTotalOrder ==
    \A v, w \in emitted : v.id < w.id <=> v.sequence < w.sequence

(* A boot entry with a sentinel in place of the tick, which restarts at 0. *)
Sentinel(e) == log[e].boot /\ log[e].tick > 0

(* Entries of one power cycle never get different boot sessions, a boot    *)
(* entry with a sentinel tick excepted, which is counted as a reboot of    *)
(* its own; and within a boot session ticks can be compared: they never    *)
(* fall.                                                                   *)
BootSessionSound ==
    \A v, w \in emitted :
        /\ /\ log[v.id].era = log[w.id].era
           /\ ~Sentinel(v.id) /\ ~Sentinel(w.id)
           => v.boot_session = w.boot_session
        /\ v.id < w.id /\ v.boot_session = w.boot_session =>
               log[v.id].tick <= log[w.id].tick

(* Whatever the unauthenticated probe answers, the log is read after at    *)
(* most force_full_poll_every polls that were skipped and reported no      *)
(* failure, even when the count of some skips could not be saved, as long  *)
(* as the machine does not stop and take that count back.                  *)
SkipCeiling == force_full_poll_every > 0 => skips <= force_full_poll_every

(* The collector sees its state file as the cell CursorCell: it changes    *)
(* only while a poll is saving or when the machine stops, never on a path  *)
(* that ends a poll early.                                                 *)
Cell == INSTANCE CursorCell WITH
            Absent <- DefaultState,
            cell <- disk,
            saving <- IF pc \in {"save", "rename"} THEN {state} ELSE {}
DiskIsCell == Cell!Spec

(* The collector delivers before it releases, and never takes an entry     *)
(* back: what it does to the device and the sink is the abstract           *)
(* specification Delivery.                                                 *)
Promise == INSTANCE Delivery WITH
               recorded  <- Ids,
               delivered <- Delivered,
               released  <- (1 .. freed) \ gone
KeepsPromise == Promise!Spec

-----------------------------------------------------------------------------
(* Liveness.  The service keeps polling (main.rs run_forever) and a poll   *)
(* that is not interrupted goes on to its next step.  Destinations and     *)
(* processes or machines that fail do so only for a while: from some time  *)
(* on no poll is aborted.                                                  *)
Interrupted == EmitFails \/ Abort \/ PowerFailure
Fairness == WF_vars(PollStep) /\ <>[][~Interrupted]_vars
LiveSpec == Spec /\ Fairness

(* Every entry the device keeps long enough is collected in the end, even  *)
(* if the probe says all the time that nothing changed.                    *)
EveryEntryCollected ==
    \A e \in 1 .. MaxEntries : (Len(log) >= e) ~> (e \in Delivered \union gone)

(* Every event the device could not record is reported in the end, though  *)
(* it never moves the figure the probe compares.                           *)
EveryGapReported ==
    \A n \in 1 .. MaxUnlogged : (unlogged >= n) ~> (reported >= n)

=============================================================================
