# A TLA+ model of yubihsm-auditor

yubihsm-auditor polls the audit log of one or more YubiHSM 2 devices, turns each
log entry into a JSON event, hands the events to a sink (a file, Splunk HEC,
syslog or stdout) and only then tells the device, with `set-log-index`, that the
entries may be overwritten. What it promises is *nothing is lost, at worst
something is sent twice* (`docs/event-schema.md`), that the events can be ordered
and their hash chain checked, and that one bad device does not stop the others.
This directory models that promise, checks it with TLC on small instances, and
proves it with TLAPS for every instance: what the collector, its state file, three of its
sinks and several devices side by side must never do.

Paths below are relative to the root of the repository; line numbers are those of
its `src/`.

## 1. Inventory

| Component | State it keeps | Operations | Correct if |
|---|---|---|---|
| One poll of one device, `src/collector.rs` | nothing between polls; `DeviceState` while it runs | `poll`, `try_fast_path`, `poll_reason`, `poll_device`, `transform`, `build_anchors`, `select_new`, `refresh_fast_path_baseline` | no entry is freed or passed by the cursor before its event is flushed; the fields and times of the events are sound; the fast path does not hide entries for ever |
| YubiHSM 2 and connector (external) | ring buffer of entries, tick, counters of unlogged events | audited commands, `get_log_entries`, `set_log_index`, `device_info`, power cycle, reset | — |
| Device state file, `src/state.rs` | one JSON file per device: cursor, counters, fast-path baseline | `load`, `save` | a load never meets half a state; a save is all or nothing |
| Unauthenticated probe, `src/probe.rs` | none | `fetch`, `parse` | its answer, which anyone may forge, delays collection at most; a damaged one is refused |
| Service loop, `src/main.rs` | the shutdown flag | `run_forever`, `poll_all` | one failing device never blocks the others; it stops when told to |
| File sink, `src/sink.rs` | a BufWriter, the bytes written, rolled files | `write`, `flush`, rotation | `flush` ok means the lines are on the disk; rotation gives up the oldest file only |
| HEC sink | the batch | `write`, `flush`, `post_batch` | `flush` ok means every batch of the poll was accepted |
| Syslog sink | the connection | `write`, `reconnect`, `flush` | every frame was handed to a connection |
| Configuration, `src/config.rs` | none after the start | `validate`, `password`, `fast_path_enabled` | what it refuses covers what the rest takes for granted |
| Processes, `src/main.rs` | — | `run`, `once`, `--dry-run` | two of them side by side, and several devices, do not break each other's promise |
| Stdout sink, `check`, `sample-events`, code tables, SIEM content | none | — | not modelled |

How they interact: `run_forever` calls `poll_all` once per interval; `poll_all` builds
one sink and polls the devices one after the other through it; a poll loads the state
file, maybe asks the probe, opens a session with the device, reads, writes and flushes
to the sink, acknowledges, and saves the state file. There are no threads in the
program. What runs concurrently with it is the rest of the world: applications that
use the HSM and add entries between any two of its commands, other clients that free
entries, power cycles, receivers that come and go, a second `once` started by hand, and
the end of the process or the machine at any point.

The behaviours that are hard to test are listed, each with the line where it
bites, under `hazards` in `PROJECT.json`. The main ones: entries that arrive during a
poll; polls that end early after some of their effects took place; the 16-bit wrap of
the item number; a cursor, a digest or a baseline that is stale when it is used;
reboots that are inferred from ticks; a probe that lies; crashes inside a save or a
rotation; lost answers, dead connections and torn lines in the sinks.

## 2. Modules

```
AuditLog ──> Device ──> Collector ──> CollectorInv
   │                                       ├──> CollectorTimes <── EventTime
   │                                       └──> CollectorProbe <── ProbeFrame
   │              CollectorTimes, CollectorProbe, AuditLogProofs ──> CollectorProofs
   ├──> Fleet <── Config;   Fleet ──> MCFleet, FleetProofs
   └──> EventTime ──> AuditLogProofs, used by CollectorProofs and FleetProofs
PollAll ──> FileSink ──> FileProofs;   HecSink ──> HecProofs;   SyslogSink ──> SyslogProofs
   └──> PollAllProofs, used by these three
StateFile ──> StateFileProofs
CursorCell <── refined by ── StateFile, and by the state file as Collector sees it
Delivery   <── refined by ── Collector (one device), by Fleet (all of them), and by
               FileSink, HecSink and SyslogSink (the service with that sink)
```

**AuditLog** holds the pure functions of the collector and of `src/event.rs`:
`is_newer` and the wrapping arithmetic (`Half` stands for 0x8000), `select_new`, and
`transform` with its parts `previous_digest`, `chain_status`, `rebooted`. An entry is
known by its *id*, its position among all entries ever recorded. The digest of an
entry is its id: digests are ideal, two entries never share one, and an entry links to
the `prev` it was chained to. Loops over the entries are sets here: an event
depends on the entries before it, not on the loop.

**Device** is the external YubiHSM: a ring buffer (`freed` is the id up to which
entries have left it) that overwrites its oldest entry when full or, under force-audit,
refuses and counts; it records the collector's own audited commands too. A boot entry may
carry one of `BootTicks`, a sentinel, for its tick. `gone` holds
what left the buffer by somebody else's doing, which no collector can help. `AppOp`,
`Reboot`, `OtherConsumer` and `Reset` may happen between any two steps of a poll.

**Collector** is one poll after the other for one device. `pc` names the next step;
`AbortAt` says at which steps `?` may end the poll or the process may die, and
everything in memory is then dropped. Where `PowerMayFail`, the machine may stop as well,
and an `older` state file may come back, as `save` does not sync the directory. Each action is one call of the code with all it
changes; `Commit` is the block at 396-405 with the baseline refresh, `SaveRemove` and
`SaveRename` the two visible steps of `save`. `emitted`, `reported` and `skips` are
history. The sink is a contract here: a flush that returned ok has delivered all events
of the poll, one that failed may have delivered a prefix. The sink modules below look
at how far that contract is kept.

**EventTime** is `build_anchors` with `TickAnchor`, the times that `transform` gives to
the events, counted in ticks; **CollectorTimes** looks at them in every batch Collector
reaches. **ProbeFrame** is `probe.rs` `parse` over sequences of bytes, with the frames a
device sends as its reference; **CollectorProbe** joins it to the fast path.

**Delivery** is the abstract specification of the whole program: entries are recorded,
delivered and released, and only what has been delivered is ever released. `KeepsPromise`
says that Collector implements it for one device, that Fleet does for all, and that the
service with each of the three sinks does, where *delivered* means durable on the disk,
accepted by the receiver, or handed to a connection.

**Config** is `validate` with what it calls, and `sanitize`, by which a device name becomes a
file name. **Fleet** puts several devices, their state files and two processes together:
the service and a `once` beside it, each polling the devices in turn, each dying or
failing at the steps `FailAt`. It keeps of a poll what the other process can notice:
when it reads the device, loads and saves the cursor, emits and acknowledges. (The log is
read *before* the cursor is loaded, collector.rs:241-245, so another process may
save in between.) Two saves of one file that overlap in time are over-approximated:
`racing` holds such a file, and until the last of its saves ends it may hold
either state, none, or half of one. **MCFleet** has the configurations the runs start from,
those `validate` refuses among them.

**CursorCell** is the abstract specification of the state file: a cell that holds a
complete state or none, changes only during a save (`saving` is the set of the state being
saved, empty between two saves), and may be left empty by a save that was cut short. **StateFile** is `save`/`load` call by call on directories,
inodes and syncs, with a machine that may stop: content that was not synced is torn,
and directory changes not yet written back may be undone. StateFile implements
CursorCell (`RefinesCell`), and the `disk` of Collector behaves as one (`DiskIsCell`),
so the two fit together, power failures included.

**PollAll** is the service: the turn of each device, the phases *read, write, flush,
acknowledge* of its poll, each a step of its own, failures, restarts and the shutdown flag. The three sink
modules extend it with what a write and a flush do:

- **FileSink**: a line is two pieces (object, newline) going through a BufWriter; a
  rotation is a flush, a sync, the removal of the oldest file and then the renames, each
  a step of its own; the writer keeps its file open
  under the new name; writes fail half way and leave their rest in the buffer; a
  dropped BufWriter writes what it can; a kill loses the buffer; a power failure cuts
  every file anywhere behind what was synced.
- **HecSink**: events gather in a batch, which is posted when full and at a flush, four
  attempts each; an unanswered batch may have been accepted; a 4xx drops the batch.
- **SyslogSink**: UDP, TCP or TLS; a broken connection may take frames unnoticed; a
  first error reconnects and sends that frame again; a write may time out half way.

Heartbeat events (`device_status`) and gap events are not entries and are left
out of PollAll; in Collector the gap reports are kept as `reported`.

## 3. Runs

Every run has its configuration in the `.cfg` of the same name.

| Run | Module | What it asks |
|---|---|---|
| `faults` | CollectorInv | `TypeOK`, `NothingLost`, `PollInvariant`, `VerdictInvariant`, `CursorCovered`, `ReadIsDelivered`, `ChainSound`, `NoFalseMismatch`, `DiskIsCell`, `KeepsPromise`, with polls ending anywhere, power failures that bring an older cursor back, an item number that wraps, a buffer of 2 that overwrites, another client and dry runs |
| `order` | CollectorTimes | `SequenceTotalOrder`, `BootSessionSound`, `OrderInvariant` and `TimesSound` over two reboots, equal and sentinel ticks, dry runs and a force-audit device; polls fail only before they acknowledged |
| `fast_path` | CollectorProbe | `SkipCeiling`, `SkipInvariant`, `ChainSound`, `ParseSound` and `NothingSentTwice` under a probe that may answer anything, with `advance_log_index = false` (the device frees nothing, and only the cursor keeps what was sent from being sent again), enrichment, a reset and a replaced HSM |
| `live` | Collector | `EveryEntryCollected` and `EveryGapReported` (and `NothingLost`) under a lying probe, after failures cease |
| `fleet` | MCFleet | `NothingLost`, `CursorCovered`, `ChainVerdicts` and `KeepsPromise` for two devices, the service and one `once`, with or without `--dry-run`, failures, deaths and overlapping saves |
| `state_file` | StateFile | `NeverTorn`, `SaveInvariant` and `RefinesCell` with one writer, failures and power failures |
| `file_sink` | FileSink | `AckedIsDurable`, `RotationDropsOldest` and `FileInvariant`, with failures and ends of the process or machine at every step, rotations included |
| `hec_sink` | HecSink | `AckedIsAccepted`, `OnlyOwnEvents`, `HecInvariant`, `EveryDeviceServed`, `Stops`, with an unreachable or a rejected device beside a healthy one |
| `syslog_sink` | SyslogSink | `AckedWasSent`, `GarbledInCycle` and `SyslogInvariant`, over UDP, TCP and TLS |
| `reset` | Collector | violated: `ReadIsDelivered` after a factory reset |
| `shared_file` | MCFleet | violated: `NothingLost` for two names that `sanitize` maps to one file |
| `file_torn` | FileSink | violated: `AckedIsReadable` |

### Bounds

`Half` is 6 or 8 instead of 0x8000, and `FirstItem` sits just below the wrap, so that a
few entries cross it; the number of entries stays under `Half`, as a buffer of 62
stays under 0x8000, except that the proofs do not bound it (section 5). A `Capacity` of
2 or 3 with 3 to 5 entries fills, overwrites and wraps the buffer. Two reboots are
the least that can be counted twice; one reset and two serial numbers are the least
that can confuse a cursor. Two devices show what a failed poll does to the next one,
the third in `hec_sink` gives a healthy device beside an unreachable and a rejected
one. In `file_sink` a file is full after one line, three rolled files are kept, so that a
rotation can stop between two renames with files on both sides of the gap, and
two failures suffice for a rotation that failed and one that follows it; in
`state_file` four inodes let the old file, a stale temporary one and the next meet; in
`syslog_sink` two events per device let the first be lost and the second resent.
In `order`, `BootTicks` has a sentinel above every tick an entry can have. In `fleet` two
devices and three entries let the cursor of one meet the log of the other; the
first entry is the last item number before the wrap; one `once` runs long enough to
overtake the service at any point of its poll and to be overtaken. A poll fails or a
process dies there while it emits or saves: before that it has changed nothing the other
process can see. `PowerMayFail` holds in `faults` and `state_file`; in `live` and `fast_path` it would
make TLC run too long, and in `order` it breaks the order (section 4).
`MaxEntries`, `MaxOnce`, `MaxTick`, `MaxBoots`, `MaxResets`, `MaxUnlogged`, `MaxShared`, `MaxSkips`,
`Entries` and `MaxFails` are bounds of the check only and stop the environment or
history, not the program; `MaxSkips` exceeds `force_full_poll_every`.

Deadlock is checked in `live`. Elsewhere the bounded environment ends, or the
service stops for good, and `CHECK_DEADLOCK` is off.

### Fairness

`live` assumes that a poll that may go on does (`WF_vars(PollStep)`): `run_forever`
starts a poll every interval and each call returns; and that from some time on polls
are not interrupted, because nothing can be collected through a destination that
never works. Nothing is assumed of the probe, which may claim for ever that
nothing changed, nor of the environment. `hec_sink` assumes `WF_vars(Step)`, as every
request has a timeout; `EveryDeviceServed` supposes further that lost answers, crashes
and failing reads and acknowledgements of the *other* devices come to an end, while the
unreachable device and the rejected one stay as they are.

Every property of a passing run is also run against a plausible mistake in the code
(the definitions with a suffix, as `CloseFull_Unsynced` beside `CloseFull`, next to the
one they replace) and is violated by it.

## 4. Where the code and its documents disagree

With a run:

- `reset`: `select_new` (collector.rs:587-608) drops the entries of a log that was
  restarted by a factory reset until their item numbers pass the old cursor, though its
  comment says they are accepted.
- `shared_file`: `validate` (config.rs:322-329) refuses equal device names, but `sanitize`
  maps distinct ones, `h/` and `h:`, to one state file (state.rs:51, 89-99). The cursor of
  the first device then makes an entry of the second look old; nothing is new in the read
  that follows, or only what came later, and acknowledging that frees the entry undelivered.
  main.rs:193-194 says entries stay on the device until they have been delivered.
- `file_torn`: a torn line (a kill, a full disk) has no newline, and the next event is
  appended to it; that event is acknowledged but not readable.

Read off the code, without a run of their own (the first two are reproduced in a line):

- `sequence` is called monotonic (state.rs:26-27), but after a failure between
  `set_log_index` and `save` the next entries reuse the numbers of the ones that were
  freed; these are different entries, so it is not the duplication event-schema.md
  describes. `order` violates `SequenceTotalOrder` with `"save"` added to its `AbortAt`,
  and also with `PowerMayFail`, when an older cursor comes back. The same happens on a device
  that overwrites (`ForceAudit = FALSE`, `MaxEntries = 7`, `MaxTick = 1`) or that another client
  empties (`MaxShared = 1`): a poll that fails after it emitted is repeated, but if some of the
  entries have left the buffer meanwhile, the rest is numbered anew, below the numbers it was sent
  with, and different entries share a `sequence` (event-schema.md:35 calls it *Monotonic
  per-device counter*); a reboot that showed only in what left shifts `boot_session` likewise.
- `save` removes the old file before the rename, on Unix too, so a crash in between leaves
  no state at all; state.rs:64 says *atomically*. In StateFile, between `Remove` and `Rename`,
  `Loaded` is the absent state.
- Two processes on one device deliver everything (`fleet`), but not with the order they
  should: one may save a cursor that is older than the one the other saved, and later entries
  reuse sequence numbers. A dry run that loads in the gap of a save
  numbers its events from 1. A temporary file that both write may be renamed half
  written; every poll of that device then fails at `load` until somebody removes it, as
  state.rs:57 makes a parse error final and no poll gets as far as its own save.
- An entry another client freed before it was read makes the next one `unverified`
  (collector.rs:488-499), not `mismatch` as docs/security.md:33-34 says.
- An entry recorded during a poll is part of the baseline that is read at its end
  (collector.rs:423), so the next polls may skip while it waits in the buffer, up to
  the skip ceiling; docs/polling-behavior.md:33-34 says an unmoved figure means that
  nothing was logged. `EveryEntryCollected` and `SkipCeiling` bound the delay.
- The skip is counted by a save that succeeds (collector.rs:155-157). A poll whose save fails
  is reported as a failure, not as a skip, and while saves fail such polls are
  not bounded: `SkipCeiling` counts the polls that ended well. A power failure may take the
  saved count back, so that the count of consecutive skips starts anew.
- Two processes saving one device share the temporary file (state.rs:69). StateFile has
  `Writers` for this; with two of them `NeverTorn` fails. `state_file` checks one writer,
  and Fleet takes in every outcome of two.
- A boot entry whose tick is a sentinel counts twice: once as a boot entry, and once more
  when the next, smaller tick appears to go back (event.rs:371-378, collector.rs:505).
  event-schema.md calls `boot_session` *incremented on every reboot this collector witnessed*.
  `BootSessionSound` asks for what does hold: entries of one power cycle share a session,
  sentinels excepted, and within a session ticks never fall.
- event.rs:333-336 bounds the error of an event time by `poll_interval_secs`. It holds for
  polls on time: after failed or skipped polls, or when the device was without power,
  the newest entry is older than that, and all others are reckoned from it.
- `tick_hz <= 0.0` (config.rs:330) is false of a NaN, which TOML can express; every
  estimated time of that device is then NaN.
- `ImportWrapped` is both `key_usage` and `key_management` (codes.rs:46, 82), which
  event-schema.md contrasts: *key used vs key created/changed/deleted*.
- On a file system that ignores case, names that differ in case share a state file, like
  those of `shared_file`.
- When a TCP syslog write fails, `reconnect` sends the failed frame again, but not the
  earlier frames of the same poll the dead connection had taken; they are acknowledged
  and lost, though event-schema.md:8-10 says an outage loses nothing. In
  `AckedWasSent` they are in `lost`. A write that times out half way on the second
  attempt leaves a torn frame on the stream, and the next device's first frame is
  joined to it (`garbled`).
- A rotation that does not get to its end (a failed rename or reopen, a kill, a power
  failure) makes the next one move again the rolled files that were moved already, and
  one file fewer than `rotate_keep` (config.rs:158: *Number of rolled files to keep*) is left.
  `RotationDropsOldest` allows for one file per such rotation through `broken`.

## 5. Proofs

Every proof holds for all values of the constants that satisfy the named assumptions of
the modules, which state what `config.rs` and the types enforce, and for any number of
entries, devices, failures and restarts. The bounds of section 3 are constants like the
others, and only the two results on short logs (`ShortLogIsSafe`, `ShortLogsAreSafe`) bound one
of them, `MaxEntries`, below `Half`.

| Theorem | Property | Beyond the assumptions of the modules |
|---|---|---|
| **CollectorProofs** | | |
| `TypeCorrect` | `TypeOK` | — |
| `ErasInOrder` | (`ErasOK` and `FallsOK`, parts of `OrderInvariant`) | — |
| `TimesAreSound` | `TimesSound` | — |
| `FramesAreRead`, `ParseIsSound` | (`parse` of every frame), `ParseSound` | — |
| `SkipInvariantHolds`, `SkipsAreBounded` | `SkipInvariant`, `SkipCeiling` | — |
| `DiskRefinesCell` | `DiskIsCell`: implements CursorCell | — |
| `PollInvariantHolds`, `NothingIsLost`, `CursorIsCovered`, `PromiseIsKept` | `PollInvariant`, `NothingLost`, `CursorCovered`, `KeepsPromise`: implements Delivery | `MaxResets = 0`, `[]InWindow` |
| `VerdictInvariantHolds`, `ReadsAreDelivered`, `ChainIsSound`, `NoMismatchIsFalse`, `SavedIsNotRepeated` | `VerdictInvariant`, `ReadIsDelivered`, `ChainSound`, `NoFalseMismatch`, `NothingSentTwice` | these, and `Capacity <= Half` |
| `OrderInvariantHolds`, `SequenceIsTotalOrder`, `BootSessionIsSound` | `OrderInvariant` and `InWindow`, `SequenceTotalOrder`, `BootSessionSound` | `OrderPremises` |
| `UndisturbedIsSafe` | `NothingLost`, `CursorCovered`, `ReadIsDelivered`, `ChainSound`, `NoFalseMismatch`, `NothingSentTwice` together | `OrderPremises` |
| `ShortLogIsSafe` | these six and `KeepsPromise` | `MaxResets = 0`, `MaxEntries < Half`, `Capacity <= Half` |
| **StateFileProofs** | | |
| `SaveInvariantHolds`, `StateFileNeverTorn`, `SaveRefinesCell` | `SaveInvariant`, `NeverTorn`, `RefinesCell`: implements CursorCell | one writer |
| **FileProofs** | | |
| `FileInvariantHolds`, `AckedEventsAreDurable`, `RotationGivesUpOldest` | `FileInvariant`, `AckedIsDurable`, `RotationDropsOldest` | — |
| `FileKeepsPromise` | (`KeepsPromise`: implements Delivery) | — |
| **HecProofs** | | |
| `HecInvariantHolds`, `AckedEventsAreAccepted`, `BatchesAreOwn` | `HecInvariant`, `AckedIsAccepted`, `OnlyOwnEvents` | — |
| `HecKeepsPromise` | (`KeepsPromise`: implements Delivery) | — |
| **SyslogProofs** | | |
| `SyslogInvariantHolds`, `AckedEventsWereSent`, `GarblingStaysInCycle` | `SyslogInvariant`, `AckedWasSent`, `GarbledInCycle` | — |
| `SyslogKeepsPromise` | (`KeepsPromise`: implements Delivery) | — |
| **FleetProofs** | | |
| `FleetInvariantHolds`, `FleetLosesNothing`, `FleetCursorsAreCovered`, `FleetVerdictsAreRight`, `FleetPromiseIsKept` | `FleetInvariant`, `NothingLost`, `CursorCovered`, `ChainVerdicts`, `KeepsPromise`: implements Delivery | `Apart`, `[]InWindow` |
| `PlainNamesAreApart` | (`Apart`) | `PlainNames` |
| `ShortLogsAreSafe` | `NothingLost`, `CursorCovered`, `ChainVerdicts`, `KeepsPromise` | `PlainNames`, `MaxEntries < Half` |

What stands in parentheses is no property of a run's `.cfg` (see *What TLC says of them* below).

`AuditLogProofs` and `PollAllProofs` hold lemmas only: what `select_new` may drop, that `transform`
yields one event per new entry and what its verdicts are based on, how the 16-bit item
number counts, which anchor and which time an entry gets; that the service keeps its place in the
cycle, that the poll being acknowledged owes the events it has written and no others, and
that it writes recorded entries only.

### The hypotheses

- `MaxResets = 0`: a reset breaks the promise, as the run `reset` shows.
- `InWindow`: no cursor, and no entry about to be acknowledged, is half the range of the item
  number behind the newest entry; past that distance `is_newer` takes new entries for old.
  A deployment satisfies it by not letting 32768 entries pass between two polls. Under
  `OrderPremises` it is not assumed but proved, and so it is, on any device that is not reset,
  with `MaxEntries < Half`: `ShortLogIsSafe` and `ShortLogsAreSafe` need nothing of it.
- `Capacity <= Half`: 62 entries against 32768.
- `OrderPremises`: `Undisturbed`, and two buffers smaller than half the range (124 against 32768).
  `Undisturbed` says that nobody but the collector takes entries from the device (it is
  under force-audit, no other client calls `set_log_index`, it is not reset), that the machine
  does not stop, and that no poll ends between acknowledging and saving. Each part is
  needed: TLC violates `SequenceTotalOrder` on the instance of `order` (a slightly larger one
  without force-audit) as soon as any of them is dropped, be it one of the steps `commit`,
  `save` and `rename` (section 4).
  `NothingLost` and the verdicts do not need it; `UndisturbedIsSafe` shows what it buys them,
  the window: a device under force-audit records nothing more while its buffer is full of what
  was not acknowledged, so that no cursor falls further behind than the buffer is long.
- One writer (`Writers = {w}`): two that share the temporary file tear the state (section 4).
- `Apart`: in a configuration that `validate` accepts, no two devices share a state file. The code
  does not enforce it; `shared_file` shows what happens otherwise. `PlainNames`, names made of
  characters that `sanitize` keeps, is enough for it (`PlainNamesAreApart`), and an operator can
  see to it.

### The arguments

**Delivery by one device.** `NothingLost` is not inductive: when `set_log_index` frees entries
one must know that all entries before the acknowledged one were delivered. `PollInvariant` says
so step by step: the cursors in memory, on disk, and among those a power failure may bring back
name delivered entries with nothing owed before them (`CursorOK`); nothing owed lies before an
entry that was read and outside the read (`BatchOK`, because the buffer is contiguous); the
same of the new entries (`NewOK`, where `SelectCovers` shows that what `select_new` drops was
delivered, using `ItemsInOrder` and `InWindow`); every new entry has its event (`EventsOK`), and
it is in the sink when the poll gets as far as acknowledging (`FlushedOK`). `AckFreesDone` then
shows that `set_log_index` frees delivered entries only, although it names an item number and
the device may have recorded more meanwhile. `PromiseIsKept` follows: each step records,
delivers or releases, and what it releases was delivered before the step.

**Verdicts.** What makes `select_new` and `previous_digest` sound is the shape of a read: a
contiguous piece of the log that fits the buffer (`RingOK`) and that, if it reaches back to
the cursor at all, contains it, with only delivered entries up to it (`ReadOK`). Then the entry a
verdict is based on is the one the event's entry was chained to (`LinksOK`), it is delivered
or among the new ones before it (`VerdictsOK`), and what was left out of the batch is in the sink
(`SelectedOK`). `Capacity <= Half` keeps two entries of one read apart in `is_newer`.

**Order.** The number of an event is the position of its entry and its session the number of
reboots that show up to it (`NumberedOK`); the same of every cursor (`CountsOK`). For that to
survive a poll, the poll must start from the saved cursor (`LoadedOK`), the device must still
have all that follows it (`FreedOK`), the read must continue where it ends (`NextReadOK`), and
the batch must run from there to the count the poll will save (`NextBatchOK`). `BootSessionSound`
then is a matter of the log alone: power cycles follow each other with ticks that do not
fall, sentinels excepted (`ErasOK`), and where ticks fall a reboot shows (`FallsOK`). `LagOK`
bounds how far the device can be ahead, from which `InWindow` follows.

**Nothing sent twice.** The cursor a poll selects by is the one on disk: from its load to its
save nothing else writes the file (`SentInvariant`). With the shape of a read as above,
what `select_new` keeps then lies behind the saved cursor.

**Times.** `TimesSound` says that the times of a batch rise with its entries and keep the distance
of their ticks within a power cycle. The anchors are defined from the newest group of entries to
the oldest; that each group has one, in the order of the groups, is shown by a least counterexample
among the groups of a batch, which are finitely many numbers (`LeastNatural`, from
`WellFoundedInduction`), so that no induction over data is needed. A group has the ticks of one
power cycle because ticks fall only where a reboot shows (`ErasInOrder`, which holds for any
device, reset or not); `TimesInGroup` and `TimesRise` follow.

**Frames.** `parse` is followed byte by byte over the frame a device encodes: the lemmas say
where each field lies in a concatenation, and a damaged header, length or end is
refused by the test that reads it. The lists of algorithms are of any length the 16-bit field admits.

**Sinks and Delivery.** `AckedIsDurable` and its likes say nothing of the order of steps, nor that
what was delivered stays so. For that, each sink shows that it holds recorded entries only
(`batch`, `body` and `accepted`; `taken`, `lost` and `garbled`; in FileSink, whatever
is in the buffer or a file, `PiecesOK`), and that its part of Delivery's `delivered` only grows: in
FileSink a durable line stays one through writes, rotations, kills and power
failures, in the file or in one that rotation removed (`Kept`). An acknowledgement is a release of
what was delivered before, a write, a flush or an answer a delivery, everything else a stutter.

**Skips.** `SkipCeiling` alone is not inductive; what carries it is that the count on disk is at
least the number of skips as long as there is a baseline on disk (`SavedOK`): a save cut short
between remove and rename loses the count, and the baseline with it, so that the next poll
reads the log. A reset, a replacement and a power failure start the count of `skips` anew.

**State file.** The inode a save is writing is the state file of no directory, neither the
current one nor one that a power failure may bring back (`SaveInvariant` over `survivors`),
until it is complete and synced; whatever a directory has under the name of the state file is
(`DirOK`). Each call of `save` is then a step of the cell or none.

**File sink.** What the running poll has written is durable, in the open file, or in the buffer
(`OwedOK`), and the open file is the newest one, also half way through a rotation (`StepOK`,
`OpenOK`). The files carry the generation they were made in, and `GensOK` holds through every
prefix of the renames: a file has been moved once for each file made after it, and at most
once more for each rotation that was broken off (`broken`) or is under way (`Moved`).

**HEC and syslog sinks.** The events a poll has written are accepted, in the batch or in the
body being posted (`HecInvariant`); they were handed to some connection, and only a poll that has
failed leaves a torn stream, so that the first device of a cycle never meets one
(`SyslogInvariant`). The batch and the body of HEC are empty whenever a poll ends, by whatever
way out.

**Fleet.** `FleetInvariant` is the argument of one device for every process, its turn and the
cursor it loaded, and for every file, torn ones excepted. What is new is that the cursor may be
newer than the read, since the log is read before the file is loaded, and that the device
may have been told by the other process already: `BatchOK` and `NewOK` therefore speak of
entries that *somebody* delivered, and acknowledging twice frees nothing more that is owed.
Item numbers are ordered by counting the entries between them (`ItemsInOrder`).

### What TLC says of them

TLC checks the inductive invariants in the runs, with these exceptions, each checked once on the
instance of a run and not part of it, to keep the runs short: `FleetInvariant` (on `fleet`,
2,207,954 states), `SentInvariant` (on `fast_path` and `faults`), `PiecesOK` (on `file_sink`) and the
`KeepsPromise` of the three sinks (on `file_sink`, `hec_sink` and `syslog_sink`). `ErasOK` and
`FallsOK` are parts of `OrderInvariant`, which `order` checks.

### What the proofs changed

- `DiskRefinesCell` and `SaveRefinesCell` did not hold of a cell in which *nothing is being saved*
  and *a save of the absent state* look alike; `saving` of CursorCell is a set now.
- `RotationDropsOldest` as first stated (exact but for failed reopens) is false when a rotation
  is interrupted between two renames, which the run with two rolled files did not show. It
  keeps three now, the removal of the oldest is a step of its own, and `broken` counts every
  rotation that does not get to its end (section 4).
- The order properties turned out to depend on who else empties the buffer, and not only on where
  a poll fails: section 4, first item without a run.
- PollAll flushed and acknowledged in one step. That step delivers and releases at once, which
  no step of Delivery does, and hides a process that dies in between. They are two steps now, and
  the sinks meet failures between them.
- `NoneAssumption` had to say that `None` is no entry, no tick and no number.

### Model-checked only

Of the properties of the passing runs, four are not proved: `EveryEntryCollected`,
`EveryGapReported`, `EveryDeviceServed` and `Stops`. They are liveness properties under fairness, which
like `ENABLED` is out of reach of TLAPS 1.4.5.

## 6. Not modelled

- The labels `ObjectCatalog` adds (it reads the objects of today: the target of an older
  entry may have been deleted or replaced since), the JSON, CEF and RFC 5424 texts,
  `time_uncertainty_secs`.
- TOML parsing and defaults; HEC tokens, certificates, the connector's URL.
- `check`, `sample-events`, `init-config`, command and result names: no state of their own.
- In Fleet: the collector's own audited commands, a buffer that overwrites, reboots, the
  probe's answer (Collector has them, for one device). In PollAll: dry runs, heartbeats.
- Wall-clock time between polls, which `time_uncertainty_secs` would need.
- File names that are lost with a power failure although the file was synced: FileSink
  takes a synced file to keep its name, as journaling file systems do.

## 7. Plan

1. Done: AuditLog, Device, Collector, CursorCell, StateFile, PollAll, the three sinks; the
   older state file that comes back in Collector, the times of events, the frames of the probe, the
   configuration, several devices and processes; Delivery as the promise of the whole.
   Proved: every safety property the passing runs check, and the refinements: of Delivery by
   Collector, Fleet and each sink, and of CursorCell by Collector and StateFile.
2. Open among the proofs: that a number is never used for two entries of one batch, on any device,
   as the weaker order that holds without `Undisturbed`; that without `Apart` the loss is confined
   to the devices that share a file.
3. Open in the model: power failures in `live`, on an instance small enough for it; the two processes
   of Fleet with reboots, so that `boot_session` and the order of events can be stated there.
