------------------------------- MODULE Device -------------------------------
(***************************************************************************)
(* The YubiHSM 2 behind one endpoint, as far as the collector can tell: a  *)
(* ring buffer of audit entries that any authenticated client adds to and  *)
(* may free, a tick counter, and a count of events it could not record.    *)
(* The device is not part of the repository: it is modelled from how       *)
(* src/src/collector.rs and src/src/probe.rs use it and from what the      *)
(* repository's documents say of it.                                       *)
(***************************************************************************)
EXTENDS AuditLog, Sequences

CONSTANTS
    Capacity,       \* log_store_capacity: 62 on the device
    FirstItem,      \* item number of the first entry looked at
    ForceAudit,     \* a full log refuses instead of overwriting
    Audited,        \* commands of the collector itself that are audited
    Serials,        \* serial numbers an HSM behind the endpoint may have
    FirstSerial,    \* the one it has at first
    TickSteps,      \* by how much the tick may rise between two operations
    BootTicks,      \* ticks a boot entry may carry
    MaxEntries,     \* bound: entries ever recorded
    MaxTick,        \* bound: the tick counter
    MaxBoots,       \* bound: power cycles
    MaxResets,      \* bound: factory resets and replacements
    MaxUnlogged,    \* bound: events the device could not record
    MaxShared       \* bound: times another client frees entries

ASSUME DeviceAssumption ==
    /\ Capacity \in Nat \ {0}
    /\ FirstItem \in Items
    /\ ForceAudit \in BOOLEAN
    /\ FirstSerial \in Serials
    /\ None \notin Serials
    /\ TickSteps \subseteq Nat
    /\ BootTicks \subseteq Nat
    /\ {MaxEntries, MaxTick, MaxBoots, MaxResets, MaxUnlogged, MaxShared} \subseteq Nat

VARIABLES
    log,        \* every entry ever recorded, by id
    freed,      \* ids up to this one have left the ring buffer
    gone,       \* ids that left it other than by the collector's set_log_index
    born,       \* ids up to this one belong to an earlier life of the log
    tick,       \* the tick counter, restarted by a power cycle
    boots,      \* power cycles so far
    serial,     \* serial number of the HSM behind the endpoint
    unlogged,   \* unlogged_boot_events + unlogged_auth_events
    resets,     \* resets so far
    shared      \* times another client freed entries

deviceVars == <<log, freed, gone, born, tick, boots, serial, unlogged, resets, shared>>

Buffer == (freed + 1) .. Len(log)
log_store_used == Len(log) - freed

DeviceTypeOK ==
    /\ log \in Seq(LogEntry)
    /\ freed \in 0 .. Len(log)
    /\ gone \subseteq 1 .. freed
    /\ born \in 0 .. Len(log)
    /\ tick \in Nat
    /\ boots \in Nat
    /\ serial \in Serials
    /\ unlogged \in Nat
    /\ resets \in Nat
    /\ shared \in Nat

DeviceInit ==
    /\ log = << >>
    /\ freed = 0
    /\ gone = {}
    /\ born = 0
    /\ tick = 0
    /\ boots = 0
    /\ serial = FirstSerial
    /\ unlogged = 0
    /\ resets = 0
    /\ shared = 0

(* The next entry of the log, recorded at time t of the power cycle n.     *)
NextEntry(isBoot, isOwn, t, n) ==
    [item |-> IF Len(log) = born THEN FirstItem
              ELSE wrapping_add(log[Len(log)].item, 1),
     prev |-> IF Len(log) = born THEN 0 ELSE Len(log),
     boot |-> isBoot, tick |-> t, own |-> isOwn, era |-> n]

(* Record one entry, the buffer starting after id f.  A full buffer        *)
(* overwrites its oldest entry, or, under force-audit, records nothing: a  *)
(* boot or an authentication that is not recorded is counted as unlogged.  *)
Record(f, isBoot, isOwn, countable, t, n) ==
    \/ /\ Len(log) - f < Capacity
       /\ Len(log) < MaxEntries
       /\ log' = Append(log, NextEntry(isBoot, isOwn, t, n))
       /\ freed' = f
       /\ UNCHANGED <<gone, unlogged>>
    \/ /\ Len(log) - f >= Capacity
       /\ ~ForceAudit
       /\ Len(log) < MaxEntries
       /\ log' = Append(log, NextEntry(isBoot, isOwn, t, n))
       /\ freed' = f + 1
       /\ gone' = gone \union {f + 1}
       /\ UNCHANGED unlogged
    \/ /\ Len(log) - f >= Capacity
       /\ ForceAudit
       /\ countable => unlogged < MaxUnlogged
       /\ unlogged' = IF countable THEN unlogged + 1 ELSE unlogged
       /\ freed' = f
       /\ UNCHANGED <<log, gone>>

(* The entry a command of the collector itself leaves behind, if audited,  *)
(* the buffer starting after id f once the command was executed.           *)
RecordOwn(cmd, f) ==
    IF cmd \in Audited
    THEN Record(f, FALSE, TRUE, cmd = "authenticate_session", tick, boots)
    ELSE freed' = f /\ UNCHANGED <<log, gone, unlogged>>

(* GetDeviceInfo, outside a session: it leaves no entry.                   *)
DeviceInfo == [log_store_used |-> log_store_used,
               log_store_capacity |-> Capacity,
               serial |-> serial]

(* SetLogIndex(item): free the entries up to the one with that number.     *)
FreedBy(item) ==
    IF \E i \in Buffer : log[i].item = item
    THEN CHOOSE i \in Buffer : log[i].item = item
    ELSE freed

-----------------------------------------------------------------------------
(* What happens to the device on its own.                                  *)

(* An application performs an audited operation.                           *)
AppOp ==
    \E d \in TickSteps :
        /\ tick + d <= MaxTick
        /\ Record(freed, FALSE, FALSE, FALSE, tick + d, boots)
        /\ tick' = tick + d
        /\ UNCHANGED <<born, boots, serial, resets, shared>>

(* A power cycle: the tick restarts and a boot entry is recorded, whose    *)
(* own tick may be a sentinel far above those that follow.                 *)
Reboot ==
    /\ boots < MaxBoots
    /\ \E t \in BootTicks : Record(freed, TRUE, FALSE, TRUE, t, boots + 1)
    /\ tick' = 0
    /\ boots' = boots + 1
    /\ UNCHANGED <<born, serial, resets, shared>>

(* Another client reads the log and acknowledges part of it.               *)
OtherConsumer ==
    /\ shared < MaxShared
    /\ \E i \in Buffer :
        /\ freed' = i
        /\ gone' = gone \union ((freed + 1) .. i)
    /\ shared' = shared + 1
    /\ UNCHANGED <<log, born, tick, boots, serial, unlogged, resets>>

(* A factory reset, or another HSM behind the same endpoint: the buffer is *)
(* empty, item numbers and the hash chain start over.                      *)
Reset ==
    /\ resets < MaxResets
    /\ \E s \in Serials : serial' = s
    /\ freed' = Len(log)
    /\ gone' = gone \union Buffer
    /\ born' = Len(log)
    /\ tick' = 0
    /\ boots' = boots + 1
    /\ unlogged' = 0
    /\ resets' = resets + 1
    /\ UNCHANGED <<log, shared>>

DeviceNext == AppOp \/ Reboot \/ OtherConsumer \/ Reset
=============================================================================
