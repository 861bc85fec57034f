------------------------------- MODULE Fleet --------------------------------
(***************************************************************************)
(* Several devices and two processes: the service (`run`) polls the        *)
(* devices in turn, and `once`, started by hand, does the same beside it,  *)
(* with or without --dry-run (src/src/main.rs `main`, `poll_all`,          *)
(* `run_forever`).  They share the devices, the sink and the state files.  *)
(*                                                                         *)
(* A poll is what matters of module Collector to the other process: when   *)
(* it reads the device, when it loads and saves the cursor, and when it    *)
(* emits and acknowledges.  The entries of all devices are one sequence,   *)
(* so that an id, and with it a digest, names one entry of one device.     *)
(***************************************************************************)
EXTENDS AuditLog, Sequences, Config

CONSTANTS
    Configs,        \* configuration files to start from
    Processes,      \* {"run", "once"} or one of them
    DryRuns,        \* process -> the values of --dry-run it is started with
    FirstItem,      \* item number of the first entry of every device
    Torn,           \* content of a state file that is not a complete state
    FailAt,         \* steps at which a poll may fail or the process die
    MaxEntries,     \* bound: entries of all devices
    MaxOnce         \* bound: times `once` is started

Steps == {"poll", "load", "emit", "ack", "save", "rename"}

ASSUME FleetAssumption ==
    /\ Processes \subseteq {"run", "once"}
    /\ DryRuns \in [Processes -> SUBSET BOOLEAN]
    /\ FirstItem \in Items
    /\ \A c \in Configs : c.devices \in Seq({c.devices[i] : i \in DOMAIN c.devices})
    /\ FailAt \subseteq Steps
    /\ MaxEntries \in Nat
    /\ MaxOnce \in Nat

VARIABLES
    config,         \* the configuration all processes load
    log,            \* every entry of every device, by id
    freed,          \* device -> its ids up to this one were acknowledged
    files,          \* path -> DeviceState, or Torn
    racing,         \* paths on which two saves have met, until all of them end
    emitted,        \* history: entry events that reached the sink
    pc,             \* process -> the step it takes next, or "down"
    turn,           \* process -> position of the device it polls
    dry_run,        \* process -> it was started with --dry-run
    state,          \* process -> DeviceState in memory
    entries,        \* process -> ids of the entries it read
    transformed,    \* process -> what transform() returned
    onces           \* times `once` was started

pollVars == <<pc, turn, dry_run, state, entries, transformed>>
vars == <<config, log, freed, files, racing, emitted, pollVars, onces>>

Devices == DOMAIN config.devices
File(d) == path(config.devices[d])
Buffer(d) == {e \in DOMAIN log : log[e].dev = d /\ e > freed[d]}
Recorded(d) == {e \in DOMAIN log : log[e].dev = d}

(* DeviceState::default(), which load() also returns when there is no file.*)
(* Of last_log_store_used matters only that it is there, the baseline.     *)
DefaultState == [last_item |-> None, last_digest |-> None, last_tick |-> None,
                 sequence |-> 0, boot_session |-> 0, baseline |-> FALSE]
NothingTransformed ==
    [new_entries |-> {}, events |-> {}, sequence |-> 0, boot_session |-> 0]

Init ==
    /\ config \in Configs
    /\ log = << >>
    /\ freed = [d \in Devices |-> 0]
    /\ files = [f \in {File(d) : d \in Devices} |-> DefaultState]
    /\ racing = {}
    /\ emitted = {}
    /\ pc = [p \in Processes |-> "down"]
    /\ turn = [p \in Processes |-> 1]
    /\ dry_run = [p \in Processes |-> FALSE]
    /\ state = [p \in Processes |-> DefaultState]
    /\ entries = [p \in Processes |-> {}]
    /\ transformed = [p \in Processes |-> NothingTransformed]
    /\ onces = 0

Forget(p) ==
    /\ state' = [state EXCEPT ![p] = DefaultState]
    /\ entries' = [entries EXCEPT ![p] = {}]
    /\ transformed' = [transformed EXCEPT ![p] = NothingTransformed]

GoDown(p) ==
    /\ turn' = [turn EXCEPT ![p] = 1]
    /\ dry_run' = [dry_run EXCEPT ![p] = FALSE]
    /\ pc' = [pc EXCEPT ![p] = "down"]

(* poll() has returned, ok or not: the next device is polled; after the    *)
(* last one `once` exits, and the service starts its next cycle.           *)
EndPoll(p) ==
    /\ Forget(p)
    /\ IF turn[p] < Len(config.devices)
       THEN /\ turn' = [turn EXCEPT ![p] = @ + 1]
            /\ pc' = [pc EXCEPT ![p] = "poll"]
            /\ UNCHANGED dry_run
       ELSE IF p = "run"
       THEN /\ turn' = [turn EXCEPT ![p] = 1]
            /\ pc' = [pc EXCEPT ![p] = "poll"]
            /\ UNCHANGED dry_run
       ELSE GoDown(p)

(* The paths on which saves have met, when process p begins or ends one.   *)
Saving(f) == {q \in Processes : pc[q] \in {"save", "rename"} /\ File(turn[q]) = f}
BeginSave(p) ==
    /\ pc' = [pc EXCEPT ![p] = "save"]
    /\ racing' = IF Saving(File(turn[p])) # {} THEN racing \union {File(turn[p])} ELSE racing
StillRacing(p) ==
    IF pc[p] \in {"save", "rename"} /\ Saving(File(turn[p])) = {p}
    THEN racing \ {File(turn[p])} ELSE racing

-----------------------------------------------------------------------------
(* An application makes a device record an entry.                          *)
Record(d) ==
    /\ Len(log) < MaxEntries
    /\ LET own == Recorded(d)
       IN  log' = Append(log,
             [dev |-> d,
              item |-> IF own = {} THEN FirstItem ELSE wrapping_add(log[Max(own)].item, 1),
              prev |-> IF own = {} THEN 0 ELSE Max(own),
              boot |-> FALSE, tick |-> 0])
    /\ UNCHANGED <<config, freed, files, racing, emitted, pollVars, onces>>

(* main(): the configuration is loaded and validated, and the first cycle  *)
(* begins.  A process that died is started again.                          *)
Start(p) ==
    /\ pc[p] = "down"
    /\ validate(config)
    /\ p = "once" => onces < MaxOnce
    /\ onces' = IF p = "once" THEN onces + 1 ELSE onces
    /\ \E b \in DryRuns[p] : dry_run' = [dry_run EXCEPT ![p] = b]
    /\ pc' = [pc EXCEPT ![p] = "poll"]
    /\ UNCHANGED <<config, log, freed, files, racing, emitted, turn, state, entries,
                   transformed>>

(* try_fast_path(): the cursor is loaded, and saved again with nothing     *)
(* changed but the count of skips.  There must be a baseline; whether the  *)
(* probe's answer agrees with it is left open.                             *)
Skip(p) ==
    /\ pc[p] = "poll"
    /\ fast_path_enabled(config)
    /\ ~dry_run[p]
    /\ files[File(turn[p])] # Torn
    /\ files[File(turn[p])].baseline
    /\ state' = [state EXCEPT ![p] = files[File(turn[p])]]
    /\ BeginSave(p)
    /\ UNCHANGED <<config, log, freed, files, emitted, turn, entries, transformed,
                   dry_run, onces>>

(* connect() and get_log_entries().                                        *)
Read(p) ==
    /\ pc[p] = "poll"
    /\ entries' = [entries EXCEPT ![p] = Buffer(turn[p])]
    /\ pc' = [pc EXCEPT ![p] = "load"]
    /\ UNCHANGED <<config, log, freed, files, racing, emitted, turn, state, transformed,
                   dry_run, onces>>

(* Only then is the cursor loaded, and transform() called.  A state file   *)
(* that does not parse ends the poll.                                      *)
Load(p) ==
    /\ pc[p] = "load"
    /\ LET st == files[File(turn[p])]
       IN  IF st = Torn
           THEN EndPoll(p)
           ELSE /\ state' = [state EXCEPT ![p] = st]
                /\ transformed' = [transformed EXCEPT ![p] = transform(log, entries[p], st)]
                /\ pc' = [pc EXCEPT ![p] = "emit"]
                /\ entries' = [entries EXCEPT ![p] = {}]
                /\ UNCHANGED <<turn, dry_run>>
    /\ UNCHANGED <<config, log, freed, files, racing, emitted, onces>>

(* The events are written and the sink is flushed; a dry run ends here.    *)
Emit(p) ==
    /\ pc[p] = "emit"
    /\ emitted' = emitted \union transformed[p].events
    /\ IF dry_run[p]
       THEN EndPoll(p)
       ELSE /\ pc' = [pc EXCEPT ![p] = "ack"]
            /\ UNCHANGED <<turn, dry_run, state, entries, transformed>>
    /\ UNCHANGED <<config, log, freed, files, racing, onces>>

(* A write fails after some of the events: the poll ends.                  *)
EmitFails_Ignored(p) ==
    /\ pc[p] = "emit"
    /\ "emit" \in FailAt
    /\ \E upTo \in transformed[p].new_entries :
         emitted' = emitted \union {v \in transformed[p].events : v.id <= upTo}
    /\ pc' = [pc EXCEPT ![p] = "ack"]
    /\ UNCHANGED <<config, log, freed, files, racing, turn, state, entries, transformed,
                   dry_run, onces>>
EmitFails(p) ==
    /\ pc[p] = "emit"
    /\ "emit" \in FailAt
    /\ \E upTo \in transformed[p].new_entries :
         emitted' = emitted \union {v \in transformed[p].events : v.id <= upTo}
    /\ EndPoll(p)
    /\ UNCHANGED <<config, log, freed, files, racing, onces>>

(* set_log_index names an item number: the device frees up to the entry    *)
(* that has it, which the other process may have freed already.            *)
Acknowledge(p) ==
    /\ pc[p] = "ack"
    /\ LET d == turn[p]
           new == transformed[p].new_entries
       IN  IF new = {}
           THEN /\ state' = [state EXCEPT ![p].baseline = fast_path_enabled(config)]
                /\ UNCHANGED freed
           ELSE LET item == log[Max(new)].item
                    named == {e \in Buffer(d) : log[e].item = item}
                IN  /\ freed' = [freed EXCEPT ![d] = IF named = {} THEN @ ELSE Max(named)]
                    /\ state' = [state EXCEPT ![p] =
                                   [last_item |-> item,
                                    last_digest |-> Max(new),
                                    last_tick |-> log[Max(new)].tick,
                                    sequence |-> transformed[p].sequence,
                                    boot_session |-> transformed[p].boot_session,
                                    baseline |-> fast_path_enabled(config)]]
    /\ transformed' = [transformed EXCEPT ![p] = NothingTransformed]
    /\ BeginSave(p)
    /\ UNCHANGED <<config, log, files, emitted, turn, entries, dry_run, onces>>

-----------------------------------------------------------------------------
(* DeviceState::save(), whose temporary file has one name for all          *)
(* processes.  Of two saves that meet, one may write into the file the     *)
(* other has renamed already, or rename the file the other still writes:   *)
(* module StateFile has the details.                                       *)

WriteIntoRenamed(p) ==
    /\ pc[p] = "save"
    /\ File(turn[p]) \in racing
    /\ \E st \in {state[p], Torn} : files' = [files EXCEPT ![File(turn[p])] = st]
    /\ UNCHANGED <<config, log, freed, racing, emitted, pollVars, onces>>

SaveRemove(p) ==
    /\ pc[p] = "save"
    /\ files' = [files EXCEPT ![File(turn[p])] = DefaultState]
    /\ pc' = [pc EXCEPT ![p] = "rename"]
    /\ UNCHANGED <<config, log, freed, racing, emitted, turn, state, entries, transformed,
                   dry_run, onces>>

SaveRename(p) ==
    /\ pc[p] = "rename"
    /\ LET f == File(turn[p])
       IN  \E st \in IF f \in racing THEN {state[q] : q \in Saving(f)} \union {Torn}
                     ELSE {state[p]} :
             files' = [files EXCEPT ![f] = st]
    /\ racing' = StillRacing(p)
    /\ EndPoll(p)
    /\ UNCHANGED <<config, log, freed, emitted, onces>>

(* A call returns an error, and the poll of this device ends.              *)
Fail(p) ==
    /\ pc[p] \in FailAt
    /\ racing' = StillRacing(p)
    /\ EndPoll(p)
    /\ UNCHANGED <<config, log, freed, files, emitted, onces>>

(* The process dies.                                                       *)
Die(p) ==
    /\ pc[p] \in FailAt
    /\ racing' = StillRacing(p)
    /\ Forget(p)
    /\ GoDown(p)
    /\ UNCHANGED <<config, log, freed, files, emitted, onces>>

Step(p) ==
    \/ Start(p) \/ Skip(p) \/ Read(p) \/ Load(p) \/ Emit(p) \/ EmitFails(p)
    \/ Acknowledge(p) \/ WriteIntoRenamed(p) \/ SaveRemove(p) \/ SaveRename(p)
    \/ Fail(p) \/ Die(p)

Next == (\E d \in Devices : Record(d)) \/ (\E p \in Processes : Step(p))

Spec == Init /\ [][Next]_vars

-----------------------------------------------------------------------------
Delivered == {v.id : v \in emitted}

(* No entry is freed on any device before its event is in the sink, even   *)
(* when two processes poll the same device, acknowledge what the other has *)
(* read, and overwrite or tear each other's cursor (main.rs:193: "entries  *)
(* stay on the device until they have been delivered").                    *)
NothingLost ==
    \A e \in DOMAIN log : e <= freed[log[e].dev] => e \in Delivered

(* Whatever load() returns for a device, every entry of that device up to  *)
(* the cursor is in the sink: a save that was overtaken may move a cursor  *)
(* back, and a cursor never moves over an entry that is still owed.        *)
CursorCovered ==
    \A d \in Devices :
        LET st == files[File(d)]
        IN  st # Torn /\ st.last_digest # None =>
                \A e \in Recorded(d) : e <= st.last_digest => e \in Delivered

(* No verdict of the hash chain is wrong because another process moved the *)
(* cursor, or because another device is polled next: an "ok" has its       *)
(* predecessor in the sink, and a log nobody touched raises no "mismatch". *)
ChainVerdicts ==
    \A v \in emitted :
        /\ v.chain_status = "ok" => log[v.id].prev \in Delivered
        /\ v.chain_status # "mismatch"

(* All processes and devices together do what Delivery promises.           *)
Promise == INSTANCE Delivery WITH
               recorded  <- DOMAIN log,
               delivered <- Delivered,
               released  <- {e \in DOMAIN log : e <= freed[log[e].dev]}
KeepsPromise == Promise!Spec

-----------------------------------------------------------------------------
(* What the proofs suppose.  No two devices of a configuration that is     *)
(* accepted share a state file: `shared_file` shows what happens then.     *)
Apart ==
    \A c \in Configs : validate(c) =>
        \A d, e \in DOMAIN c.devices : path(c.devices[d]) = path(c.devices[e]) => d = e

(* No entry in a buffer, in a read or in a cursor is half the range of the *)
(* item number behind the newest entry of its device, which is what        *)
(* is_newer() needs to tell newer from older.                              *)
Behind(e) == Cardinality({x \in Recorded(log[e].dev) : x > e})
Cursors ==
    {st \in {files[f] : f \in DOMAIN files} \ {Torn} : st.last_digest # None}
        \union {st \in {state[p] : p \in Processes} : st.last_digest # None}
InWindow ==
    /\ \A d \in Devices : \A e \in Buffer(d) : Behind(e) < Half
    /\ \A p \in Processes : \A e \in entries[p] \union transformed[p].new_entries :
          Behind(e) < Half
    /\ \A st \in Cursors : Behind(st.last_digest) < Half

-----------------------------------------------------------------------------
(* The inductive invariant behind NothingLost and ChainVerdicts.           *)

LogEntries == [dev: Devices, item: Items, prev: Nat, boot: BOOLEAN, tick: Nat]
DeviceStates ==
    [last_item: Items \union {None}, last_digest: Nat \union {None},
     last_tick: Nat \union {None}, sequence: Nat, boot_session: Nat, baseline: BOOLEAN]
Events == [id: DOMAIN log, sequence: Nat, boot_session: Nat,
           chain_status: {"ok", "mismatch", "unverified", None}]
Transformed == [new_entries: SUBSET DOMAIN log, events: SUBSET Events,
                sequence: Nat, boot_session: Nat]

SharedTypeOK ==
    /\ config \in Configs
    /\ log \in Seq(LogEntries)
    /\ freed \in [Devices -> 0 .. Len(log)]
    /\ files \in [{File(d) : d \in Devices} -> DeviceStates \union {Torn}]
    /\ racing \subseteq {File(d) : d \in Devices}
    /\ emitted \subseteq Events
    /\ onces \in Nat

ProcessTypeOK ==
    /\ pc \in [Processes -> Steps \union {"down"}]
    /\ turn \in [Processes -> Nat]
    /\ dry_run \in [Processes -> BOOLEAN]
    /\ state \in [Processes -> DeviceStates]
    /\ entries \in [Processes -> SUBSET DOMAIN log]
    /\ transformed \in [Processes -> Transformed]

(* An entry is numbered and hashed after the one before it on its device.  *)
Earlier(e) == {x \in Recorded(log[e].dev) : x < e}
LinksOK ==
    \A e \in DOMAIN log : Earlier(e) # {} =>
        /\ log[e].prev \in Earlier(e)
        /\ \A x \in Earlier(e) : x <= log[e].prev
        /\ log[e].item = wrapping_add(log[log[e].prev].item, 1)

(* Short of half the range, a distance between item numbers counts the     *)
(* entries of the device in between.                                       *)
Between(e, f) == {x \in Recorded(log[f].dev) : e < x /\ x <= f}
ItemsInOrder ==
    \A e, f \in DOMAIN log :
        /\ log[e].dev = log[f].dev
        /\ e < f
        /\ Cardinality(Between(e, f)) < Half
        => wrapping_sub(log[f].item, log[e].item) = Cardinality(Between(e, f))

(* A cursor is empty, or it names an entry of its device with nothing owed *)
(* at or before it.                                                        *)
CursorOK(d, st) ==
    \/ st.last_item = None /\ st.last_digest = None
    \/ /\ st.last_digest \in Recorded(d)
       /\ st.last_item = log[st.last_digest].item
       /\ \A e \in Recorded(d) : e <= st.last_digest => e \in Delivered
CursorsOK ==
    \A d \in Devices : files[File(d)] # Torn => CursorOK(d, files[File(d)])

(* A process that runs has a configuration that was accepted, and polls a  *)
(* device of it.                                                           *)
TurnOK(p) ==
    IF pc[p] = "down" THEN turn[p] = 1 ELSE validate(config) /\ turn[p] \in Devices

(* What a process has read is a piece of its device's log.                 *)
BatchOK(p) ==
    \A x \in entries[p] :
        /\ x \in Recorded(turn[p])
        /\ \A y \in Recorded(turn[p]) :
             /\ y <= x => y \in entries[p] \union Delivered
             /\ \A z \in entries[p] : x <= y /\ y <= z => y \in entries[p]

(* Nothing owed lies before a new entry and outside the new ones; they     *)
(* have their events, and these are in the sink before the device is told. *)
NewOK(p) ==
    LET new == transformed[p].new_entries
    IN  /\ \A x \in new :
             /\ x \in Recorded(turn[p])
             /\ \A y \in Recorded(turn[p]) : y <= x => y \in new \union Delivered
        /\ {v.id : v \in transformed[p].events} = new
        /\ pc[p] = "ack" => new \subseteq Delivered

(* An "ok" vouches for a delivered entry or one whose event goes before.   *)
VerdictsOK(p) ==
    \A v \in transformed[p].events :
        /\ v.chain_status # "mismatch"
        /\ v.chain_status = "ok" =>
              log[v.id].prev \in Delivered \union {u \in transformed[p].new_entries : u < v.id}

ProcessOK(p) ==
    /\ TurnOK(p)
    /\ CursorOK(turn[p], state[p])
    /\ BatchOK(p)
    /\ NewOK(p)
    /\ VerdictsOK(p)

FleetInvariant ==
    /\ SharedTypeOK
    /\ ProcessTypeOK
    /\ LinksOK
    /\ ItemsInOrder
    /\ NothingLost
    /\ CursorsOK
    /\ \A p \in Processes : ProcessOK(p)
    /\ ChainVerdicts
=============================================================================
