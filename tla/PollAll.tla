------------------------------ MODULE PollAll ------------------------------
(***************************************************************************)
(* The service: src/src/main.rs `run_forever` and `poll_all`, which polls  *)
(* the devices one after the other with one sink per cycle, and, of each   *)
(* poll, the order src/src/collector.rs `poll_device` keeps: read, write   *)
(* every event, flush, acknowledge.  What a write and a flush do is left   *)
(* to the module of the sink, which EXTENDS this one and says when they    *)
(* return and what.  The inside of a poll is in module Collector.          *)
(***************************************************************************)
EXTENDS Integers, Sequences

CONSTANTS
    NumDevices,     \* Config.devices, in order
    Entries,        \* bound: entries a device records
    Broken          \* devices that cannot be reached at all

ASSUME PollAllAssumption ==
    /\ NumDevices \in Nat \ {0}
    /\ Entries \in Nat
    /\ Broken \subseteq 1 .. NumDevices

Devices == 1 .. NumDevices

VARIABLES
    turn,       \* the device being polled, 0 between two cycles
    phase,      \* "idle", "read", "write", "flush", "ack" or "stopped"
    next,       \* the entry whose event is written next
    read,       \* the newest entry the running poll has read
    recorded,   \* device -> entries it recorded
    acked,      \* device -> entries acknowledged to it
    shutdown    \* the flag the signal handler sets

pollVars == <<turn, phase, next, read>>
pollAllVars == <<pollVars, recorded, acked, shutdown>>

(* The event of entry k of device d is <<d, k>>.                           *)
Current == <<turn, next>>
Recorded == {e \in Devices \X (1 .. Entries) : e[2] <= recorded[e[1]]}
Acked == {e \in Devices \X (1 .. Entries) : e[2] <= acked[e[1]]}

PollAllInit ==
    /\ turn = 0
    /\ phase = "idle"
    /\ next = 0
    /\ read = 0
    /\ recorded = [d \in Devices |-> 0]
    /\ acked = [d \in Devices |-> 0]
    /\ shutdown = FALSE

(* A poll is over, well or not: the next device has its turn.              *)
NextDevice ==
    /\ IF turn < NumDevices
       THEN turn' = turn + 1 /\ phase' = "read"
       ELSE turn' = 0 /\ phase' = "idle"
    /\ next' = 0
    /\ read' = 0
    /\ UNCHANGED <<recorded, shutdown>>

(* The sink was built, and the first device has its turn.  If it cannot be *)
(* built nothing happens in this cycle.                                    *)
StartCycle ==
    /\ phase = "idle"
    /\ ~shutdown
    /\ turn' = 1
    /\ phase' = "read"
    /\ UNCHANGED <<next, read, recorded, acked, shutdown>>

(* A poll reads what the device still holds.                               *)
ReadLog ==
    /\ phase = "read"
    /\ turn \notin Broken
    /\ read' = recorded[turn]
    /\ next' = acked[turn] + 1
    /\ phase' = IF acked[turn] < recorded[turn] THEN "write" ELSE "flush"
    /\ UNCHANGED <<turn, recorded, acked, shutdown>>

(* sink.write() of one event returned Ok.                                  *)
Written ==
    /\ next' = next + 1
    /\ phase' = IF next < read THEN "write" ELSE "flush"
    /\ UNCHANGED <<turn, read, recorded, acked, shutdown>>

(* sink.flush() returned Ok.                                               *)
Flushed ==
    /\ phase' = "ack"
    /\ UNCHANGED <<turn, next, read, recorded, acked, shutdown>>

(* What was read is acknowledged, if there is anything new in it.          *)
Acknowledge ==
    /\ phase = "ack"
    /\ acked' = [acked EXCEPT ![turn] = read]
    /\ NextDevice

(* Any call of the poll returned an error: one device more has failed.     *)
PollFails == NextDevice /\ UNCHANGED acked

(* The device does not answer set_log_index: the entries are read again.   *)
AckFails ==
    /\ phase = "ack"
    /\ acked[turn] < read
    /\ PollFails

Unreachable == phase = "read" /\ PollFails

(* The process dies and is started again, unless it was stopping anyway.   *)
Crash ==
    /\ phase # "stopped"
    /\ turn' = 0
    /\ phase' = IF shutdown THEN "stopped" ELSE "idle"
    /\ next' = 0
    /\ read' = 0
    /\ UNCHANGED <<recorded, acked, shutdown>>

(* The flag is looked at between two cycles only.                          *)
Stop ==
    /\ phase = "idle"
    /\ shutdown
    /\ phase' = "stopped"
    /\ UNCHANGED <<turn, next, read, recorded, acked, shutdown>>

-----------------------------------------------------------------------------
(* From outside: a device records an entry; the service is told to stop.   *)
RecordEntry ==
    /\ \E d \in Devices : /\ recorded[d] < Entries
                          /\ recorded' = [recorded EXCEPT ![d] = @ + 1]
    /\ UNCHANGED <<pollVars, acked, shutdown>>

Signal ==
    /\ ~shutdown
    /\ shutdown' = TRUE
    /\ UNCHANGED <<pollVars, recorded, acked>>

-----------------------------------------------------------------------------
(* Where the service is in its cycle, whatever the sink: a poll has a      *)
(* device, writes the entries above the acknowledged ones in order, and    *)
(* flushes only when the last entry it read is written.                    *)
PollOK ==
    /\ turn \in 0 .. NumDevices
    /\ phase \in {"idle", "read", "write", "flush", "ack", "stopped"}
    /\ next \in Nat
    /\ read \in Nat
    /\ recorded \in [Devices -> 0 .. Entries]
    /\ acked \in [Devices -> 0 .. Entries]
    /\ shutdown \in BOOLEAN
    /\ turn = 0 <=> phase \in {"idle", "stopped"}
    /\ \A d \in Devices : acked[d] <= recorded[d]
    /\ phase = "write" => acked[turn] < next /\ next <= read /\ read <= recorded[turn]
    /\ phase \in {"flush", "ack"} =>
         acked[turn] <= read /\ next = read + 1 /\ read <= recorded[turn]

(* The events the running poll has written, and so will acknowledge.       *)
Owed == {<<turn, k>> : k \in IF phase \in {"write", "flush", "ack"}
                              THEN acked[turn] + 1 .. next - 1 ELSE {}}
=============================================================================
