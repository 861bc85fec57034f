------------------------------ MODULE AuditLog ------------------------------
(***************************************************************************)
(* The pure half of the collector: which entries of a read are new, and    *)
(* what each of them is labelled with (src/src/collector.rs `transform`    *)
(* and `select_new`, src/src/event.rs `is_newer`, `is_boot_entry`).        *)
(*                                                                         *)
(* An entry is named by its id, its position in the sequence of everything *)
(* the device ever recorded.  Ids are not visible to the program; they are *)
(* the ground truth the properties are stated in.  Digests are ideal: the  *)
(* digest of entry e is e itself, and "prev" is the digest e was hashed    *)
(* over, so that expected_digest(d, e) = e.digest exactly when e.prev = d. *)
(* The entries of one read are a set of ids, their device order being the  *)
(* order of the ids.                                                       *)
(***************************************************************************)
EXTENDS Integers, FiniteSets, FiniteSetsExt

CONSTANTS
    Half,           \* 0x8000: half the range of the 16-bit item number
    None,           \* the absent value of an Option
    verify_chain    \* Config.verify_chain

ASSUME HalfAssumption == Half \in Nat \ {0}
ASSUME NoneAssumption == None \notin Int /\ None \notin {"ok", "mismatch", "unverified"}

ItemMod == 2 * Half         \* the item number is a u16
Items == 0 .. (ItemMod - 1)

(* event::LogEntry, with the fields the control depends on.  "boot" stands *)
(* for the fields is_boot_entry looks at; "own" tells the collector's own  *)
(* commands from those of the applications (only properties read it), and  *)
(* "era" counts the device's power cycles (only properties read it).       *)
LogEntry ==
    [item: Items, prev: Nat, boot: BOOLEAN, tick: Nat, own: BOOLEAN, era: Nat]

(* u16 arithmetic on operands that are themselves item numbers.            *)
wrapping_add_Checked(a, b) == a + b
wrapping_add(a, b) == IF a + b < ItemMod THEN a + b ELSE a + b - ItemMod
wrapping_sub(a, b) == IF a >= b THEN a - b ELSE a - b + ItemMod

is_newer_NoWrap(item, last) == item > last
is_newer(item, last) == item # last /\ wrapping_sub(item, last) < Half

is_boot_entry(entry) == entry.boot

(* Entries not emitted before, in the sense of the saved cursor.           *)
select_new_All(log, entries, state) == entries
select_new(log, entries, state) ==
    IF state.last_item = None
    THEN entries
    ELSE {e \in entries : /\ is_newer(log[e].item, state.last_item)
                          /\ state.last_digest # e}

(* The entry of "new" that device order puts just before e, if any.        *)
Before(new, e) == {p \in new : p < e}

(* The digest the first new entry is checked against: the saved one, and   *)
(* only if that entry directly follows the saved item.                     *)
previous_digest_Unfiltered(log, new, state) == state.last_digest
previous_digest(log, new, state) ==
    IF /\ state.last_digest # None
       /\ state.last_item # None
       /\ new # {}
       /\ log[Min(new)].item = wrapping_add(state.last_item, 1)
    THEN state.last_digest
    ELSE None

chain_status_Trusting(log, new, state, e) ==
    LET previous == IF Before(new, e) = {}
                    THEN previous_digest(log, new, state)
                    ELSE Max(Before(new, e))
    IN  IF previous = None \/ log[e].prev = previous THEN "ok" ELSE "mismatch"
chain_status(log, new, state, e) ==
    LET previous == IF Before(new, e) = {}
                    THEN previous_digest(log, new, state)
                    ELSE Max(Before(new, e))
    IN  IF previous = None THEN "unverified"
        ELSE IF log[e].prev = previous THEN "ok" ELSE "mismatch"

(* A reboot shows as a boot entry or as a tick below the preceding one.    *)
rebooted_SameTick(log, new, state, e) ==
    LET previous_tick == IF Before(new, e) = {}
                         THEN state.last_tick
                         ELSE log[Max(Before(new, e))].tick
    IN  \/ is_boot_entry(log[e])
        \/ previous_tick # None /\ log[e].tick <= previous_tick
rebooted(log, new, state, e) ==
    LET previous_tick == IF Before(new, e) = {}
                         THEN state.last_tick
                         ELSE log[Max(Before(new, e))].tick
    IN  \/ is_boot_entry(log[e])
        \/ previous_tick # None /\ log[e].tick < previous_tick

(* The reboots that are counted: not the one that opens a new cursor.      *)
counted_reboots(log, new, state) ==
    {e \in new : /\ rebooted(log, new, state, e)
                 /\ ~(Before(new, e) = {} /\ state.last_tick = None)}

(* The event transform() builds for entry e of the new entries.            *)
entry_event(log, new, state, e) ==
    [id           |-> e,
     sequence     |-> state.sequence + Cardinality({p \in new : p <= e}),
     boot_session |-> state.boot_session
                        + Cardinality({p \in counted_reboots(log, new, state) : p <= e}),
     chain_status |-> IF verify_chain THEN chain_status(log, new, state, e) ELSE None]

(* Everything transform() returns.  events is a set: its order is the      *)
(* order of the ids.                                                       *)
transform(log, entries, state) ==
    LET new == select_new(log, entries, state)
    IN  [new_entries  |-> new,
         events       |-> {entry_event(log, new, state, e) : e \in new},
         sequence     |-> state.sequence + Cardinality(new),
         boot_session |-> state.boot_session
                            + Cardinality(counted_reboots(log, new, state))]
=============================================================================
