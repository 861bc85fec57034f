----------------------------- MODULE CursorCell -----------------------------
(***************************************************************************)
(* What the state file of one device promises its only writer: a cell that *)
(* holds a complete DeviceState or nothing, and that changes only while a  *)
(* save is under way.  A save that is cut short leaves the old state, the  *)
(* new one, or none at all.  A machine that stops may bring back what the  *)
(* cell held before, but nothing it never held.                            *)
(***************************************************************************)
CONSTANTS
    DeviceStates,   \* the values that may be saved
    Absent          \* no file: load() returns the default state

VARIABLES
    cell,       \* what load() would find
    saving,     \* the state being saved: {st}, or {} between two saves
    older       \* what a stop of the machine may bring back, cell included

Init == cell = Absent /\ saving = {} /\ older = {Absent}

Begin == /\ saving = {}
         /\ \E st \in saving' : saving' = {st} /\ st \in DeviceStates
         /\ UNCHANGED <<cell, older>>

(* The cell changes; earlier contents may or may not be gone for good.     *)
Becomes(v) == cell' = v /\ older' \in {{v}, older \union {v}}

(* The new state takes the place of the old one, which ends the save.      *)
Replace == (\E st \in saving : Becomes(st)) /\ saving' = {}

(* The old state is no longer there and the new one is not there yet.      *)
Lose == saving # {} /\ Becomes(Absent) /\ UNCHANGED saving

(* The save is over without that: it failed, or died with its process.     *)
End == /\ saving # {}
       /\ saving' = {}
       /\ UNCHANGED <<cell, older>>

(* The directory reaches the disk, in its own time.                        *)
Settle == older' = {cell} /\ UNCHANGED <<cell, saving>>

(* The machine stops, and with it any save.                                *)
Revert == /\ cell' \in older
          /\ older' = {cell'}
          /\ saving' = {}

Next == Begin \/ Replace \/ Lose \/ End \/ Settle \/ Revert

Spec == Init /\ [][Next]_<<cell, saving, older>>
=============================================================================
