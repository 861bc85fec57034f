------------------------------ MODULE Delivery ------------------------------
(***************************************************************************)
(* What the program promises, whatever is inside it: entries are recorded, *)
(* delivered and released, in that order.  Release is for good: the        *)
(* device has been told that it may overwrite the entry.  That an entry    *)
(* may be delivered several times does not show here, nor who else may     *)
(* free entries; that nothing recorded stays undelivered for ever is a     *)
(* matter of liveness.                                                     *)
(***************************************************************************)
VARIABLES
    recorded,   \* entries the devices have recorded
    delivered,  \* entries whose event is in the sink
    released    \* entries the collector told a device to free

vars == <<recorded, delivered, released>>

Init == recorded = {} /\ delivered = {} /\ released = {}

Record == /\ recorded \subseteq recorded'
          /\ UNCHANGED <<delivered, released>>

(* Only what was recorded is delivered, and nothing is taken back.         *)
Deliver == /\ delivered \subseteq delivered'
           /\ delivered' \subseteq recorded
           /\ UNCHANGED <<recorded, released>>

(* Only what has been delivered before is released.  The command that does *)
(* so may leave an entry of its own.                                       *)
Release == /\ released \subseteq released'
           /\ released' \subseteq delivered
           /\ recorded \subseteq recorded'
           /\ UNCHANGED delivered

Next == Record \/ Deliver \/ Release

Spec == Init /\ [][Next]_vars
=============================================================================
