--------------------------- MODULE CollectorTimes ---------------------------
(***************************************************************************)
(* The times of the events a poll is about to write, in every batch the    *)
(* collector can meet: reads that span reboots, reboots whose boot entry   *)
(* was never recorded, ticks that repeat, boot entries with a sentinel for *)
(* a tick, and entries that are sent again by a later poll.                *)
(***************************************************************************)
EXTENDS CollectorInv, EventTime

(* The newest entry is stamped with the moment of the read and no other    *)
(* one later; time never runs backwards along the batch, so that no entry  *)
(* from before a reboot appears after one from behind it; and entries of   *)
(* one power cycle keep the distance the device measured between them      *)
(* (event.rs TickAnchor, collector.rs build_anchors).                      *)
TimesSound ==
    pc = "emit" =>
        LET new  == transformed.new_entries
            time == event_times(log, new, state, 0)
        IN  /\ new # {} => time[Max(new)] = 0
            /\ \A e, f \in new : e < f =>
                  /\ time[e] <= time[f]
                  /\ log[e].era = log[f].era /\ ~Sentinel(e) =>
                        time[f] - time[e] = log[f].tick - log[e].tick
=============================================================================
