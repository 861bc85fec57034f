---------------------------- MODULE CollectorInv ----------------------------
(***************************************************************************)
(* The inductive invariants behind NothingLost and CursorCovered, behind   *)
(* the verdicts of the hash chain, behind SkipCeiling, and behind the      *)
(* numbers of the events.  TLC checks them on small instances, and         *)
(* CollectorProofs proves them inductive.                                  *)
(***************************************************************************)
EXTENDS Collector

(* Entries the collector owes to nobody: they are in the sink, or somebody *)
(* else took them from the device.                                         *)
Done == Delivered \union gone

(* The cursors, and the entries about to be acknowledged, are less than    *)
(* half the range of the item number behind the newest entry: what         *)
(* is_newer() needs to tell newer from older.                              *)
InWindow ==
    /\ \A st \in older \union {state} :
         st.last_digest # None => Len(log) - st.last_digest < Half
    /\ \A e \in transformed.new_entries : Len(log) - e < Half

(* The log was never started over.                                         *)
OneLife == born = 0 /\ resets = 0

(* Distances between item numbers are distances between entries, short of  *)
(* a full turn of the item number.                                         *)
ItemsInOrder ==
    \A i, j \in Ids : i <= j /\ j - i < ItemMod =>
        wrapping_sub(log[j].item, log[i].item) = j - i

(* A cursor is empty, or it names a delivered entry with nothing owed at   *)
(* or before it.                                                           *)
CursorOK(st) ==
    \/ st.last_item = None /\ st.last_digest = None
    \/ /\ st.last_digest \in Ids
       /\ st.last_digest \in Delivered
       /\ st.last_item = log[st.last_digest].item
       /\ 1 .. st.last_digest \subseteq Done

(* No cursor that load() may ever meet claims too much, not even one that  *)
(* comes back when the machine stops.                                      *)
SavedCursorsOK == \A st \in older : CursorOK(st)

(* Nothing owed lies before an entry that was read and outside the read,   *)
(* or before a new entry and outside the new ones.                         *)
BatchOK == \A x \in entries : 1 .. x \subseteq entries \union Done
NewOK == \A x \in transformed.new_entries :
             1 .. x \subseteq transformed.new_entries \union Done

(* There is an event for each new entry, and once they were flushed, all   *)
(* of them are in the sink.                                                *)
EventsOK == {v.id : v \in transformed.events} = transformed.new_entries
FlushedOK == pc = "set_log_index" => transformed.new_entries \subseteq Delivered

(* Taken together, they explain why acknowledging never frees an entry     *)
(* that is still owed: what poll_device() keeps true at each of its steps. *)
PollInvariant ==
    /\ OneLife
    /\ ItemsInOrder
    /\ NothingLost
    /\ SavedCursorsOK
    /\ CursorOK(state)
    /\ BatchOK
    /\ NewOK
    /\ EventsOK
    /\ FlushedOK

-----------------------------------------------------------------------------
(* In one life of the log every entry is hashed over the one before it,    *)
(* and the buffer is never larger than it can be.                          *)
LinksOK == \A e \in Ids : log[e].prev = e - 1
RingOK == log_store_used <= Capacity

(* What was read is a piece of the log that fits the buffer; if it reaches *)
(* back to the cursor the cursor is part of it, and what it has up to the  *)
(* cursor was delivered by an earlier poll.                                *)
ReadOK ==
    pc = "enrich" =>
        \A x \in entries :
            /\ \A y \in entries : x .. y \subseteq entries /\ y - x < Capacity
            /\ state.last_digest # None /\ x <= state.last_digest =>
                   state.last_digest \in entries /\ x \in Delivered

(* What transform() left out of the read is in the sink, and so is all of  *)
(* the read when the device is about to be told.                           *)
SelectedOK == pc = "emit" => entries \subseteq transformed.new_entries \union Delivered

(* An event about to be emitted vouches for a delivered entry, or for one  *)
(* whose own event goes before it.                                         *)
VerdictsOK ==
    \A v \in transformed.events :
        /\ v.chain_status # "mismatch"
        /\ v.chain_status = "ok" =>
               log[v.id].prev \in Delivered \union {u \in transformed.new_entries : u < v.id}

(* Together they explain ReadIsDelivered and the verdicts of the chain.    *)
VerdictInvariant ==
    /\ LinksOK
    /\ RingOK
    /\ ReadOK
    /\ SelectedOK
    /\ VerdictsOK
    /\ ReadIsDelivered
    /\ ChainSound
    /\ NoFalseMismatch

-----------------------------------------------------------------------------
(* What is sent was selected by the cursor that is on disk: between the    *)
(* load and the save of a poll nobody changes it.                          *)
SentInvariant ==
    /\ pc \in {"enrich", "emit"} => state = disk
    /\ NothingSentTwice

-----------------------------------------------------------------------------
(* While a poll is being answered from the probe, polls_skipped counts all *)
(* skips so far, and the ceiling is not reached yet.                       *)
SkippingOK ==
    pc = "skip" => /\ fast_path_enabled
                   /\ skips <= state.polls_skipped
                   /\ force_full_poll_every > 0 => state.polls_skipped < force_full_poll_every

(* Reading the log starts the count of skips again.                        *)
ReadingOK ==
    pc \in {"enrich", "emit", "set_log_index", "commit"} =>
        /\ skips = 0
        /\ ~fast_path_enabled => state.polls_skipped = 0

(* What is saved is the count of a full poll, or of one more skip.         *)
SavingOK ==
    pc \in {"save", "rename"} =>
        \/ state.polls_skipped = 0 /\ skips = 0
        \/ /\ fast_path_enabled
           /\ skips < state.polls_skipped
           /\ force_full_poll_every > 0 => state.polls_skipped <= force_full_poll_every

(* A saved baseline comes with a count of the skips it was used for; where *)
(* a failing save left none, there is no baseline either.                  *)
SavedOK ==
    /\ disk.last_log_store_used # None => skips <= disk.polls_skipped
    /\ \A st \in older : ~fast_path_enabled => st.polls_skipped = 0

(* Together they bound the time the collector does not look at the log,    *)
(* whatever the probe answers and however polls fail.  A machine that      *)
(* stops may take the count of skips back, which then starts anew.         *)
SkipInvariant ==
    /\ SkippingOK
    /\ ReadingOK
    /\ SavingOK
    /\ SavedOK
    /\ SkipCeiling

-----------------------------------------------------------------------------
(* Where nobody but the collector takes entries from the device (it is     *)
(* under force-audit, has no other client and is not reset), the machine   *)
(* keeps running, and no poll fails between acknowledging and saving, the  *)
(* numbers of an event can be read off the log.                            *)
Undisturbed ==
    /\ ForceAudit
    /\ MaxResets = 0
    /\ MaxShared = 0
    /\ ~PowerMayFail
    /\ AbortAt \cap {"commit", "save", "rename"} = {}

(* The reboots that show in the log up to entry e.                         *)
ShowsReboot(lg, k) == is_boot_entry(lg[k]) \/ lg[k].tick < lg[k - 1].tick
Reboots(lg, e) == Cardinality({k \in 2 .. e : ShowsReboot(lg, k)})

(* Power cycles follow each other.  A boot entry opens one, and from there *)
(* on its ticks do not fall, sentinels excepted.                           *)
ErasOK ==
    /\ \A i \in Ids : /\ log[i].era <= boots
                      /\ log[i].era = boots /\ ~Sentinel(i) => log[i].tick <= tick
    /\ \A i, j \in Ids : i < j =>
         /\ log[i].era <= log[j].era
         /\ log[i].era = log[j].era =>
              ~is_boot_entry(log[j]) /\ (~Sentinel(i) => log[i].tick <= log[j].tick)

(* Where ticks fall, a reboot shows.                                       *)
FallsOK ==
    \A i, j \in Ids : i < j /\ log[j].tick < log[i].tick =>
        \E k \in (i + 1) .. j : ShowsReboot(log, k)

(* The entry a cursor names, or 0; a cursor that has counted all up to it. *)
Cursor(st) == IF st.last_digest = None THEN 0 ELSE st.last_digest
TickOK(lg, st) ==
    st.last_tick = IF st.last_digest = None THEN None ELSE lg[st.last_digest].tick
CountsOK(lg, st) == st.sequence = Cursor(st) /\ st.boot_session = Reboots(lg, Cursor(st))

(* A poll works on the state it has loaded, and changes that one only once *)
(* the device has been told.                                               *)
LoadedOK ==
    pc \notin {"commit", "save", "rename"} =>
        state = IF pc \in {"skip", "enrich", "emit", "set_log_index"} THEN disk ELSE DefaultState

(* The device still has all that follows the cursor a poll will start      *)
(* from, and what was freed is never far ahead of any cursor or batch.     *)
FreedOK == freed <= Cursor(IF pc \in {"commit", "save", "rename"} THEN state ELSE disk)
LagOK ==
    /\ disk.last_digest # None => freed <= disk.last_digest + Capacity
    /\ \A e \in transformed.new_entries : freed <= e + Capacity

(* A read continues where the cursor ends, a batch does, and the cursor    *)
(* then moves to the end of it.                                            *)
NextReadOK ==
    pc = "enrich" =>
        \E n \in Cursor(state) .. Len(log) :
            {e \in entries : e > Cursor(state)} = (Cursor(state) + 1) .. n
NextBatchOK ==
    /\ pc \in {"emit", "set_log_index"} =>
         /\ Cursor(state) <= transformed.sequence
         /\ transformed.new_entries = (Cursor(state) + 1) .. transformed.sequence
    /\ pc = "commit" => Cursor(state) = transformed.sequence
    /\ pc \in {"emit", "set_log_index", "commit"} =>
         transformed.boot_session = Reboots(log, transformed.sequence)

(* An event is numbered with the position of its entry, and its session    *)
(* counts the reboots up to it.                                            *)
NumberedOK(lg, events) ==
    \A v \in events : v.sequence = v.id /\ v.boot_session = Reboots(lg, v.id)

(* Together they explain SequenceTotalOrder and BootSessionSound.          *)
OrderInvariant ==
    /\ ErasOK
    /\ FallsOK
    /\ older = {disk}
    /\ CountsOK(log, disk) /\ TickOK(log, disk)
    /\ (pc # "commit" => CountsOK(log, state)) /\ TickOK(log, state)
    /\ LoadedOK
    /\ FreedOK
    /\ LagOK
    /\ NextReadOK
    /\ NextBatchOK
    /\ NumberedOK(log, transformed.events)
    /\ NumberedOK(log, emitted)
=============================================================================
