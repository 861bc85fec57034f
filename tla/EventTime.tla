----------------------------- MODULE EventTime -----------------------------
(***************************************************************************)
(* The wall-clock times the events carry: src/src/collector.rs             *)
(* `build_anchors` and the groups `transform` makes for it, with           *)
(* src/src/event.rs `TickAnchor`.                                          *)
(*                                                                         *)
(* The device reports ticks only.  The newest entry of a read is taken to  *)
(* have happened when it was read, and the others are reckoned back from   *)
(* there.  Times are counted here in ticks, tick_hz of which make a        *)
(* second, so that delta_ticks / tick_hz is a plain difference.            *)
(***************************************************************************)
EXTENDS AuditLog

(* The entries that open a group: ticks are compared inside groups only.   *)
group_starts(log, new, state) ==
    {e \in new : Before(new, e) = {} \/ rebooted(log, new, state, e)}

(* The entries of the group that s opens.                                  *)
group(log, new, state, s) ==
    {e \in new : Max({r \in group_starts(log, new, state) : r <= e}) = s}

max_tick(log, new, state, s) == Max({log[e].tick : e \in group(log, new, state, s)})

(* TickAnchor::estimate of an anchor.                                      *)
estimate(anchor, tick) == anchor.epoch - (anchor.tick - tick)

(* The anchor of each group.  The last group ends when the log was read,   *)
(* any other where the first entry of the group after it was estimated.    *)
build_anchors_AllNow(log, new, state, observed_at) ==
    [s \in group_starts(log, new, state) |->
        [tick |-> max_tick(log, new, state, s), epoch |-> observed_at]]
build_anchors(log, new, state, observed_at) ==
    LET starts == group_starts(log, new, state)
        anchor[s \in starts] ==
            LET following == {r \in starts : r > s}
                next      == Min(following)
            IN  [tick  |-> max_tick(log, new, state, s),
                 epoch |-> IF following = {} THEN observed_at
                           ELSE estimate(anchor[next], log[next].tick)]
    IN  anchor

(* AuditEvent.time of every new entry of a read at observed_at.            *)
event_times(log, new, state, observed_at) ==
    LET anchors == build_anchors(log, new, state, observed_at)
    IN  [e \in new |->
            estimate(anchors[Max({s \in DOMAIN anchors : s <= e})], log[e].tick)]
=============================================================================
