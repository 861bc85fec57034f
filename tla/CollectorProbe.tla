--------------------------- MODULE CollectorProbe ---------------------------
(***************************************************************************)
(* The collector behind a probe that may answer anything, with the frames  *)
(* those answers are read from.                                            *)
(***************************************************************************)
EXTENDS CollectorInv, ProbeFrame

(* The figures of the device as its answer carries them, with serial       *)
(* numbers that use every byte.                                            *)
Figures ==
    [version: {<<2, 4, 0>>}, serial: {66051, 2147418121},
     log_store_capacity: {Capacity}, log_store_used: {log_store_used, 255}]
Algorithms == {<< >>, <<1>>, <<9, 255>>}

(* When a poll may be answered from the probe alone: probe.rs parse()      *)
(* yields the figures of the device for the frames it sends, whatever      *)
(* algorithms or bytes follow them, and rejects every frame that is cut    *)
(* off, declares a body it does not have or one too short, or is another   *)
(* message.  No figure poll_reason() compares comes from outside the       *)
(* declared body.                                                          *)
ParseSound ==
    pc = "skip" =>
        \A info \in Figures, a \in Algorithms :
            /\ \A behind \in {<< >>, <<7>>, <<7, 8>>} :
                 parse(Encode(info, a) \o behind) = info
            /\ \A damaged \in Damaged(info, a) : parse(damaged) = Rejected
=============================================================================
