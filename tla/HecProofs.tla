----------------------------- MODULE HecProofs ------------------------------
(***************************************************************************)
(* The HEC sink, for any number of devices and entries, any size of the    *)
(* batch and any events the receiver refuses: HecInvariant is inductive,   *)
(* AckedIsAccepted and OnlyOwnEvents hold, and the service with this sink  *)
(* implements Delivery.                                                    *)
(***************************************************************************)
EXTENDS HecSink, PollAllProofs

LEMMA HecInit == Init => HecInvariant
<1> SUFFICES ASSUME Init PROVE HecInvariant
  OBVIOUS
<1>1. PollOK
  BY InitOK DEF Init
<1>2. Acked = {} /\ Owed = {}
  BY InitOK DEF Init, PollAllInit, Owed
<1> QED BY <1>1, <1>2 DEF Init, HecInvariant, AckedIsAccepted, OnlyOwnEvents, PollAllInit, Attempts

(* A poll is over, with everything it wrote posted or given up.            *)
LEMMA HecNext == HecInvariant /\ [Next]_vars => HecInvariant'
<1> SUFFICES ASSUME HecInvariant, [Next]_vars PROVE HecInvariant'
  OBVIOUS
<1>0. /\ PollOK
      /\ attempt \in 0 .. 4
      /\ phase \notin {"write", "flush"} => attempt = 0 /\ batch = {}
      /\ attempt = 0 => body = {}
      /\ attempt # 0 => batch = {}
      /\ Owed \subseteq accepted \union batch \union body
      /\ batch \union body \union accepted \subseteq Recorded
      /\ Acked \subseteq accepted
      /\ \A e \in batch \union body : e[1] = turn
  BY DEF HecInvariant, AckedIsAccepted, OnlyOwnEvents, Attempts
<1> DEFINE Goal == /\ attempt' \in 0 .. 4
                   /\ phase' \notin {"write", "flush"} => attempt' = 0 /\ batch' = {}
                   /\ attempt' = 0 => body' = {}
                   /\ attempt' # 0 => batch' = {}
                   /\ Owed' \subseteq accepted' \union batch' \union body'
                   /\ batch' \union body' \union accepted' \subseteq Recorded'
                   /\ Acked' \subseteq accepted'
                   /\ \A e \in batch' \union body' : e[1] = turn'
<1>goal. SUFFICES PollOK' /\ Goal
  BY DEF HecInvariant, AckedIsAccepted, OnlyOwnEvents, Attempts
(* A step that ends a poll, or comes before its first write, leaves the    *)
(* sink with nothing under way.                                            *)
<1>over. ASSUME StartCycle \/ ReadLog \/ PollFails \/ Crash \/ Stop \/ Acknowledge,
                Acked' \subseteq accepted', accepted' \subseteq accepted \union body,
                attempt' = 0, batch' = {}, body' = {}
         PROVE  PollOK' /\ Goal
  <2>1. PollOK' /\ Owed' = {}
    BY <1>0, <1>over, PollKeeps, NothingOwed
  <2>2. Recorded \subseteq Recorded'
    BY <1>0, <1>over, RecordedGrows
  <2> QED BY <1>0, <1>over, <2>1, <2>2
(* A flush that returns has posted everything.                             *)
<1>flushed. ASSUME phase = "flush", Flushed, accepted' = accepted \union body, batch = {},
                   attempt' = 0, batch' = {}, body' = {}
            PROVE  PollOK' /\ Goal
  <2>1. PollOK' /\ Owed' = Owed /\ Acked' = Acked
    BY <1>0, <1>flushed, PollKeeps, FlushedOwes
  <2>2. Recorded \subseteq Recorded'
    BY <1>0, <1>flushed, RecordedGrows
  <2> QED BY <1>0, <1>flushed, <2>1, <2>2
(* The event just written starts the next batch or joins this one.         *)
<1>written. ASSUME phase = "write", Written, accepted \union batch \union body \subseteq accepted' \union batch',
                   Current \in batch', batch' \subseteq batch \union {Current},
                   accepted \subseteq accepted', accepted' \subseteq accepted \union body,
                   attempt' = 0, body' = {}, \A e \in batch' : e[1] = turn
            PROVE  PollOK' /\ Goal
  <2>1. /\ PollOK' /\ Owed' = Owed \union {Current} /\ Acked' = Acked /\ turn' = turn
        /\ phase' \in {"write", "flush"}
    BY <1>0, <1>written, PollKeeps, WrittenOwes
  <2>2. Recorded \subseteq Recorded' /\ Current \in Recorded
    BY <1>0, <1>written, RecordedGrows, WritesRecorded
  <2> QED BY <1>0, <1>written, <2>1, <2>2
<1>same. ASSUME UNCHANGED pollAllVars
         PROVE  /\ PollOK' /\ Owed' = Owed /\ Acked' = Acked /\ turn' = turn /\ phase' = phase
                /\ Recorded' = Recorded
  BY <1>0, <1>same, PollKeeps DEF pollAllVars, pollVars, Owed, Acked, Recorded
<1>cur. Current[1] = turn
  BY DEF Current
<1>1. CASE BuildSink
  <2>1. StartCycle /\ phase \notin {"write", "flush"} /\ Acked' = Acked
    BY <1>1 DEF BuildSink, StartCycle, Acked
  <2> QED BY <1>0, <1>1, <1>over, <2>1 DEF BuildSink
<1>2. CASE (Stop \/ ReadLog \/ Acknowledge) /\ UNCHANGED sinkVars
  <2>1. phase \notin {"write", "flush"}
    BY <1>2 DEF Stop, ReadLog, Acknowledge
  <2>2. Acked' \subseteq accepted
    <3>1. CASE Stop \/ ReadLog
      BY <1>0, <3>1 DEF Stop, ReadLog, Acked
    <3>2. CASE Acknowledge
      BY <1>0, <2>1, <3>2, AcksOwed
    <3> QED BY <1>2, <3>1, <3>2
  <2> QED BY <1>0, <1>2, <1>over, <2>1, <2>2 DEF sinkVars
<1>3. CASE WriteBuffered
  BY <1>0, <1>3, <1>written, <1>cur DEF WriteBuffered
<1>4. CASE Post
  <2>1. UNCHANGED pollAllVars /\ phase \in {"write", "flush"}
        /\ batch' = {} /\ body' = batch /\ attempt' = 1 /\ accepted' = accepted /\ body = {}
    BY <1>0, <1>4 DEF Post
  <2> QED BY <1>0, <1>same, <2>1
<1>5. CASE FlushEmpty
  <2>1. /\ phase = "flush" /\ attempt = 0 /\ batch = {} /\ body = {} /\ Flushed
        /\ UNCHANGED <<batch, body, attempt, accepted>>
    BY <1>0, <1>5 DEF FlushEmpty, sinkVars
  <2> QED BY <1>flushed, <2>1
<1>6. CASE Success
  <2>0. attempt # 0 /\ batch = {} /\ accepted' = accepted \union body /\ body' = {} /\ attempt' = 0
    BY <1>0, <1>6 DEF Success
  <2>1. CASE phase = "write"
    BY <1>0, <1>6, <1>written, <1>cur, <2>0, <2>1 DEF Success
  <2>2. CASE phase = "flush"
    <3>1. Flushed /\ batch' = {}
      BY <1>6, <2>2 DEF Success
    <3> QED BY <1>flushed, <2>0, <2>2, <3>1
  <2> QED BY <1>0, <2>0, <2>1, <2>2
<1>7. CASE Reject \/ GiveUp
  <2>1. PollFails /\ attempt # 0 /\ attempt' = 0 /\ body' = {} /\ batch' = batch /\ accepted \subseteq accepted'
        /\ accepted' \subseteq accepted \union body
    BY <1>7 DEF Reject, GiveUp, Unanswered, Attempts
  <2>2. Acked' = Acked
    BY <2>1 DEF PollFails, Acked
  <2> QED BY <1>0, <1>over, <2>1, <2>2
<1>8. CASE Retry
  <2>1. UNCHANGED <<pollAllVars, batch, body>> /\ attempt' \in 1 .. 4 /\ attempt # 0 /\ accepted \subseteq accepted'
        /\ accepted' \subseteq accepted \union body
    BY <1>0, <1>8 DEF Retry, Unanswered, Attempts
  <2> QED BY <1>0, <1>same, <2>1
<1>9. CASE OtherFails
  <2>1. PollFails /\ phase \in {"read", "ack"} /\ UNCHANGED sinkVars
    BY <1>9 DEF OtherFails, Unreachable, AckFails
  <2>2. Acked' = Acked
    BY <2>1 DEF PollFails, Acked
  <2> QED BY <1>0, <1>over, <2>1, <2>2 DEF sinkVars
<1>10. CASE Restart
  <2>1. Acked' = Acked
    BY <1>10 DEF Restart, Crash, Acked
  <2> QED BY <1>0, <1>10, <1>over, <2>1 DEF Restart
<1>11. CASE Outside
  <2>1. PollOK' /\ UNCHANGED <<turn, phase, next, acked, sinkVars>>
    BY <1>0, <1>11, PollKeeps DEF Outside, RecordEntry, Signal, pollVars
  <2>2. Owed' = Owed /\ Acked' = Acked
    BY <2>1 DEF Owed, Acked
  <2>3. Recorded \subseteq Recorded'
    BY <1>0, <1>11, RecordedGrows DEF Outside
  <2> QED BY <1>0, <2>1, <2>2, <2>3 DEF sinkVars
<1>12. CASE UNCHANGED vars
  BY <1>0, <1>12, <1>same DEF vars, sinkVars
<1> QED BY <1>1, <1>2, <1>3, <1>4, <1>5, <1>6, <1>7, <1>8, <1>9, <1>10, <1>11, <1>12 DEF Next, Step

(* What a poll has written is accepted, batched or being posted, and only  *)
(* that is on its way: the inductive invariant of HecSink.                 *)
THEOREM HecInvariantHolds == Spec => []HecInvariant
  BY HecInit, HecNext, PTL DEF Spec

(* "Only after flush succeeds": no entry is acknowledged to its device     *)
(* before the receiver has taken its event, however batches, retries and   *)
(* failing polls meet.                                                     *)
THEOREM AckedEventsAreAccepted == Spec => []AckedIsAccepted
<1>1. HecInvariant => AckedIsAccepted
  BY DEF HecInvariant
<1> QED BY <1>1, HecInvariantHolds, PTL

(* A batch never holds events of two devices, so that one device whose     *)
(* events are refused takes no other device's events with it.              *)
THEOREM BatchesAreOwn == Spec => []OnlyOwnEvents
<1>1. HecInvariant => OnlyOwnEvents
  BY DEF HecInvariant
<1> QED BY <1>1, HecInvariantHolds, PTL

(* What the service does with this sink is a step of Delivery: it records, *)
(* delivers to the receiver, or releases what was delivered before.        *)
LEMMA HecKeeps ==
    ASSUME HecInvariant, HecInvariant', [Next]_vars
    PROVE  [Promise!Next]_(Promise!vars)
<1>0. /\ PollOK /\ body \union accepted \subseteq Recorded /\ Acked' \subseteq accepted'
  BY DEF HecInvariant, AckedIsAccepted
<1>del. ASSUME accepted \subseteq accepted', accepted' \subseteq accepted \union body,
               Recorded' = Recorded, Acked' = Acked
        PROVE  Promise!Deliver
  BY <1>0, <1>del DEF Promise!Deliver
<1>none. ASSUME accepted' = accepted, Recorded' = Recorded, Acked' = Acked
         PROVE  UNCHANGED Promise!vars
  BY <1>none DEF Promise!vars
<1>1. CASE Success \/ Reject \/ Retry \/ GiveUp
  <2>1. UNCHANGED acked /\ UNCHANGED recorded
    BY <1>1 DEF Success, Reject, Retry, GiveUp, Written, Flushed, PollFails, NextDevice, pollAllVars
  <2>2. accepted \subseteq accepted' /\ accepted' \subseteq accepted \union body
    BY <1>1 DEF Success, Reject, Retry, GiveUp, Unanswered
  <2>3. Recorded' = Recorded /\ Acked' = Acked
    BY <2>1 DEF Recorded, Acked
  <2> QED BY <1>del, <2>2, <2>3 DEF Promise!Next
<1>2. CASE Acknowledge /\ UNCHANGED sinkVars
  <2>1. accepted' = accepted /\ Recorded' = Recorded
    BY <1>2 DEF sinkVars, Acknowledge, NextDevice, Recorded
  <2>2. Acked \subseteq Acked'
    BY <1>0, <1>2, AckedGrows
  <2> QED BY <1>0, <2>1, <2>2 DEF Promise!Next, Promise!Release
<1>3. CASE Outside
  <2>1. accepted' = accepted /\ Acked' = Acked
    BY <1>3 DEF Outside, RecordEntry, Signal, sinkVars, Acked
  <2>2. Recorded \subseteq Recorded'
    BY <1>0, <1>3, RecordedGrows DEF Outside
  <2> QED BY <2>1, <2>2 DEF Promise!Next, Promise!Record
<1>4. CASE \/ BuildSink \/ WriteBuffered \/ Post \/ FlushEmpty \/ OtherFails \/ Restart
           \/ (Stop \/ ReadLog) /\ UNCHANGED sinkVars
           \/ UNCHANGED vars
  <2>1. UNCHANGED <<accepted, acked, recorded>>
    BY <1>4, ZenonT(30)
       DEF BuildSink, WriteBuffered, Post, FlushEmpty, OtherFails, Restart, Stop, ReadLog, sinkVars,
           vars, StartCycle, Written, Flushed, Unreachable, AckFails, PollFails, NextDevice, Crash,
           pollAllVars
  <2> QED BY <1>none, <2>1 DEF Recorded, Acked
<1> QED BY <1>1, <1>2, <1>3, <1>4 DEF Next, Step

(* The service with the HEC sink implements Delivery: what it acknowledges *)
(* to a device the receiver has taken before, and what the receiver took   *)
(* it keeps, for any devices, entries, batches and lost answers.           *)
THEOREM HecKeepsPromise == Spec => KeepsPromise
<1>1. Init => Promise!Init
  <2> SUFFICES ASSUME Init PROVE Promise!Init
    OBVIOUS
  <2>1. Acked = {} /\ Recorded = {}
    BY InitOK DEF Init
  <2> QED BY <2>1 DEF Init, Promise!Init
<1>2. HecInvariant /\ HecInvariant' /\ [Next]_vars => [Promise!Next]_(Promise!vars)
  BY HecKeeps
<1> QED BY <1>1, <1>2, HecInvariantHolds, PTL DEF Spec, KeepsPromise, Promise!Spec
=============================================================================
