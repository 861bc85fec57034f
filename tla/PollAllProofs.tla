--------------------------- MODULE PollAllProofs ----------------------------
(***************************************************************************)
(* What the proofs about the sinks share: the service keeps its place in   *)
(* the cycle, and acknowledges only the events that were written in the    *)
(* poll that is flushed.                                                   *)
(***************************************************************************)
EXTENDS PollAll, TLAPS

(* The service starts between two cycles, with nothing acknowledged.       *)
LEMMA InitOK ==
    ASSUME PollAllInit
    PROVE  PollOK /\ Recorded = {} /\ Acked = {} /\ Owed = {}
<1>1. PollOK
  <2>1. /\ recorded \in [Devices -> 0 .. Entries] /\ acked \in [Devices -> 0 .. Entries]
        /\ \A d \in Devices : acked[d] <= recorded[d]
    BY PollAllAssumption DEF PollAllInit
  <2>2. turn \in 0 .. NumDevices /\ next \in Nat /\ read \in Nat
    BY PollAllAssumption DEF PollAllInit
  <2>3. /\ phase \in {"idle", "read", "write", "flush", "ack", "stopped"} /\ shutdown \in BOOLEAN
        /\ turn = 0 <=> phase \in {"idle", "stopped"}
        /\ phase \notin {"write", "flush", "ack"}
    BY DEF PollAllInit
  <2> QED BY <2>1, <2>2, <2>3 DEF PollOK
<1>2. Recorded = {} /\ Acked = {}
  <2>1. \A e \in Devices \X (1 .. Entries) : e[1] \in Devices /\ e[2] \in Nat /\ e[2] > 0
    BY PollAllAssumption
  <2> QED BY <2>1 DEF PollAllInit, Recorded, Acked
<1>3. Owed = {}
  BY DEF PollAllInit, Owed
<1> QED BY <1>1, <1>2, <1>3

(* What the service does keeps its place in the cycle, whatever the sink.  *)
LEMMA PollKeeps ==
    ASSUME PollOK,
           \/ StartCycle \/ ReadLog \/ PollFails \/ Crash \/ Stop \/ RecordEntry \/ Signal
           \/ phase = "write" /\ Written
           \/ phase = "flush" /\ Flushed
           \/ Acknowledge
           \/ UNCHANGED pollAllVars
    PROVE  PollOK'
<1> USE PollAllAssumption DEF PollOK
<1>0. phase \in {"read", "write", "flush", "ack"} =>
        turn \in Devices /\ acked[turn] \in 0 .. Entries /\ recorded[turn] \in 0 .. Entries
  BY DEF Devices
<1>1. CASE StartCycle \/ Stop \/ Crash
  BY <1>1 DEF StartCycle, Stop, Crash
<1>6. CASE PollFails
  BY <1>6 DEF PollFails, NextDevice
<1>7. CASE Signal \/ UNCHANGED pollAllVars
  BY <1>7 DEF Signal, pollAllVars, pollVars
<1>2. CASE ReadLog
  BY <1>0, <1>2 DEF ReadLog
<1>3. CASE RecordEntry
  <2>1. \A d \in Devices : recorded'[d] \in 0 .. Entries /\ recorded[d] <= recorded'[d]
    BY <1>3 DEF RecordEntry
  <2>2. recorded' \in [Devices -> 0 .. Entries]
    BY <1>3, <2>1 DEF RecordEntry
  <2> QED BY <1>0, <1>3, <2>1, <2>2 DEF RecordEntry, pollVars
<1>4. CASE phase = "write" /\ Written
  BY <1>0, <1>4 DEF Written
<1>5. CASE phase = "flush" /\ Flushed
  BY <1>0, <1>5 DEF Flushed
<1>8. CASE Acknowledge
  <2>1. acked' \in [Devices -> 0 .. Entries] /\ \A d \in Devices : acked'[d] <= recorded[d]
    BY <1>0, <1>8 DEF Acknowledge
  <2> QED BY <1>8, <2>1 DEF Acknowledge, NextDevice
<1> QED BY <1>1, <1>2, <1>3, <1>4, <1>5, <1>6, <1>7, <1>8

(* Acknowledging what was read is acknowledging what is owed.              *)
LEMMA AcksOwed ==
    ASSUME PollOK, Acknowledge, NEW S, Owed \subseteq S, Acked \subseteq S
    PROVE  Acked' \subseteq S
<1>1. turn \in Devices /\ acked[turn] \in Nat /\ read \in Nat /\ next = read + 1
  BY DEF PollOK, Acknowledge, Devices
<1>2. SUFFICES ASSUME NEW e \in Devices \X (1 .. Entries), e[2] <= acked'[e[1]]
               PROVE  e \in S
  BY DEF Acked
<1>3. CASE e[2] <= acked[e[1]]
  BY <1>3 DEF Acked
<1>4. CASE ~(e[2] <= acked[e[1]])
  <2>1. acked' # acked /\ e[1] = turn /\ acked'[turn] = read
    BY <1>1, <1>2, <1>4 DEF Acknowledge, PollOK
  <2>2. e = <<turn, e[2]>> /\ e[2] \in acked[turn] + 1 .. next - 1
    BY <1>1, <1>2, <1>4, <2>1
  <2> QED BY <2>2 DEF Owed, Acknowledge
<1> QED BY <1>3, <1>4

(* What was acknowledged stays so.                                         *)
LEMMA AckedGrows ==
    ASSUME PollOK, Acknowledge
    PROVE  Acked \subseteq Acked'
<1>1. turn \in Devices /\ acked[turn] \in Nat /\ read \in Nat /\ acked[turn] <= read
  BY DEF PollOK, Acknowledge, Devices
<1>2. \A d \in Devices : acked[d] \in Nat /\ acked'[d] \in Nat /\ acked[d] <= acked'[d]
  BY <1>1 DEF PollOK, Acknowledge
<1>3. \A e \in Devices \X (1 .. Entries) : e[1] \in Devices /\ e[2] \in Nat
  BY PollAllAssumption
<1>4. \A e \in Devices \X (1 .. Entries) : e[2] <= acked[e[1]] => e[2] <= acked'[e[1]]
  BY <1>2, <1>3
<1> QED BY <1>4 DEF Acked

(* A flush that returns owes, until it is acknowledged, what it flushed.   *)
LEMMA FlushedOwes ==
    ASSUME phase = "flush", Flushed
    PROVE  Owed' = Owed /\ Acked' = Acked /\ turn' = turn
BY DEF Flushed, Owed, Acked

(* A poll that goes on owes no more but the event it has just written.     *)
LEMMA WrittenOwes ==
    ASSUME PollOK, phase = "write", Written
    PROVE  Owed' = Owed \union {Current} /\ Acked' = Acked /\ turn' = turn
           /\ phase' \in {"write", "flush"}
<1>1. turn \in Devices /\ acked[turn] \in Nat /\ next \in Nat /\ acked[turn] < next
  BY DEF PollOK, Devices
<1>2. acked[turn] + 1 .. next' - 1 = (acked[turn] + 1 .. next - 1) \union {next}
  BY <1>1 DEF Written
<1> QED BY <1>2 DEF Written, Owed, Current, Acked

(* Between two polls, and before anything was written, nothing is owed.    *)
LEMMA NothingOwed ==
    ASSUME PollOK, PollOK',
           StartCycle \/ ReadLog \/ PollFails \/ Crash \/ Stop \/ Acknowledge
    PROVE  Owed' = {}
<1>1. CASE ReadLog
  <2>1. turn' \in Devices /\ acked'[turn'] \in Nat /\ next' = acked'[turn'] + 1
    BY <1>1 DEF ReadLog, PollOK, Devices
  <2> QED BY <2>1 DEF Owed
<1>2. CASE StartCycle \/ PollFails \/ Crash \/ Stop \/ Acknowledge
  BY <1>2 DEF StartCycle, PollFails, Crash, Stop, Acknowledge, NextDevice, Owed
<1> QED BY <1>1, <1>2

(* What was recorded stays so, and what a poll writes was recorded.        *)
LEMMA RecordedGrows ==
    ASSUME PollOK,
           \/ StartCycle \/ ReadLog \/ PollFails \/ Crash \/ Stop \/ RecordEntry \/ Signal
           \/ Written \/ Flushed \/ Acknowledge
           \/ UNCHANGED pollAllVars
    PROVE  /\ Recorded \subseteq Recorded'
           /\ RecordEntry \/ Recorded' = Recorded
<1>1. CASE RecordEntry
  <2>1. \A d \in Devices : recorded[d] \in Nat /\ recorded'[d] \in Nat /\ recorded[d] <= recorded'[d]
    BY <1>1 DEF RecordEntry, PollOK
  <2>2. \A e \in Devices \X (1 .. Entries) : e[1] \in Devices /\ e[2] \in Nat
    BY PollAllAssumption
  <2>3. \A e \in Devices \X (1 .. Entries) : e[2] <= recorded[e[1]] => e[2] <= recorded'[e[1]]
    BY <2>1, <2>2
  <2> QED BY <1>1, <2>3 DEF Recorded
<1>2. CASE ~RecordEntry
  <2>1. recorded' = recorded
    BY <1>2 DEF StartCycle, ReadLog, PollFails, Crash, Stop, Signal, Written, Flushed,
                Acknowledge, NextDevice, pollAllVars
  <2> QED BY <2>1 DEF Recorded
<1> QED BY <1>1, <1>2

LEMMA WritesRecorded ==
    ASSUME PollOK, phase = "write"
    PROVE  Current \in Recorded
<1>1. /\ turn \in Devices /\ next \in Nat /\ acked[turn] \in Nat /\ acked[turn] < next
      /\ next <= recorded[turn] /\ recorded[turn] \in 0 .. Entries /\ read \in Nat
  BY DEF PollOK, Devices
<1>2. next \in 1 .. Entries
  BY <1>1, PollAllAssumption
<1> QED BY <1>1, <1>2 DEF Current, Recorded
=============================================================================
