---------------------------- MODULE SyslogProofs ----------------------------
(***************************************************************************)
(* The syslog sink over UDP, TCP and TLS, for any number of devices and    *)
(* entries and however connections break: SyslogInvariant is inductive,    *)
(* AckedWasSent and GarbledInCycle hold, and the service with this sink    *)
(* implements Delivery.                                                    *)
(***************************************************************************)
EXTENDS SyslogSink, PollAllProofs

LEMMA SyslogInit == Init => SyslogInvariant
<1> SUFFICES ASSUME Init PROVE SyslogInvariant
  OBVIOUS
<1>1. PollOK /\ Acked = {} /\ Owed = {}
  BY InitOK DEF Init
<1> QED BY <1>1 DEF Init, SyslogInvariant, AckedWasSent, GarbledInCycle, Sent

(* What the kernel takes is sent, and garbled only on a torn stream.       *)
LEMMA SendSends ==
    ASSUME NEW e, Send(e)
    PROVE  /\ e \in Sent'
           /\ Sent \subseteq Sent' /\ Sent' \subseteq Sent \union {e}
           /\ garbled' \subseteq garbled \union {e}
           /\ ~torn => garbled' = garbled
  BY DEF Send, Sent

LEMMA SyslogNext == SyslogInvariant /\ [Next]_vars => SyslogInvariant'
<1> SUFFICES ASSUME SyslogInvariant, [Next]_vars PROVE SyslogInvariant'
  OBVIOUS
<1>0. /\ PollOK
      /\ torn \in BOOLEAN
      /\ torn => turn # 1
      /\ Owed \subseteq Sent
      /\ Sent \subseteq Recorded
      /\ Acked \subseteq Sent
      /\ \A e \in garbled : e[1] > 1
  BY DEF SyslogInvariant, AckedWasSent, GarbledInCycle
<1> DEFINE Goal == /\ torn' \in BOOLEAN
                   /\ torn' => turn' # 1
                   /\ Owed' \subseteq Sent'
                   /\ Sent' \subseteq Recorded'
                   /\ Acked' \subseteq Sent'
                   /\ \A e \in garbled' : e[1] > 1
<1>goal. SUFFICES PollOK' /\ Goal
  BY DEF SyslogInvariant, AckedWasSent, GarbledInCycle
(* Once a poll is over, or before its first write, nothing is owed.        *)
<1>over. ASSUME StartCycle \/ ReadLog \/ PollFails \/ Crash \/ Stop \/ Acknowledge,
                Acked' \subseteq Sent, UNCHANGED network,
                torn' \in BOOLEAN, torn' => turn' # 1
         PROVE  PollOK' /\ Goal
  <2>1. Owed' = {} /\ PollOK'
    BY <1>0, <1>over, PollKeeps, NothingOwed
  <2>2. Sent' = Sent /\ garbled' = garbled
    BY <1>over DEF network, Sent
  <2>3. Recorded \subseteq Recorded'
    BY <1>0, <1>over, RecordedGrows
  <2> QED BY <1>0, <1>over, <2>1, <2>2, <2>3
(* The device after a failed poll is not the first one of its cycle.       *)
<1>notFirst. ASSUME NextDevice, phase \in {"read", "write", "flush", "ack"}
             PROVE  turn' # 1
  BY <1>0, <1>notFirst DEF NextDevice, PollOK
<1>same. ASSUME UNCHANGED pollAllVars
         PROVE  PollOK' /\ Owed' = Owed /\ Acked' = Acked /\ Recorded' = Recorded /\ turn' = turn
  BY <1>0, <1>same, PollKeeps DEF pollAllVars, pollVars, Owed, Acked, Recorded
<1>1. CASE BuildSink
  <2>1. StartCycle /\ torn' = FALSE /\ UNCHANGED network /\ Acked' = Acked
    BY <1>1 DEF BuildSink, StartCycle, Connected, Acked
  <2> QED BY <1>0, <1>over, <2>1
<1>2. CASE Write
  <2>1. phase = "write" /\ Written /\ Send(Current) /\ torn' = FALSE
    BY <1>2 DEF Write
  <2>2. PollOK' /\ Owed' = Owed \union {Current} /\ Acked' = Acked
    BY <1>0, <2>1, PollKeeps, WrittenOwes
  <2>3. Current \in Sent' /\ Sent \subseteq Sent' /\ Sent' \subseteq Sent \union {Current}
        /\ garbled' \subseteq garbled \union {Current} /\ (~torn => garbled' = garbled)
    BY <2>1, SendSends
  <2>4. torn => Current[1] > 1
    BY <1>0, <2>1 DEF Current, PollOK
  <2>5. \A e \in garbled' : e[1] > 1
    BY <1>0, <2>3, <2>4
  <2>6. Recorded \subseteq Recorded' /\ Current \in Recorded
    BY <1>0, <2>1, RecordedGrows, WritesRecorded
  <2> QED BY <1>0, <2>1, <2>2, <2>3, <2>5, <2>6
<1>3. CASE Reconnect
  <2>1. UNCHANGED pollAllVars /\ torn' = FALSE /\ UNCHANGED network
    BY <1>3 DEF Reconnect, Connected
  <2>2. Sent' = Sent /\ garbled' = garbled
    BY <2>1 DEF network, Sent
  <2> QED BY <1>0, <1>same, <2>1, <2>2
<1>4. CASE WriteFails
  <2>1. PollFails /\ phase = "write" /\ torn' \in BOOLEAN /\ UNCHANGED network
    BY <1>0, <1>4 DEF WriteFails
  <2>2. Acked' = Acked /\ turn' # 1
    BY <1>notFirst, <2>1 DEF PollFails, Acked
  <2> QED BY <1>0, <1>over, <2>1, <2>2
<1>5. CASE Flush
  <2>1. phase = "flush" /\ Flushed /\ UNCHANGED <<torn, network>>
    BY <1>5 DEF Flush, sinkVars, stream
  <2>2. PollOK' /\ Owed' = Owed /\ Acked' = Acked /\ turn' = turn
    BY <1>0, <2>1, PollKeeps, FlushedOwes
  <2>3. Recorded \subseteq Recorded' /\ Sent' = Sent /\ garbled' = garbled
    BY <1>0, <2>1, RecordedGrows DEF network, Sent
  <2> QED BY <1>0, <2>1, <2>2, <2>3
<1>12. CASE Acknowledge /\ UNCHANGED sinkVars
  <2>1. UNCHANGED <<torn, network>>
    BY <1>12 DEF sinkVars, stream
  <2>2. turn' # 1
    BY <1>12, <1>notFirst DEF Acknowledge
  <2>3. Acked' \subseteq Sent
    BY <1>0, <1>12, AcksOwed
  <2> QED BY <1>0, <1>12, <1>over, <2>1, <2>2, <2>3
<1>6. CASE FlushFails \/ ((Unreachable \/ AckFails) /\ UNCHANGED sinkVars)
  <2>1. PollFails /\ phase \in {"read", "flush", "ack"} /\ UNCHANGED <<torn, network>>
    BY <1>6 DEF FlushFails, Unreachable, AckFails, sinkVars, stream
  <2>2. Acked' = Acked /\ turn' # 1
    BY <1>notFirst, <2>1 DEF PollFails, Acked
  <2> QED BY <1>0, <1>over, <2>1, <2>2
<1>7. CASE (Stop \/ ReadLog) /\ UNCHANGED sinkVars
  <2>1. UNCHANGED <<torn, network>> /\ Acked' = Acked /\ turn' = turn
    BY <1>7 DEF Stop, ReadLog, sinkVars, stream, Acked
  <2> QED BY <1>0, <1>7, <1>over, <2>1
<1>8. CASE Killed
  <2>1. Crash /\ torn' = FALSE /\ UNCHANGED network /\ Acked' = Acked
    BY <1>8 DEF Killed, Connected, Crash, Acked
  <2> QED BY <1>0, <1>over, <2>1
<1>9. CASE Breaks
  <2>1. UNCHANGED <<pollAllVars, torn, garbled>> /\ Sent' = Sent
    BY <1>9 DEF Breaks, Sent
  <2> QED BY <1>0, <1>same, <2>1
<1>10. CASE (RecordEntry \/ Signal) /\ UNCHANGED sinkVars
  <2>1. PollOK' /\ UNCHANGED <<turn, phase, next, acked, torn, network>>
    BY <1>0, <1>10, PollKeeps DEF RecordEntry, Signal, pollVars, sinkVars, stream
  <2>2. Owed' = Owed /\ Acked' = Acked /\ Sent' = Sent /\ garbled' = garbled
    BY <2>1 DEF Owed, Acked, network, Sent
  <2>3. Recorded \subseteq Recorded'
    BY <1>0, <1>10, RecordedGrows
  <2> QED BY <1>0, <2>1, <2>2, <2>3
<1>11. CASE UNCHANGED vars
  <2>1. UNCHANGED <<pollAllVars, torn, garbled>> /\ Sent' = Sent
    BY <1>11 DEF vars, sinkVars, network, stream, Sent
  <2> QED BY <1>0, <1>same, <2>1
<1> QED BY <1>1, <1>2, <1>3, <1>4, <1>5, <1>6, <1>7, <1>8, <1>9, <1>10, <1>11, <1>12
        DEF Next, Step, Outside

(* The inductive invariant of SyslogSink.                                  *)
THEOREM SyslogInvariantHolds == Spec => []SyslogInvariant
  BY SyslogInit, SyslogNext, PTL DEF Spec

(* No entry is acknowledged whose event was not handed to a socket, though *)
(* nobody answers and connections die unnoticed: write() reconnects once   *)
(* and sends the frame again, or the poll fails.                           *)
THEOREM AckedEventsWereSent == Spec => []AckedWasSent
<1>1. SyslogInvariant => AckedWasSent
  BY DEF SyslogInvariant
<1> QED BY <1>1, SyslogInvariantHolds, PTL

(* The part of a frame a failed write leaves behind spoils no event of the *)
(* first device of a cycle, which always has a new connection.             *)
THEOREM GarblingStaysInCycle == Spec => []GarbledInCycle
<1>1. SyslogInvariant => GarbledInCycle
  BY DEF SyslogInvariant
<1> QED BY <1>1, SyslogInvariantHolds, PTL

(* What the service does with this sink is a step of Delivery.             *)
LEMMA SyslogKeeps ==
    ASSUME SyslogInvariant, SyslogInvariant', [Next]_vars
    PROVE  [Promise!Next]_(Promise!vars)
<1>0. PollOK /\ Sent \subseteq Recorded /\ Acked' \subseteq Sent'
  BY DEF SyslogInvariant, AckedWasSent
<1>none. ASSUME Sent' = Sent, Recorded' = Recorded, Acked' = Acked
         PROVE  UNCHANGED Promise!vars
  BY <1>none DEF Promise!vars
<1>1. CASE Write
  <2>1. phase = "write" /\ Written /\ Send(Current)
    BY <1>1 DEF Write
  <2>2. Sent \subseteq Sent' /\ Sent' \subseteq Recorded
    BY <1>0, <2>1, SendSends, WritesRecorded
  <2>3. Recorded' = Recorded /\ Acked' = Acked
    BY <2>1 DEF Written, Recorded, Acked
  <2> QED BY <2>2, <2>3 DEF Promise!Next, Promise!Deliver
<1>2. CASE Acknowledge /\ UNCHANGED sinkVars
  <2>1. Sent' = Sent /\ Recorded' = Recorded
    BY <1>2 DEF sinkVars, network, Sent, Acknowledge, NextDevice, Recorded
  <2>2. Acked \subseteq Acked'
    BY <1>0, <1>2, AckedGrows
  <2> QED BY <1>0, <2>1, <2>2 DEF Promise!Next, Promise!Release
<1>3. CASE (RecordEntry \/ Signal) /\ UNCHANGED sinkVars
  <2>1. Sent' = Sent /\ Acked' = Acked
    BY <1>3 DEF RecordEntry, Signal, sinkVars, network, Sent, Acked
  <2>2. Recorded \subseteq Recorded'
    BY <1>0, <1>3, RecordedGrows
  <2> QED BY <2>1, <2>2 DEF Promise!Next, Promise!Record
<1>4. CASE Breaks
  <2>1. Sent' = Sent /\ UNCHANGED pollAllVars
    BY <1>4 DEF Breaks, Sent
  <2> QED BY <1>none, <2>1 DEF Recorded, Acked, pollAllVars
<1>5. CASE \/ BuildSink \/ Reconnect \/ WriteFails \/ Flush \/ FlushFails \/ Killed
           \/ (Stop \/ ReadLog \/ Unreachable \/ AckFails) /\ UNCHANGED sinkVars
           \/ UNCHANGED vars
  <2>1. UNCHANGED <<network, acked, recorded>>
    BY <1>5, ZenonT(30)
       DEF BuildSink, Reconnect, WriteFails, Flush, FlushFails, Killed, Stop, ReadLog, Unreachable,
           AckFails, sinkVars, vars, StartCycle, Flushed, PollFails, NextDevice, Crash, pollAllVars
  <2> QED BY <1>none, <2>1 DEF network, Sent, Recorded, Acked
<1> QED BY <1>1, <1>2, <1>3, <1>4, <1>5 DEF Next, Step, Outside

(* The service with the syslog sink implements Delivery, as far as it can  *)
(* know: what it acknowledges a connection has taken before, whichever     *)
(* connections break.                                                      *)
THEOREM SyslogKeepsPromise == Spec => KeepsPromise
<1>1. Init => Promise!Init
  <2> SUFFICES ASSUME Init PROVE Promise!Init
    OBVIOUS
  <2>1. Acked = {} /\ Recorded = {}
    BY InitOK DEF Init
  <2> QED BY <2>1 DEF Init, Promise!Init, Sent
<1>2. SyslogInvariant /\ SyslogInvariant' /\ [Next]_vars => [Promise!Next]_(Promise!vars)
  BY SyslogKeeps
<1> QED BY <1>1, <1>2, SyslogInvariantHolds, PTL DEF Spec, KeepsPromise, Promise!Spec
=============================================================================
