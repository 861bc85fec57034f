----------------------------- MODULE SyslogSink -----------------------------
(***************************************************************************)
(* The service with the syslog output: SyslogSink of src/src/sink.rs over  *)
(* UDP or TCP.  The receiver never answers: a frame the kernel took counts *)
(* as delivered, although a connection may be dead without the sink having *)
(* noticed, and a write may time out after a part of its frame went out.   *)
(* A TLS session is a TCP stream whose flush can fail.                     *)
(***************************************************************************)
EXTENDS PollAll

VARIABLES
    protocol,   \* "udp", "tcp" or "tls"
    alive,      \* the connection of SyslogSink.stream is not broken
    torn,       \* the last bytes on it are a part of a frame
    step,       \* where write() is: "send", or "resend" after reconnect()
    taken,      \* history: events a kernel took, that arrived or still may
    lost,       \* history: events that vanished with a connection, or a datagram
    garbled     \* history: events whose frame followed a part of another

network == <<taken, lost, garbled>>
stream == <<alive, torn, step>>
sinkVars == <<protocol, network, stream>>
vars == <<pollAllVars, sinkVars>>

Init ==
    /\ PollAllInit
    /\ protocol \in {"udp", "tcp", "tls"}
    /\ alive = TRUE
    /\ torn = FALSE
    /\ step = "send"
    /\ taken = {}
    /\ lost = {}
    /\ garbled = {}

-----------------------------------------------------------------------------
(* connect_syslog(): nothing was sent on a new connection or socket yet.   *)
Connected == alive' = TRUE /\ torn' = FALSE

(* SyslogSink::new(): every cycle has a sink and a connection of its own.  *)
BuildSink_Kept ==
    /\ StartCycle
    /\ UNCHANGED sinkVars
BuildSink ==
    /\ StartCycle
    /\ Connected
    /\ UNCHANGED <<protocol, step, network>>

(* The kernel takes a frame.  On a broken connection that may be noticed   *)
(* by nobody; after a part of a frame the receiver cannot make it out.     *)
Send(e) ==
    \/ /\ alive /\ torn
       /\ garbled' = garbled \union {e}
       /\ UNCHANGED <<taken, lost>>
    \/ /\ alive /\ ~torn
       /\ taken' = taken \union {e}
       /\ UNCHANGED <<lost, garbled>>
    \/ /\ ~alive
       /\ lost' = lost \union {e}
       /\ UNCHANGED <<taken, garbled>>

(* write(): the frame is taken, at once or after reconnect().              *)
Write ==
    /\ phase = "write"
    /\ Send(Current)
    /\ torn' = FALSE
    /\ step' = "send"
    /\ Written
    /\ UNCHANGED <<protocol, alive>>

(* The first error of a TCP write: one new connection, the frame again.    *)
Reconnect_Only ==
    /\ phase = "write"
    /\ step = "send"
    /\ protocol # "udp"
    /\ Connected
    /\ Written
    /\ UNCHANGED <<protocol, step, network>>
Reconnect ==
    /\ phase = "write"
    /\ step = "send"
    /\ protocol # "udp"
    /\ Connected
    /\ step' = "resend"
    /\ UNCHANGED <<pollAllVars, protocol, network>>

(* A UDP send, the new connection or the second write fails, and with it   *)
(* the poll.  The stream stays in use, with what went out of the frame.    *)
WriteFails ==
    /\ phase = "write"
    /\ torn' \in {torn, torn \/ protocol # "udp"}
    /\ step' = "send"
    /\ PollFails
    /\ UNCHANGED <<protocol, alive, network>>

(* flush() has nothing to do but in a TLS session, where it may fail.      *)
Flush ==
    /\ phase = "flush"
    /\ Flushed
    /\ UNCHANGED sinkVars

FlushFails ==
    /\ phase = "flush"
    /\ protocol = "tls"
    /\ PollFails
    /\ UNCHANGED sinkVars

Killed ==
    /\ Crash
    /\ Connected
    /\ step' = "send"
    /\ UNCHANGED <<protocol, network>>

-----------------------------------------------------------------------------
(* The receiver restarts, a middlebox resets, a datagram is dropped: what  *)
(* had not arrived is gone.                                                *)
Breaks ==
    \E gone \in SUBSET taken :
        /\ taken' = taken \ gone
        /\ lost' = lost \union gone
        /\ alive' = (protocol = "udp")
        /\ UNCHANGED <<pollAllVars, protocol, torn, step, garbled>>

Step ==
    \/ BuildSink \/ Write \/ Reconnect \/ WriteFails \/ Flush \/ FlushFails
    \/ (Stop \/ ReadLog \/ Unreachable \/ Acknowledge \/ AckFails) /\ UNCHANGED sinkVars

Outside ==
    \/ Breaks \/ Killed
    \/ (RecordEntry \/ Signal) /\ UNCHANGED sinkVars

Next == Step \/ Outside

Spec == Init /\ [][Next]_vars

-----------------------------------------------------------------------------
(* The events that were handed to a connection, which is all the sink can  *)
(* know of them.                                                           *)
Sent == taken \union lost \union garbled

(* Nothing acknowledged was never sent, whichever write met the broken     *)
(* connection: each event arrived or still may, or was lost or garbled on  *)
(* a connection that had taken it.                                         *)
AckedWasSent == Acked \subseteq Sent

(* What a failed poll leaves half sent spoils events of later devices of   *)
(* its own cycle only: the first device always has a clean connection.     *)
GarbledInCycle == \A e \in garbled : e[1] > 1

(* Why that is so: the events of the running poll left through a socket,   *)
(* and only a poll that has failed, and so ended, leaves a torn stream.    *)
SyslogInvariant ==
    /\ PollOK
    /\ torn \in BOOLEAN
    /\ torn => turn # 1
    /\ Owed \subseteq Sent
    /\ Sent \subseteq Recorded
    /\ AckedWasSent
    /\ GarbledInCycle

(* With this sink the service does what Delivery promises, delivered to a  *)
(* connection: what becomes of a frame there is nothing the program hears  *)
(* of.                                                                     *)
Promise == INSTANCE Delivery WITH
               recorded  <- Recorded,
               delivered <- Sent,
               released  <- Acked
KeepsPromise == Promise!Spec
=============================================================================
