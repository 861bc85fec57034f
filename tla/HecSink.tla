------------------------------ MODULE HecSink ------------------------------
(***************************************************************************)
(* The service with the Splunk HEC output: HecSink of src/src/sink.rs.     *)
(* Events gather in a batch that is posted when it is full and at every    *)
(* flush; a post is tried four times.  The receiver may take a batch whose *)
(* answer is then lost, and it answers 4xx to a batch with an event it     *)
(* will never take.                                                        *)
(***************************************************************************)
EXTENDS PollAll, FiniteSets

CONSTANTS
    MaxBatch,       \* events HEC_MAX_BATCH_BYTES has room for
    Poison          \* devices whose events the receiver rejects

ASSUME HecSinkAssumption ==
    /\ MaxBatch \in Nat \ {0}
    /\ Poison \subseteq Devices

VARIABLES
    batch,      \* HecSink.batch: written and not yet posted
    body,       \* the batch being posted
    attempt,    \* the attempt under way, 0 if nothing is being posted
    accepted    \* history: events the receiver took

sinkVars == <<batch, body, attempt, accepted>>
vars == <<pollAllVars, sinkVars>>

Attempts == 4

Init ==
    /\ PollAllInit
    /\ batch = {}
    /\ body = {}
    /\ attempt = 0
    /\ accepted = {}

(* The receiver refuses a batch as a whole.                                *)
Rejected(b) == \E e \in b : e[1] \in Poison

(* HecSink::new(): every cycle has a sink of its own.                      *)
BuildSink == StartCycle /\ batch' = {} /\ UNCHANGED <<body, attempt, accepted>>

(* write(): room is left in the batch.                                     *)
WriteBuffered ==
    /\ phase = "write"
    /\ attempt = 0
    /\ Cardinality(batch) < MaxBatch
    /\ batch' = batch \union {Current}
    /\ Written
    /\ UNCHANGED <<body, attempt, accepted>>

(* post_batch() begins, from flush() or because the batch is full.         *)
Post_Clone ==
    /\ attempt = 0
    /\ \/ phase = "write" /\ Cardinality(batch) >= MaxBatch
       \/ phase = "flush" /\ batch # {}
    /\ body' = batch
    /\ batch' = batch
    /\ attempt' = 1
    /\ UNCHANGED <<pollAllVars, accepted>>
Post ==
    /\ attempt = 0
    /\ \/ phase = "write" /\ Cardinality(batch) >= MaxBatch
       \/ phase = "flush" /\ batch # {}
    /\ body' = batch
    /\ batch' = {}
    /\ attempt' = 1
    /\ UNCHANGED <<pollAllVars, accepted>>

FlushEmpty ==
    /\ phase = "flush"
    /\ attempt = 0
    /\ batch = {}
    /\ Flushed
    /\ UNCHANGED sinkVars

(* A 2xx answer: the write goes on with its own event, or the flush ends.  *)
Success ==
    /\ attempt > 0
    /\ ~Rejected(body)
    /\ accepted' = accepted \union body
    /\ body' = {}
    /\ attempt' = 0
    /\ IF phase = "write"
       THEN batch' = {Current} /\ Written
       ELSE batch' = {} /\ Flushed

(* A 4xx answer other than 429 is not retried; the batch is dropped.       *)
Reject ==
    /\ attempt > 0
    /\ Rejected(body)
    /\ body' = {}
    /\ attempt' = 0
    /\ PollFails
    /\ UNCHANGED <<batch, accepted>>

(* No answer, 429 or 5xx: the receiver may have taken the batch or not.    *)
Unanswered == \/ UNCHANGED accepted
              \/ ~Rejected(body) /\ accepted' = accepted \union body

Retry_Forever ==
    /\ attempt > 0
    /\ Unanswered
    /\ attempt' = IF attempt < Attempts THEN attempt + 1 ELSE 1
    /\ UNCHANGED <<pollAllVars, batch, body>>
Retry ==
    /\ attempt \in 1 .. Attempts - 1
    /\ Unanswered
    /\ attempt' = attempt + 1
    /\ UNCHANGED <<pollAllVars, batch, body>>

GiveUp_Ok ==
    /\ attempt = Attempts
    /\ Unanswered
    /\ body' = {}
    /\ attempt' = 0
    /\ IF phase = "write"
       THEN batch' = {Current} /\ Written
       ELSE batch' = {} /\ Flushed
GiveUp ==
    /\ attempt = Attempts
    /\ Unanswered
    /\ body' = {}
    /\ attempt' = 0
    /\ PollFails
    /\ UNCHANGED batch

(* An error of the device, and the end of the process.                     *)
OtherFails == (Unreachable \/ AckFails) /\ UNCHANGED sinkVars

Restart == Crash /\ batch' = {} /\ body' = {} /\ attempt' = 0 /\ UNCHANGED accepted

-----------------------------------------------------------------------------
Step ==
    \/ BuildSink
    \/ (Stop \/ ReadLog \/ Acknowledge) /\ UNCHANGED sinkVars
    \/ WriteBuffered \/ Post \/ FlushEmpty \/ Success \/ Reject \/ Retry \/ GiveUp
    \/ OtherFails

Outside == (RecordEntry \/ Signal) /\ UNCHANGED sinkVars

Next == Step \/ Restart \/ Outside

(* Every call of the service ends, with Ok or an error: it has a timeout.  *)
Spec == Init /\ [][Next]_vars /\ WF_vars(Step)

-----------------------------------------------------------------------------
(* A device is told to free an entry only when the receiver has its event, *)
(* whatever answers were lost and in however many batches it was sent.     *)
AckedIsAccepted == Acked \subseteq accepted

(* What is posted belongs to the device being polled: events of a poll     *)
(* that failed never travel, or fail, with those of the next device.       *)
OnlyOwnEvents == \A e \in batch \union body : e[1] = turn

(* Why that is so.  The events a poll has written so far are accepted, or  *)
(* gathered in the batch, or in the body being posted; a post is part of   *)
(* a write or of the flush, and whatever ends one empties batch and body.  *)
(* Every event is the event of an entry.                                   *)
HecInvariant ==
    /\ PollOK
    /\ batch \union body \union accepted \subseteq Recorded
    /\ attempt \in 0 .. Attempts
    /\ phase \notin {"write", "flush"} => attempt = 0 /\ batch = {}
    /\ IF attempt = 0 THEN body = {} ELSE batch = {}
    /\ Owed \subseteq accepted \union batch \union body
    /\ AckedIsAccepted
    /\ OnlyOwnEvents

(* With this sink the service does what Delivery promises, delivered to    *)
(* the receiver, which is what Collector takes for granted of its sink: an *)
(* event that was delivered stays so, also one whose answer was lost.      *)
Promise == INSTANCE Delivery WITH
               recorded  <- Recorded,
               delivered <- accepted,
               released  <- Acked
KeepsPromise == Promise!Spec

(* One failing device never blocks the others: once the others' polls are  *)
(* not disturbed, their entries are delivered, though some devices do not  *)
(* answer and the receiver rejects the events of some.                     *)
Trouble == \/ Retry \/ GiveUp \/ Restart
           \/ OtherFails /\ turn \notin Broken
Healthy == Devices \ (Broken \union Poison)
EveryDeviceServed ==
    <>[][~Trouble]_vars =>
        \A d \in Healthy, n \in 1 .. Entries :
            (recorded[d] >= n) ~> (acked[d] >= n \/ shutdown)

(* Told to stop, the service stops, whatever devices and receiver do: the  *)
(* retries of a post are bounded and the flag is seen before a new cycle.  *)
Stops == shutdown ~> (phase = "stopped")
=============================================================================
