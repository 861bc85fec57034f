------------------------------ MODULE FileSink ------------------------------
(***************************************************************************)
(* The service with the JSON-lines output: FileSink of src/src/sink.rs.    *)
(* A line is written through a BufWriter in two pieces, the object and its *)
(* newline; the file is rotated by a series of renames before a write; a   *)
(* flush ends with sync_all.  A write may fail half way, the process may   *)
(* be killed and the machine may lose power at any step.                   *)
(***************************************************************************)
EXTENDS PollAll

CONSTANTS
    BufSize,        \* pieces the BufWriter holds
    RotateBytes,    \* rotate_bytes, counted in pieces; 0 never rotates
    RotateKeep,     \* rotate_keep
    MaxFails        \* bound: failed calls, crashes and power failures

ASSUME FileSinkAssumption ==
    /\ BufSize \in Nat \ {0}
    /\ RotateBytes \in Nat
    /\ RotateKeep \in Nat
    /\ MaxFails \in Nat

Keep == IF RotateKeep = 0 THEN 1 ELSE RotateKeep
Names == 0 .. Keep      \* 0 is the configured path, i is rolled_path(i)
Newline == <<0, 0>>

(* gen tells the files apart that had a name in turn; no file has gen 0.   *)
NoFile == [data |-> <<>>, synced |-> 0, gen |-> 0]
Exists(f) == f.gen # 0

VARIABLES
    file,       \* name -> [data, synced, gen]; data[1 .. synced] is durable
    fd,         \* the name of the file the writer has open
    buffer,     \* the BufWriter's pieces
    written,    \* FileSink.written
    step,       \* where write() is: "check", "rotate", "reopen", "line", "newline"
    slot,       \* how many renames of the rotation are done
    fails,      \* failures so far
    gens,       \* history: files created
    dropped,    \* history: [gen, lines] of the files rotation removed
    broken      \* history: rotations that did not get to their end

disk == <<file, gens, dropped, broken>>
sink == <<fd, buffer, written, step, slot>>
sinkVars == <<disk, sink, fails>>
vars == <<pollAllVars, sinkVars>>

Init ==
    /\ PollAllInit
    /\ file = [i \in Names |-> NoFile]
    /\ fd = 0
    /\ buffer = <<>>
    /\ written = 0
    /\ step = "check"
    /\ slot = 0
    /\ fails = 0
    /\ gens = 0
    /\ dropped = {}
    /\ broken = 0

-----------------------------------------------------------------------------
(* The file system.                                                        *)
Appended(f, pieces) == [f EXCEPT !.data = @ \o pieces]
Synced(f) == [f EXCEPT !.synced = Len(f.data)]

(* OpenOptions create+append: what is there stays.                         *)
Opened(f) == IF Exists(f) THEN f ELSE [NoFile EXCEPT !.gen = gens + 1]

(* The buffered pieces go to the open file.                                *)
Drained(f) == Appended(f, buffer)
Drain == file' = [file EXCEPT ![fd] = Drained(@)]

(* Only the first n buffered pieces reached the file; the rest is kept.    *)
Partly(n) ==
    /\ file' = [file EXCEPT ![fd] = Appended(@, SubSeq(buffer, 1, n))]
    /\ buffer' = SubSeq(buffer, n + 1, Len(buffer))

Fails == fails < MaxFails /\ fails' = fails + 1

-----------------------------------------------------------------------------
(* FileSink::new(), after the previous cycle's sink was dropped: a         *)
(* BufWriter writes what it can of its buffer when it is dropped.          *)
BuildSink ==
    /\ StartCycle
    /\ \E n \in 0 .. Len(buffer) :
          LET left == [file EXCEPT ![fd] = Appended(@, SubSeq(buffer, 1, n))]
          IN  /\ file' = [left EXCEPT ![0] = Opened(@)]
              /\ written' = Len(file'[0].data)
              /\ gens' = IF file'[0].gen > gens THEN gens + 1 ELSE gens
    /\ fd' = 0
    /\ buffer' = <<>>
    /\ step' = "check"
    /\ slot' = 0
    /\ UNCHANGED <<dropped, broken, fails>>

(* rotate_if_needed(): there is room.                                      *)
NoRotation ==
    /\ phase = "write"
    /\ step = "check"
    /\ RotateBytes = 0 \/ written < RotateBytes
    /\ step' = "line"
    /\ UNCHANGED <<pollAllVars, disk, fd, buffer, written, slot, fails>>

(* The full file is flushed and synced before it is renamed.               *)
CloseFull_Unsynced ==
    /\ phase = "write"
    /\ step = "check"
    /\ RotateBytes > 0 /\ written >= RotateBytes
    /\ Drain
    /\ buffer' = <<>>
    /\ step' = "rotate"
    /\ slot' = 0
    /\ UNCHANGED <<pollAllVars, fd, written, fails, gens, dropped, broken>>
CloseFull ==
    /\ phase = "write"
    /\ step = "check"
    /\ RotateBytes > 0 /\ written >= RotateBytes
    /\ file' = [file EXCEPT ![fd] = Synced(Drained(@))]
    /\ buffer' = <<>>
    /\ step' = "rotate"
    /\ slot' = 0
    /\ UNCHANGED <<pollAllVars, fd, written, fails, gens, dropped, broken>>

(* The renames go from the oldest file to the newest.                      *)
Target_Ascending(n) == n + 1
Target(n) == Keep - n

(* One turn of the loop: what has the name dst is removed, src gets it.    *)
(* The open file keeps being open under its new name.  Where the removal   *)
(* fails, the rename takes its place.                                      *)
Remove ==
    /\ step = "rotate"
    /\ LET dst == Target(slot)
       IN  /\ Exists(file[dst - 1])
           /\ Exists(file[dst])
           /\ file' = [file EXCEPT ![dst] = NoFile]
           /\ dropped' = dropped \union {file[dst]}
    /\ UNCHANGED <<pollAllVars, sink, fails, gens, broken>>

Rename ==
    /\ step = "rotate"
    /\ LET dst == Target(slot)
           src == dst - 1
       IN  IF ~Exists(file[src])
           THEN UNCHANGED <<file, dropped, fd>>
           ELSE /\ file' = [file EXCEPT ![dst] = file[src], ![src] = NoFile]
                /\ dropped' = IF Exists(file[dst]) THEN dropped \union {file[dst]}
                              ELSE dropped
                /\ fd' = IF fd = src THEN dst ELSE fd
    /\ slot' = slot + 1
    /\ step' = IF slot + 1 = Keep THEN "reopen" ELSE "rotate"
    /\ UNCHANGED <<pollAllVars, buffer, written, fails, gens, broken>>

Reopen ==
    /\ step = "reopen"
    /\ file' = [file EXCEPT ![0] = Opened(@)]
    /\ gens' = IF file'[0].gen > gens THEN gens + 1 ELSE gens
    /\ fd' = 0
    /\ written' = 0
    /\ step' = "line"
    /\ slot' = 0
    /\ UNCHANGED <<pollAllVars, buffer, fails, dropped, broken>>

(* write_all(): the buffer is emptied first if the piece finds no room.    *)
Buffered(piece) ==
    IF Len(buffer) < BufSize
    THEN buffer' = Append(buffer, piece) /\ UNCHANGED file
    ELSE buffer' = <<piece>> /\ Drain

WriteLine ==
    /\ step = "line"
    /\ Buffered(Current)
    /\ step' = "newline"
    /\ UNCHANGED <<pollAllVars, fd, written, slot, fails, gens, dropped, broken>>

WriteNewline ==
    /\ step = "newline"
    /\ Buffered(Newline)
    /\ written' = written + 2
    /\ step' = "check"
    /\ Written
    /\ UNCHANGED <<fd, slot, fails, gens, dropped, broken>>

(* flush(): the buffer, then sync_all.                                     *)
Flush ==
    /\ phase = "flush"
    /\ file' = [file EXCEPT ![fd] = Synced(Drained(@))]
    /\ buffer' = <<>>
    /\ Flushed
    /\ UNCHANGED <<fd, written, step, slot, fails, gens, dropped, broken>>

NotAcked == AckFails /\ Fails /\ UNCHANGED <<disk, sink>>

-----------------------------------------------------------------------------
(* A write to the file fails, in a flush, in the flush before a rotation   *)
(* or because the buffer is full: the poll fails, the sink stays in use.   *)
WriteFails ==
    /\ \/ phase = "flush"
       \/ phase = "write" /\ step = "check" /\ RotateBytes > 0 /\ written >= RotateBytes
       \/ step \in {"line", "newline"} /\ Len(buffer) >= BufSize
    /\ \E n \in 0 .. Len(buffer) : Partly(n)
    /\ Fails
    /\ step' = "check"
    /\ PollFails
    /\ UNCHANGED <<fd, written, slot, gens, dropped, broken>>

(* A rename fails, or the path cannot be opened again after it.            *)
RotateFails ==
    /\ step \in {"rotate", "reopen"}
    /\ broken' = broken + 1
    /\ Fails
    /\ step' = "check"
    /\ slot' = 0
    /\ PollFails
    /\ UNCHANGED <<file, fd, buffer, written, gens, dropped>>

SinkGone == fd' = 0 /\ buffer' = <<>> /\ written' = 0 /\ step' = "check" /\ slot' = 0

Interrupted == broken' = IF step \in {"rotate", "reopen"} THEN broken + 1 ELSE broken

(* The process is killed: what was buffered is gone.                       *)
Killed ==
    /\ Crash
    /\ Fails
    /\ SinkGone
    /\ Interrupted
    /\ UNCHANGED <<file, gens, dropped>>

(* The machine stops: of every file at least the synced pieces stay.       *)
Cut(f) == {[f EXCEPT !.data = SubSeq(@, 1, n), !.synced = n] : n \in f.synced .. Len(f.data)}
PowerFailure ==
    /\ Crash
    /\ Fails
    /\ file' \in {g \in [Names -> UNION {Cut(file[i]) : i \in Names}] :
                     \A i \in Names : g[i] \in Cut(file[i])}
    /\ SinkGone
    /\ Interrupted
    /\ UNCHANGED <<gens, dropped>>

-----------------------------------------------------------------------------
Step ==
    \/ BuildSink \/ NoRotation \/ CloseFull \/ Remove \/ Rename \/ Reopen
    \/ WriteLine \/ WriteNewline \/ Flush
    \/ (Stop \/ ReadLog \/ Unreachable \/ Acknowledge) /\ UNCHANGED sinkVars

Fault == WriteFails \/ RotateFails \/ NotAcked \/ Killed \/ PowerFailure

Outside == (RecordEntry \/ Signal) /\ UNCHANGED sinkVars

Next == Step \/ Fault \/ Outside

Spec == Init /\ [][Next]_vars

-----------------------------------------------------------------------------
(* The object of event e and its newline lie in pieces j and j + 1.        *)
LineAt(f, j, e) == j < Len(f.data) /\ f.data[j] = e /\ f.data[j + 1] = Newline
HasLine(f, e) == \E j \in 1 .. f.synced - 1 : LineAt(f, j, e)
OwnLine(f, e) == \E j \in 1 .. Len(f.data) - 1 :
                    LineAt(f, j, e) /\ (j = 1 \/ f.data[j - 1] = Newline)

(* "fsync so an advanced log index can never outrun durable output": what  *)
(* is acknowledged survives a power failure in some file, whatever failed  *)
(* before and however the files were rotated since, until rotation removes *)
(* the file.                                                               *)
AckedIsDurable ==
    \A e \in Acked : \/ \E i \in Names : HasLine(file[i], e)
                     \/ \E f \in dropped : HasLine(f, e)

(* Rotation, interrupted anywhere, keeps the files in order and gives up   *)
(* the oldest only, and that one only when rotate_keep newer ones were     *)
(* made, one fewer for each rotation that did not get to its end: the next *)
(* one moves the files again that it had moved.                            *)
Present == {i \in Names : Exists(file[i])}
RotationDropsOldest ==
    /\ \A i, j \in Present : i < j => file[i].gen > file[j].gen
    /\ \A f \in dropped : /\ \A i \in Present : f.gen < file[i].gen
                          /\ f.gen + Keep <= gens + broken

(* Every acknowledged event can be read as a line of its own.              *)
AckedIsReadable ==
    \A e \in Acked : \/ \E i \in Names : OwnLine(file[i], e)
                     \/ \E f \in dropped : OwnLine(f, e)

-----------------------------------------------------------------------------
(* The inductive invariant behind AckedIsDurable and RotationDropsOldest.  *)

Pieces == (0 .. NumDevices) \X Nat
Files == [data: Seq(Pieces), synced: Nat, gen: Nat]

FilesOK ==
    /\ file \in [Names -> Files]
    /\ \A i \in Names : /\ file[i].synced <= Len(file[i].data)
                        /\ ~Exists(file[i]) => file[i] = NoFile

SinkTypeOK ==
    /\ FilesOK
    /\ fd \in Names
    /\ buffer \in Seq(Pieces)
    /\ written \in Nat
    /\ step \in {"check", "rotate", "reopen", "line", "newline"}
    /\ slot \in 0 .. Keep
    /\ gens \in Nat
    /\ dropped \subseteq Files
    /\ broken \in Nat

(* While a poll is running, the open file is the newest one there is, also *)
(* after a rotation that failed; nothing is buffered for a file that is    *)
(* not there.                                                              *)
OpenOK ==
    /\ phase \in {"read", "write", "flush", "ack"} => Exists(file[fd])
    /\ ~Exists(file[fd]) => buffer = <<>>
    /\ \A i \in Names : i < fd => ~Exists(file[i])

(* What goes to the open file: what it has, and what is buffered.          *)
Stream == file[fd].data \o buffer

(* A rotation begins with an empty buffer, and the place it moves the next *)
(* file to is free, but for the first; an object waits for its newline.    *)
StepOK ==
    /\ step # "check" => phase = "write"
    /\ step \in {"rotate", "reopen"} => buffer = <<>>
    /\ step = "rotate" => slot < Keep /\ (slot > 0 => ~Exists(file[Keep - slot]))
    /\ step = "reopen" => slot = Keep /\ ~Exists(file[0])
    /\ step = "newline" => Stream # <<>> /\ Stream[Len(Stream)] = Current

(* An event the running poll has written is durable, or it is on its way   *)
(* to the open file with its newline; a rotation has made it durable, and  *)
(* so has the flush.                                                       *)
Durable(e) == \/ \E i \in Names : HasLine(file[i], e)
              \/ \E f \in dropped : HasLine(f, e)
InStream(e) == \E j \in 1 .. Len(Stream) - 1 : Stream[j] = e /\ Stream[j + 1] = Newline
OwedOK ==
    \A e \in Owed : \/ Durable(e)
                    \/ phase # "ack" /\ step \notin {"rotate", "reopen"} /\ InStream(e)

(* A file has been renamed once for each file made after it, and once more *)
(* for a rotation that was interrupted or that has renamed it already.     *)
Moved(i) == IF step \in {"rotate", "reopen"} /\ i > Keep - slot THEN 1 ELSE 0
GensOK ==
    /\ \A i \in Present : /\ file[i].gen <= gens
                          /\ file[i].gen + i <= gens + broken + Moved(i)
    /\ \A f \in dropped : f.gen <= gens

FileInvariant ==
    /\ PollOK
    /\ SinkTypeOK
    /\ OpenOK
    /\ StepOK
    /\ OwedOK
    /\ AckedIsDurable
    /\ GensOK
    /\ RotationDropsOldest

(* Every object in a file or a buffer is the event of an entry.            *)
Objects(pieces) == {pieces[j] : j \in 1 .. Len(pieces)} \ {Newline}
PiecesOK ==
    /\ Objects(buffer) \subseteq Recorded
    /\ \A i \in Names : Objects(file[i].data) \subseteq Recorded
    /\ \A f \in dropped : Objects(f.data) \subseteq Recorded

(* With this sink the service does what Delivery promises, delivered to a  *)
(* file and synced there: an event that was durable once stays so, in a    *)
(* file that is there or that rotation has removed.                        *)
Promise == INSTANCE Delivery WITH
               recorded  <- Recorded,
               delivered <- {e \in Devices \X (1 .. Entries) : Durable(e)},
               released  <- Acked
KeepsPromise == Promise!Spec
=============================================================================
