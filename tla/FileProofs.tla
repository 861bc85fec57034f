----------------------------- MODULE FileProofs -----------------------------
(***************************************************************************)
(* The JSON-lines sink, for any number of devices, entries and rolled      *)
(* files, any size of the buffer and of a file, and any number of failed   *)
(* calls, kills and power failures: FileInvariant is inductive, so that    *)
(* AckedIsDurable and RotationDropsOldest hold, and the service with this  *)
(* sink implements Delivery.                                               *)
(***************************************************************************)
EXTENDS FileSink, PollAllProofs, SequenceTheorems

LEMMA KeepType == Keep \in Nat /\ Keep >= 1 /\ 0 \in Names /\ Names \subseteq Nat
  BY FileSinkAssumption DEF Keep, Names

(* File g has the durable part of file f, at least.                        *)
KeepsSynced(f, g) ==
    /\ f.synced <= g.synced
    /\ g.synced <= Len(g.data)
    /\ \A j \in 1 .. f.synced : g.data[j] = f.data[j]

(* A durable line stays one.                                               *)
LEMMA LineKept ==
    ASSUME NEW f \in Files, NEW g \in Files, f.synced <= Len(f.data), KeepsSynced(f, g),
           NEW e, HasLine(f, e)
    PROVE  HasLine(g, e)
<1>0. f.synced \in Nat /\ g.synced \in Nat /\ Len(f.data) \in Nat /\ Len(g.data) \in Nat
  BY DEF Files
<1>1. PICK j \in 1 .. f.synced - 1 : j < Len(f.data) /\ f.data[j] = e /\ f.data[j + 1] = Newline
  BY DEF HasLine, LineAt
<1>2. j \in 1 .. f.synced /\ j + 1 \in 1 .. f.synced
  BY <1>0, <1>1
<1>3. g.data[j] = e /\ g.data[j + 1] = Newline
  BY <1>1, <1>2 DEF KeepsSynced
<1>4. j \in 1 .. g.synced - 1 /\ j < Len(g.data)
  BY <1>0, <1>1 DEF KeepsSynced
<1> QED BY <1>3, <1>4 DEF HasLine, LineAt

(* What the operations on a file do.                                       *)
LEMMA AppendedFact ==
    ASSUME NEW f \in Files, f.synced <= Len(f.data), NEW s \in Seq(Pieces)
    PROVE  /\ Appended(f, s) \in Files
           /\ Appended(f, s).gen = f.gen
           /\ Appended(f, s).synced <= Len(Appended(f, s).data)
           /\ Appended(f, s).data = f.data \o s
           /\ KeepsSynced(f, Appended(f, s))
<1>0. f.data \in Seq(Pieces) /\ f.synced \in Nat
  BY DEF Files
<1>1. /\ f.data \o s \in Seq(Pieces)
      /\ Len(f.data \o s) = Len(f.data) + Len(s)
      /\ \A j \in 1 .. Len(f.data) : (f.data \o s)[j] = f.data[j]
  BY <1>0, ConcatProperties
<1>2. Appended(f, s) = [data |-> f.data \o s, synced |-> f.synced, gen |-> f.gen]
  <2> DEFINE d == f.data \o s
  <2>1. Appended(f, s) = [f EXCEPT !.data = d]
    BY DEF Appended
  <2> HIDE DEF d
  <2>2. [f EXCEPT !.data = d] = [data |-> d, synced |-> f.synced, gen |-> f.gen]
    BY DEF Files
  <2> QED BY <2>1, <2>2 DEF d
<1>3. Len(f.data) \in Nat /\ Len(s) \in Nat
  BY <1>0
<1> QED BY <1>0, <1>1, <1>2, <1>3 DEF Files, KeepsSynced

LEMMA SyncedFact ==
    ASSUME NEW f \in Files, f.synced <= Len(f.data)
    PROVE  /\ Synced(f) \in Files
           /\ Synced(f).gen = f.gen
           /\ Synced(f).data = f.data
           /\ Synced(f).synced = Len(f.data)
           /\ KeepsSynced(f, Synced(f))
<1>1. Synced(f) = [data |-> f.data, synced |-> Len(f.data), gen |-> f.gen]
  BY DEF Synced, Files
<1>2. Len(f.data) \in Nat
  BY DEF Files
<1> QED BY <1>1, <1>2 DEF Files, KeepsSynced

LEMMA NoFileType == NoFile \in Files /\ ~Exists(NoFile) /\ NoFile.data = <<>> /\ NoFile.synced = 0
<1>1. <<>> \in Seq(Pieces)
  OBVIOUS
<1> QED BY <1>1 DEF NoFile, Files, Exists

LEMMA OpenedFact ==
    ASSUME NEW f \in Files, ~Exists(f) => f = NoFile, gens \in Nat
    PROVE  /\ Opened(f) \in Files /\ Exists(Opened(f))
           /\ Exists(f) => Opened(f) = f
           /\ ~Exists(f) => Opened(f).gen = gens + 1 /\ Opened(f).data = <<>>
                            /\ Opened(f).synced = 0
<1>1. CASE Exists(f)
  BY <1>1 DEF Opened
<1>2. CASE ~Exists(f)
  <2>1. Opened(f) = [data |-> <<>>, synced |-> 0, gen |-> gens + 1]
    BY <1>2 DEF Opened, NoFile
  <2>2. <<>> \in Seq(Pieces) /\ gens + 1 \in Nat /\ gens + 1 # 0
    OBVIOUS
  <2> QED BY <1>2, <2>1, <2>2 DEF Files, Exists
<1> QED BY <1>1, <1>2

LEMMA CutFact ==
    ASSUME NEW f \in Files, f.synced <= Len(f.data), NEW g \in Cut(f)
    PROVE  /\ g \in Files /\ g.gen = f.gen /\ g.synced <= Len(g.data)
           /\ KeepsSynced(f, g)
           /\ f = NoFile => g = NoFile
<1>0. f.data \in Seq(Pieces) /\ f.synced \in Nat /\ Len(f.data) \in Nat
  BY DEF Files
<1>1. PICK n \in f.synced .. Len(f.data) :
        g = [f EXCEPT !.data = SubSeq(@, 1, n), !.synced = n]
  BY DEF Cut
<1>2. g = [data |-> SubSeq(f.data, 1, n), synced |-> n, gen |-> f.gen]
  BY <1>1 DEF Files
<1>3. /\ SubSeq(f.data, 1, n) \in Seq(Pieces)
      /\ Len(SubSeq(f.data, 1, n)) = n
      /\ \A j \in 1 .. n : SubSeq(f.data, 1, n)[j] = f.data[j]
  BY <1>0
<1>4. n \in Nat /\ f.synced <= n
  BY <1>0
<1>5. g \in Files /\ g.gen = f.gen /\ g.synced <= Len(g.data) /\ KeepsSynced(f, g)
  BY <1>0, <1>2, <1>3, <1>4 DEF Files, KeepsSynced
<1>6. ASSUME f = NoFile PROVE g = NoFile
  <2>1. n = 0 /\ SubSeq(f.data, 1, n) = <<>>
    BY <1>3, <1>6, NoFileType
  <2> QED BY <1>2, <1>6, <2>1 DEF NoFile
<1> QED BY <1>5, <1>6

(* A line is durable as long as the durable part of its file lives on      *)
(* under some name, or the file was dropped.                               *)
LEMMA DurableKept ==
    ASSUME file \in [Names -> Files], file' \in [Names -> Files],
           \A i \in Names : file[i].synced <= Len(file[i].data),
           dropped \subseteq dropped',
           \A i \in Names : \/ \E k \in Names : KeepsSynced(file[i], file'[k])
                            \/ file[i].synced = 0
                            \/ file[i] \in dropped',
           NEW e, Durable(e)
    PROVE  Durable(e)'
<1>1. CASE \E f \in dropped : HasLine(f, e)
  BY <1>1 DEF Durable
<1>2. CASE \E i \in Names : HasLine(file[i], e)
  <2>1. PICK i \in Names : HasLine(file[i], e)
    BY <1>2
  <2>2. file[i].synced # 0
    BY <2>1 DEF HasLine
  <2>3. CASE \E k \in Names : KeepsSynced(file[i], file'[k])
    <3>1. PICK k \in Names : KeepsSynced(file[i], file'[k])
      BY <2>3
    <3>2. HasLine(file'[k], e)
      BY <2>1, <3>1, LineKept
    <3> QED BY <3>2 DEF Durable
  <2>4. CASE file[i] \in dropped'
    BY <2>1, <2>4 DEF Durable
  <2> QED BY <2>2, <2>3, <2>4
<1> QED BY <1>1, <1>2 DEF Durable

-----------------------------------------------------------------------------
(* Steps that only add to files: no file gets another name.                *)
Grown == \A i \in Names : KeepsSynced(file[i], file'[i]) /\ file'[i].gen = file[i].gen

LEMMA SameFiles ==
    ASSUME FilesOK, UNCHANGED file
    PROVE  FilesOK' /\ Grown
<1>1. FilesOK'
  BY DEF FilesOK
<1>2. \A i \in Names : KeepsSynced(file[i], file[i])
  BY DEF FilesOK, KeepsSynced, Files
<1> QED BY <1>1, <1>2 DEF Grown

LEMMA FdGrows ==
    ASSUME FilesOK, fd \in Names, NEW g \in Files, file' = [file EXCEPT ![fd] = g],
           KeepsSynced(file[fd], g), g.gen = file[fd].gen, ~Exists(file[fd]) => g = NoFile
    PROVE  FilesOK' /\ Grown /\ file'[fd] = g
<1>1. /\ file' \in [Names -> Files] /\ file'[fd] = g
      /\ \A i \in Names : i # fd => file'[i] = file[i]
  BY DEF FilesOK
<1>2. \A i \in Names : KeepsSynced(file[i], file[i])
  BY DEF FilesOK, KeepsSynced, Files
<1>3. Grown
  BY <1>1, <1>2 DEF Grown
<1>4. FilesOK'
  BY <1>1 DEF FilesOK, KeepsSynced, Exists
<1> QED BY <1>1, <1>3, <1>4

(* What is durable, the order of the files and the count of their renames  *)
(* do not suffer.                                                          *)
LEMMA GrownKeeps ==
    ASSUME FilesOK, FilesOK', Grown, UNCHANGED <<dropped, gens>>,
           dropped \subseteq Files, gens \in Nat, broken \in Nat, broken' \in Nat, broken <= broken',
           \A i \in Names : Moved(i) <= (broken' - broken) + Moved(i)',
           GensOK, RotationDropsOldest
    PROVE  /\ GensOK' /\ RotationDropsOldest'
           /\ \A e : Durable(e) => Durable(e)'
<1>1. \A e : Durable(e) => Durable(e)'
  BY DurableKept DEF FilesOK, Grown
<1>2. Present' = Present /\ \A i \in Names : file'[i].gen = file[i].gen /\ file[i].gen \in Nat
  BY DEF Present, Exists, Grown, FilesOK, Files
<1>3. RotationDropsOldest'
  <2>1. \A f \in dropped : f.gen + Keep <= gens + broken => f.gen + Keep <= gens + broken'
    BY KeepType DEF Files
  <2> QED BY <1>2, <2>1 DEF RotationDropsOldest, Present
<1>4. GensOK'
  <2> SUFFICES ASSUME NEW i \in Present
               PROVE  file[i].gen <= gens /\ file[i].gen + i <= gens + broken' + Moved(i)'
    BY <1>2 DEF GensOK, Present
  <2>1. i \in Names /\ i \in Nat /\ file[i].gen \in Nat
    BY <1>2, KeepType DEF Present
  <2>2. file[i].gen <= gens /\ file[i].gen + i <= gens + broken + Moved(i)
    BY DEF GensOK
  <2>3. Moved(i) \in Nat /\ Moved(i)' \in Nat /\ Moved(i) <= (broken' - broken) + Moved(i)'
    BY <2>1 DEF Moved
  <2> QED BY <2>1, <2>2, <2>3
<1> QED BY <1>1, <1>3, <1>4

(* The buffer goes to the file and the file to the disk: every line of the *)
(* stream is durable.                                                      *)
LEMMA StreamSynced ==
    ASSUME FilesOK, OpenOK, fd \in Names, buffer \in Seq(Pieces),
           file' = [file EXCEPT ![fd] = Synced(Drained(@))]
    PROVE  FilesOK' /\ Grown /\ \A e : InStream(e) => Durable(e)'
<1> DEFINE f == Drained(file[fd])
<1>1. /\ f \in Files /\ f.gen = file[fd].gen /\ f.synced <= Len(f.data)
      /\ f.data = Stream /\ KeepsSynced(file[fd], f)
  BY AppendedFact DEF FilesOK, Drained, Stream
<1> HIDE DEF f
<1>2. /\ Synced(f) \in Files /\ Synced(f).gen = file[fd].gen /\ Synced(f).data = Stream
      /\ Synced(f).synced = Len(Stream) /\ KeepsSynced(f, Synced(f))
  BY <1>1, SyncedFact
<1>3. KeepsSynced(file[fd], Synced(f))
  BY <1>1, <1>2 DEF KeepsSynced, FilesOK, Files
<1>4. ~Exists(file[fd]) => Synced(f) = NoFile
  <2> SUFFICES ASSUME ~Exists(file[fd]) PROVE Synced(f) = NoFile
    OBVIOUS
  <2>1. file[fd] = NoFile /\ buffer = <<>>
    BY DEF FilesOK, OpenOK
  <2>2. Stream = <<>> /\ Len(Stream) = 0
    BY <2>1, NoFileType DEF Stream
  <2>3. Synced(f) = [data |-> <<>>, synced |-> 0, gen |-> 0]
    BY <1>2, <2>1, <2>2 DEF Files, NoFile
  <2> QED BY <2>3 DEF NoFile
<1>5. FilesOK' /\ Grown /\ file'[fd] = Synced(f)
  BY <1>2, <1>3, <1>4, FdGrows DEF f
<1>6. ASSUME NEW e, InStream(e) PROVE Durable(e)'
  <2>1. PICK j \in 1 .. Len(Stream) - 1 : Stream[j] = e /\ Stream[j + 1] = Newline
    BY <1>6 DEF InStream
  <2>2. Len(Stream) \in Nat
    BY <1>1 DEF Files
  <2>3. HasLine(file'[fd], e)
    BY <1>2, <1>5, <2>1, <2>2 DEF HasLine, LineAt
  <2> QED BY <2>3 DEF Durable
<1> QED BY <1>5, <1>6

(* A piece is written: the stream has one more.                            *)
LEMMA StreamGrows ==
    ASSUME FilesOK, fd \in Names, buffer \in Seq(Pieces), Exists(file[fd]),
           NEW piece \in Pieces, Buffered(piece), fd' = fd
    PROVE  /\ FilesOK' /\ Grown /\ buffer' \in Seq(Pieces)
           /\ Stream \in Seq(Pieces) /\ Stream' = Append(Stream, piece)
           /\ Exists(file'[fd])
<1>0. file[fd] \in Files /\ file[fd].data \in Seq(Pieces) /\ file[fd].synced <= Len(file[fd].data)
  BY DEF FilesOK, Files
<1>1. Stream \in Seq(Pieces)
  BY <1>0, ConcatProperties DEF Stream
<1>2. CASE buffer' = Append(buffer, piece) /\ UNCHANGED file
  <2>1. FilesOK' /\ Grown
    BY <1>2, SameFiles
  <2>2. file[fd].data \o Append(buffer, piece) = Append(file[fd].data \o buffer, piece)
    <3> DEFINE d == file[fd].data
    <3>1. d \in Seq(Pieces) /\ <<piece>> \in Seq(Pieces)
      BY <1>0
    <3> HIDE DEF d
    <3>2. Append(buffer, piece) = buffer \o <<piece>>
      BY AppendIsConcat
    <3>3. d \o buffer \in Seq(Pieces)
      BY <3>1, ConcatProperties
    <3>4. Append(d \o buffer, piece) = (d \o buffer) \o <<piece>>
      BY <3>3, AppendIsConcat
    <3>5. (d \o buffer) \o <<piece>> = d \o (buffer \o <<piece>>)
      BY <3>1, ConcatAssociative
    <3> QED BY <3>2, <3>4, <3>5 DEF d
  <2> QED BY <1>1, <1>2, <2>1, <2>2 DEF Stream
<1>3. CASE buffer' = <<piece>> /\ Drain
  <2>1. /\ Drained(file[fd]) \in Files /\ Drained(file[fd]).gen = file[fd].gen
        /\ Drained(file[fd]).data = Stream /\ KeepsSynced(file[fd], Drained(file[fd]))
    BY <1>0, AppendedFact DEF Drained, Stream
  <2>2. FilesOK' /\ Grown /\ file'[fd] = Drained(file[fd])
    BY <1>3, <2>1, FdGrows DEF Drain
  <2>3. Stream' = Stream \o <<piece>>
    BY <1>3, <2>1, <2>2 DEF Stream
  <2>4. Stream \o <<piece>> = Append(Stream, piece)
    BY <1>1
  <2> QED BY <1>1, <1>3, <2>1, <2>2, <2>3, <2>4 DEF Exists
<1> QED BY <1>2, <1>3 DEF Buffered

-----------------------------------------------------------------------------
(* Steps that give files new names.                                        *)

(* The path is opened, perhaps after something was added to files: a new   *)
(* file is newer than all others, and makes up for the renames before it.  *)
LEMMA OpenKeeps ==
    ASSUME FilesOK, NEW left \in [Names -> Files],
           \A i \in Names : /\ KeepsSynced(file[i], left[i]) /\ left[i].gen = file[i].gen
                            /\ ~Exists(file[i]) => left[i] = NoFile,
           file' = [left EXCEPT ![0] = Opened(@)],
           gens' = (IF file'[0].gen > gens THEN gens + 1 ELSE gens),
           UNCHANGED <<dropped, broken>>,
           dropped \subseteq Files, gens \in Nat, broken \in Nat,
           GensOK, RotationDropsOldest,
           \A i \in Names : Moved(i)' = 0 /\ (Exists(file[0]) => Moved(i) = 0)
    PROVE  /\ FilesOK' /\ Exists(file'[0]) /\ gens' \in Nat
           /\ ~Exists(file[0]) => file'[0].data = <<>>
           /\ GensOK' /\ RotationDropsOldest'
           /\ \A e : Durable(e) => Durable(e)'
<1> DEFINE g == left[0]
<1>0. /\ 0 \in Names /\ Keep \in Nat /\ Names \subseteq Nat
      /\ g \in Files /\ file[0] \in Files /\ (~Exists(g) => g = NoFile)
      /\ (Exists(g) <=> Exists(file[0])) /\ g.gen = file[0].gen
      /\ KeepsSynced(file[0], g) /\ (~Exists(file[0]) => g = NoFile)
  BY KeepType DEF FilesOK, Exists
<1>1. /\ file' \in [Names -> Files] /\ file'[0] = Opened(g)
      /\ \A i \in Names : i # 0 => file'[i] = left[i]
  BY <1>0, OpenedFact
<1> HIDE DEF g
<1>2. /\ Exists(file'[0])
      /\ Exists(file[0]) => file'[0] = g
      /\ ~Exists(file[0]) => /\ file'[0].gen = gens + 1 /\ file'[0].data = <<>>
                             /\ file'[0].synced = 0
  BY <1>0, <1>1, OpenedFact
<1>3. \A i \in Names : /\ KeepsSynced(file[i], file'[i])
                       /\ file'[i].synced <= Len(file'[i].data)
                       /\ i # 0 => file'[i].gen = file[i].gen
                       /\ i # 0 => (~Exists(file'[i]) => file'[i] = NoFile)
  <2> SUFFICES ASSUME NEW i \in Names
               PROVE  /\ KeepsSynced(file[i], file'[i])
                      /\ file'[i].synced <= Len(file'[i].data)
                      /\ i # 0 => file'[i].gen = file[i].gen
                      /\ i # 0 => (~Exists(file'[i]) => file'[i] = NoFile)
    OBVIOUS
  <2>1. CASE i # 0
    BY <1>1, <2>1 DEF KeepsSynced, Exists
  <2>2. CASE i = 0 /\ Exists(file[0])
    BY <1>0, <1>2, <2>2 DEF KeepsSynced
  <2>3. CASE i = 0 /\ ~Exists(file[0])
    <3>1. file[0] = NoFile /\ file[0].synced = 0
      BY <2>3, <1>0, NoFileType DEF FilesOK
    <3> QED BY <1>2, <2>3, <3>1 DEF KeepsSynced
  <2> QED BY <2>1, <2>2, <2>3
<1>4. FilesOK'
  BY <1>1, <1>2, <1>3 DEF FilesOK, Exists
<1>5. \A e : Durable(e) => Durable(e)'
  BY <1>1, <1>3, DurableKept DEF FilesOK
<1>6. \A i \in Names : file[i].gen \in Nat /\ (i \in Present => file[i].gen <= gens)
  BY DEF FilesOK, Files, GensOK
<1>7. gens' = IF Exists(file[0]) THEN gens ELSE gens + 1
  BY <1>0, <1>2, <1>6 DEF Present
<1>8. \A i \in Names : /\ i # 0 => (i \in Present' <=> i \in Present)
                       /\ Exists(file[0]) => file'[i].gen = file[i].gen
  BY <1>0, <1>2, <1>3 DEF Present, Exists
<1>9. GensOK'
  <2>1. ASSUME NEW i \in Present'
        PROVE  file'[i].gen <= gens' /\ file'[i].gen + i <= gens' + broken + Moved(i)'
    <3>0. i \in Names /\ i \in Nat /\ Moved(i)' = 0
      BY <1>0 DEF Present
    <3>1. CASE Exists(file[0])
      <4>1. i \in Present /\ file'[i].gen = file[i].gen /\ Moved(i) = 0 /\ gens' = gens
        BY <1>7, <1>8, <2>1, <3>0, <3>1 DEF Present
      <4> QED BY <3>0, <4>1, <1>6 DEF GensOK
    <3>2. CASE ~Exists(file[0]) /\ i = 0
      BY <1>2, <1>7, <3>0, <3>2
    <3>3. CASE ~Exists(file[0]) /\ i # 0
      <4>1. i \in Present /\ file'[i].gen = file[i].gen
        BY <1>3, <1>8, <3>0, <3>3
      <4>2. file[i].gen <= gens /\ file[i].gen + i <= gens + broken + Moved(i)
        BY <4>1 DEF GensOK
      <4>3. Moved(i) \in {0, 1}
        BY DEF Moved
      <4> QED BY <1>6, <1>7, <3>0, <3>3, <4>1, <4>2, <4>3
    <3> QED BY <3>1, <3>2, <3>3
  <2>2. \A f \in dropped' : f.gen <= gens'
    BY <1>7 DEF GensOK, Files
  <2> QED BY <2>1, <2>2 DEF GensOK
<1>10. RotationDropsOldest'
  <2>1. ASSUME NEW i \in Present', NEW j \in Present', i < j
        PROVE  file'[i].gen > file'[j].gen
    <3>0. i \in Names /\ j \in Names /\ j # 0 /\ j \in Present /\ file'[j].gen = file[j].gen
      BY <1>0, <1>3, <1>8, <2>1 DEF Present
    <3>1. CASE Exists(file[0]) \/ i # 0
      <4>1. i \in Present /\ file'[i].gen = file[i].gen
        BY <1>3, <1>8, <2>1, <3>0, <3>1 DEF Present
      <4> QED BY <2>1, <3>0, <4>1 DEF RotationDropsOldest
    <3>2. CASE ~Exists(file[0]) /\ i = 0
      BY <1>2, <1>6, <3>0, <3>2
    <3> QED BY <3>1, <3>2
  <2>2. ASSUME NEW f \in dropped, NEW i \in Present'
        PROVE  f.gen < file'[i].gen
    <3>0. i \in Names /\ f.gen \in Nat
      BY DEF Present, Files
    <3>1. CASE Exists(file[0]) \/ i # 0
      <4>1. i \in Present /\ file'[i].gen = file[i].gen
        BY <1>3, <1>8, <2>2, <3>0, <3>1 DEF Present
      <4> QED BY <2>2, <3>0, <4>1 DEF RotationDropsOldest
    <3>2. CASE ~Exists(file[0]) /\ i = 0
      BY <1>2, <3>0, <3>2 DEF GensOK
    <3> QED BY <3>1, <3>2
  <2>3. \A f \in dropped' : f.gen + Keep <= gens' + broken'
    BY <1>0, <1>7 DEF RotationDropsOldest, Files
  <2> QED BY <2>1, <2>2, <2>3 DEF RotationDropsOldest
<1> QED BY <1>2, <1>4, <1>5, <1>7, <1>9, <1>10

(* What the rotation removes or renames over is the oldest file, if there  *)
(* is one: only the first of the renames finds its new name taken.         *)
LEMMA OldestDropped ==
    ASSUME FilesOK, GensOK, RotationDropsOldest, StepOK, step = "rotate", slot \in 0 .. Keep,
           dropped \subseteq Files, gens \in Nat, broken \in Nat,
           Exists(file[Target(slot)])
    PROVE  /\ slot = 0 /\ Target(slot) = Keep
           /\ \A i \in Present : i # Keep => file[Keep].gen < file[i].gen
           /\ file[Keep].gen + Keep <= gens + broken
           /\ file[Keep].gen <= gens
           /\ file[Keep] \in Files
<1>0. Keep \in Nat /\ Keep >= 1 /\ Names = 0 .. Keep /\ Keep \in Names
  BY KeepType DEF Names
<1>1. slot = 0 /\ Target(slot) = Keep
  BY <1>0 DEF StepOK, Target
<1>2. Keep \in Present
  BY <1>0, <1>1 DEF Present
<1>3. \A i \in Present : i # Keep => i < Keep
  BY <1>0 DEF Present
<1>4. Moved(Keep) = 0
  BY <1>0, <1>1 DEF Moved
<1> QED BY <1>0, <1>1, <1>2, <1>3, <1>4 DEF GensOK, RotationDropsOldest, FilesOK, Files

(* The parts of the invariant, and the types that are used most.           *)
LEMMA InvariantParts ==
    ASSUME FileInvariant
    PROVE  /\ PollOK /\ FilesOK /\ SinkTypeOK /\ OpenOK /\ StepOK /\ OwedOK /\ AckedIsDurable
           /\ GensOK /\ RotationDropsOldest
           /\ dropped \subseteq Files /\ gens \in Nat /\ broken \in Nat /\ slot \in 0 .. Keep
           /\ fd \in Names /\ buffer \in Seq(Pieces) /\ written \in Nat
<1>1. SinkTypeOK /\ PollOK /\ OpenOK /\ StepOK /\ OwedOK /\ AckedIsDurable
      /\ GensOK /\ RotationDropsOldest
  BY DEF FileInvariant
<1>2. FilesOK
  BY <1>1 DEF SinkTypeOK
<1> QED BY <1>1, <1>2 DEF SinkTypeOK

(* The two turns of the rotation.                                          *)
LEMMA RemoveKeeps ==
    ASSUME FileInvariant, Remove
    PROVE  /\ SinkTypeOK' /\ OpenOK' /\ StepOK' /\ GensOK' /\ RotationDropsOldest'
           /\ \A e : Durable(e) => Durable(e)'
<1> DEFINE dst == Target(slot)
<1>0. /\ FilesOK /\ SinkTypeOK /\ OpenOK /\ StepOK /\ GensOK /\ RotationDropsOldest
      /\ dropped \subseteq Files /\ gens \in Nat /\ broken \in Nat /\ slot \in 0 .. Keep
      /\ fd \in Names
  BY InvariantParts
<1>1. /\ step = "rotate" /\ Exists(file[dst - 1]) /\ Exists(file[dst])
      /\ file' = [file EXCEPT ![dst] = NoFile]
      /\ dropped' = dropped \union {file[dst]}
      /\ UNCHANGED <<pollAllVars, sink, fails, gens, broken>>
  BY DEF Remove
<1>2. /\ Keep \in Nat /\ Keep >= 1 /\ Names = 0 .. Keep /\ Keep \in Names
      /\ slot = 0 /\ dst = Keep
      /\ \A i \in Present : i # Keep => file[Keep].gen < file[i].gen
      /\ file[Keep].gen + Keep <= gens + broken
      /\ file[Keep].gen <= gens
      /\ file[Keep] \in Files
  BY <1>0, <1>1, OldestDropped, KeepType DEF Names
<1> HIDE DEF dst
<1>3. /\ file' \in [Names -> Files] /\ file'[Keep] = NoFile
      /\ \A i \in Names : i # Keep => file'[i] = file[i]
  BY <1>0, <1>1, <1>2, NoFileType DEF FilesOK
<1>4. FilesOK'
  BY <1>0, <1>3, NoFileType DEF FilesOK
<1>5. UNCHANGED <<fd, buffer, written, step, slot>>
  BY <1>1 DEF sink
<1>6. SinkTypeOK'
  BY <1>0, <1>1, <1>2, <1>4, <1>5 DEF SinkTypeOK, FilesOK
<1>7. fd # Keep
  <2>1. dst - 1 \in Names /\ dst - 1 < Keep
    BY <1>2
  <2> QED BY <1>0, <1>1, <2>1 DEF OpenOK
<1>8. OpenOK' /\ StepOK'
  <2>1. file'[fd] = file[fd]
    BY <1>0, <1>3, <1>7
  <2>2. OpenOK'
    BY <1>0, <1>1, <1>3, <1>5, <2>1, NoFileType DEF OpenOK, pollAllVars, pollVars
  <2>3. StepOK'
    BY <1>0, <1>1, <1>2, <1>5 DEF StepOK, pollAllVars, pollVars
  <2> QED BY <2>2, <2>3
<1>9. \A i \in Present' : i \in Present /\ i # Keep /\ file'[i] = file[i]
  BY <1>3, NoFileType DEF Present
<1>10. GensOK'
  BY <1>0, <1>1, <1>2, <1>5, <1>9 DEF GensOK, Moved
<1>11. RotationDropsOldest'
  BY SMTT(20), <1>0, <1>1, <1>2, <1>9 DEF RotationDropsOldest
<1>12. \A e : Durable(e) => Durable(e)'
  <2>1. \A i \in Names : i # Keep => KeepsSynced(file[i], file'[i])
    BY <1>0, <1>3 DEF KeepsSynced, FilesOK, Files
  <2>2. file[Keep] \in dropped'
    BY <1>1, <1>2
  <2> QED BY <1>0, <1>1, <1>3, <2>1, <2>2, DurableKept DEF FilesOK
<1> QED BY <1>6, <1>8, <1>10, <1>11, <1>12

LEMMA RenameKeeps ==
    ASSUME FileInvariant, Rename
    PROVE  /\ SinkTypeOK' /\ OpenOK' /\ StepOK' /\ GensOK' /\ RotationDropsOldest'
           /\ \A e : Durable(e) => Durable(e)'
<1> DEFINE dst == Target(slot)
           src == dst - 1
<1>0. /\ FilesOK /\ SinkTypeOK /\ OpenOK /\ StepOK /\ GensOK /\ RotationDropsOldest
      /\ dropped \subseteq Files /\ gens \in Nat /\ broken \in Nat /\ slot \in 0 .. Keep
      /\ fd \in Names /\ buffer \in Seq(Pieces) /\ written \in Nat
  BY InvariantParts
<1>1. /\ step = "rotate" /\ slot' = slot + 1
      /\ step' = IF slot + 1 = Keep THEN "reopen" ELSE "rotate"
      /\ UNCHANGED <<turn, phase, next, read, acked, buffer, written, fails, gens, broken>>
  BY DEF Rename, pollAllVars, pollVars
<1>2. /\ Keep \in Nat /\ Keep >= 1 /\ Names = 0 .. Keep /\ Keep \in Names
      /\ slot \in Nat /\ slot < Keep /\ dst = Keep - slot /\ src = dst - 1
      /\ dst \in Names /\ src \in Names /\ dst \in Nat /\ src \in Nat
      /\ phase = "write" /\ buffer = <<>>
  BY <1>0, <1>1, KeepType DEF Names, StepOK, Target
<1>3. ~Exists(file[src]) => file' = file /\ dropped' = dropped /\ fd' = fd
  BY DEF Rename
<1>4. Exists(file[src]) =>
        /\ file' = [file EXCEPT ![dst] = file[src], ![src] = NoFile]
        /\ dropped' = IF Exists(file[dst]) THEN dropped \union {file[dst]} ELSE dropped
        /\ fd' = IF fd = src THEN dst ELSE fd
  BY DEF Rename
<1>5. Exists(file[dst]) => /\ slot = 0 /\ dst = Keep
                           /\ \A i \in Present : i # Keep => file[Keep].gen < file[i].gen
                           /\ file[Keep].gen + Keep <= gens + broken
                           /\ file[Keep].gen <= gens
                           /\ file[Keep] \in Files
  BY <1>0, <1>1, OldestDropped
<1> HIDE DEF dst, src
<1>6. \A i \in Names : Moved(i) = (IF i > dst THEN 1 ELSE 0)
                       /\ Moved(i)' = (IF i > src THEN 1 ELSE 0)
  BY <1>1, <1>2 DEF Moved
<1>7. CASE ~Exists(file[src])
  <2>1. FilesOK' /\ Grown
    BY <1>0, <1>3, <1>7, SameFiles
  <2>2. GensOK' /\ RotationDropsOldest' /\ \A e : Durable(e) => Durable(e)'
    <3>1. \A i \in Names : Moved(i) <= (broken' - broken) + Moved(i)'
      BY <1>0, <1>1, <1>2, <1>6
    <3> QED BY <1>0, <1>1, <1>3, <1>7, <2>1, <3>1, GrownKeeps
  <2>3. SinkTypeOK'
    BY <1>0, <1>1, <1>2, <1>3, <1>7, <2>1 DEF SinkTypeOK, FilesOK
  <2>4. OpenOK'
    BY <1>0, <1>1, <1>3, <1>7 DEF OpenOK
  <2>5. StepOK'
    BY <1>1, <1>2, <1>3, <1>7 DEF StepOK
  <2> QED BY <2>2, <2>3, <2>4, <2>5
<1>8. CASE Exists(file[src])
  <2>1. /\ file' \in [Names -> Files] /\ file'[dst] = file[src] /\ file'[src] = NoFile
        /\ \A i \in Names : i # src /\ i # dst => file'[i] = file[i]
    <3>1. file \in [Names -> Files] /\ file[src] \in Files /\ NoFile \in Files /\ dst # src
      BY <1>0, <1>2, NoFileType DEF FilesOK
    <3>2. file' = [file EXCEPT ![dst] = file[src], ![src] = NoFile]
      BY <1>4, <1>8
    <3> QED BY <1>2, <3>1, <3>2
  <2>2. FilesOK'
    <3>1. ASSUME NEW i \in Names
          PROVE  file'[i].synced <= Len(file'[i].data) /\ (~Exists(file'[i]) => file'[i] = NoFile)
      <4>1. CASE i = dst
        BY <1>0, <1>2, <1>8, <2>1, <4>1 DEF FilesOK
      <4>2. CASE i = src
        <5>1. Len(NoFile.data) = 0 /\ NoFile.synced = 0
          BY NoFileType
        <5> QED BY <2>1, <4>2, <5>1
      <4>3. CASE i # dst /\ i # src
        BY <1>0, <2>1, <4>3 DEF FilesOK
      <4> QED BY <4>1, <4>2, <4>3
    <3> QED BY <2>1, <3>1 DEF FilesOK
  <2>3. dropped' \subseteq Files /\ dropped \subseteq dropped'
        /\ (Exists(file[dst]) => file[dst] \in dropped')
        /\ dropped' \subseteq dropped \union {file[dst]}
        /\ (~Exists(file[dst]) => dropped' = dropped)
    BY <1>0, <1>2, <1>4, <1>5, <1>8
  <2>4. fd' \in Names /\ (fd = src => fd' = dst) /\ (fd # src => fd' = fd)
    BY <1>0, <1>2, <1>4, <1>8
  <2>5. SinkTypeOK'
    BY <1>0, <1>1, <1>2, <2>2, <2>3, <2>4 DEF SinkTypeOK, FilesOK
  <2>6. fd <= src /\ Exists(file[fd])
    BY <1>0, <1>2, <1>8 DEF OpenOK
  <2>7. OpenOK'
    <3>1. Exists(file'[fd'])
      BY <1>0, <1>2, <1>8, <2>1, <2>4, <2>6
    <3>2. \A i \in Names : i < fd' => ~Exists(file'[i])
      BY <1>0, <1>2, <2>1, <2>4, <2>6, NoFileType DEF OpenOK
    <3> QED BY <1>1, <1>2, <3>1, <3>2 DEF OpenOK
  <2>8. StepOK'
    BY <1>1, <1>2, <2>1, NoFileType DEF StepOK
  <2>9. \A i \in Present' : \/ i \in Present /\ i # src /\ i # dst /\ file'[i] = file[i]
                            \/ i = dst /\ file'[i] = file[src]
    BY <1>2, <2>1, NoFileType DEF Present
  <2>10. src \in Present /\ file[src].gen \in Nat /\ \A i \in Names : file[i].gen \in Nat
    BY <1>0, <1>2, <1>8 DEF Present, FilesOK, Files
  <2>11. GensOK'
    <3>1. ASSUME NEW i \in Present'
          PROVE  file'[i].gen <= gens /\ file'[i].gen + i <= gens + broken + Moved(i)'
      <4>0. i \in Names /\ i \in Nat
        BY <1>2 DEF Present
      <4>1. CASE i = dst /\ file'[i] = file[src]
        <5>1. file[src].gen <= gens /\ file[src].gen + src <= gens + broken + 0
          BY <1>0, <1>2, <1>6, <2>10 DEF GensOK
        <5> QED BY <1>0, <1>2, <1>6, <2>10, <4>1, <5>1
      <4>2. CASE i \in Present /\ i # src /\ i # dst /\ file'[i] = file[i]
        <5>1. Moved(i) = Moved(i)'
          BY <1>2, <1>6, <4>0, <4>2
        <5> QED BY <1>0, <4>2, <5>1 DEF GensOK
      <4> QED BY <2>9, <3>1, <4>1, <4>2
    <3>2. \A f \in dropped' : f.gen <= gens
      BY <1>0, <1>2, <1>5, <2>3 DEF GensOK
    <3> QED BY <1>1, <3>1, <3>2 DEF GensOK
  <2>12. RotationDropsOldest'
    <3>1. ASSUME NEW i \in Present', NEW j \in Present', i < j
          PROVE  file'[i].gen > file'[j].gen
      <4>0. i \in Names /\ i \in Nat /\ j \in Names /\ j \in Nat
        BY <1>2 DEF Present
      <4>1. CASE i # dst /\ j # dst
        BY <1>0, <2>9, <3>1, <4>1 DEF RotationDropsOldest
      <4>2. CASE i = dst
        <5>1. j \in Present /\ file'[j] = file[j] /\ file'[i] = file[src] /\ src < j
          BY <1>2, <2>1, <2>9, <3>1, <4>0, <4>2
        <5> QED BY <1>0, <2>10, <5>1 DEF RotationDropsOldest
      <4>3. CASE j = dst
        <5>1. i \in Present /\ file'[i] = file[i] /\ file'[j] = file[src] /\ i < src
          BY <1>2, <2>1, <2>9, <3>1, <4>0, <4>3
        <5> QED BY <1>0, <2>10, <5>1 DEF RotationDropsOldest
      <4> QED BY <4>1, <4>2, <4>3
    <3>2. ASSUME NEW f \in dropped', NEW i \in Present'
          PROVE  f.gen < file'[i].gen
      <4>1. PICK k \in Present : k # dst /\ file'[i] = file[k]
        <5>1. src # dst
          BY <1>2
        <5> QED BY <2>9, <2>10, <3>2, <5>1
      <4>2. CASE f \in dropped
        BY <1>0, <4>1, <4>2 DEF RotationDropsOldest
      <4>3. CASE f = file[dst] /\ Exists(file[dst])
        BY <1>5, <4>1, <4>3
      <4> QED BY <2>3, <3>2, <4>2, <4>3
    <3>3. \A f \in dropped' : f.gen + Keep <= gens + broken
      BY <1>0, <1>2, <1>5, <2>3 DEF RotationDropsOldest
    <3> QED BY <1>1, <3>1, <3>2, <3>3 DEF RotationDropsOldest
  <2>13. \A e : Durable(e) => Durable(e)'
    <3>1. \A i \in Names : KeepsSynced(file[i], file[i])
      BY <1>0 DEF KeepsSynced, FilesOK, Files
    <3>2. \A i \in Names : i # dst => \E k \in Names : KeepsSynced(file[i], file'[k])
      BY <1>2, <2>1, <3>1
    <3>3. Exists(file[dst]) \/ file[dst].synced = 0
      BY <1>0, <1>2, NoFileType DEF FilesOK
    <3> QED BY <1>0, <2>1, <2>3, <3>2, <3>3, DurableKept DEF FilesOK
  <2> QED BY <2>5, <2>7, <2>8, <2>11, <2>12, <2>13
<1> QED BY <1>7, <1>8

-----------------------------------------------------------------------------
(* A write that fails adds some of the buffered pieces to the open file.   *)
LEMMA PartlyFact ==
    ASSUME FilesOK, OpenOK, fd \in Names, buffer \in Seq(Pieces), NEW n \in 0 .. Len(buffer),
           NEW g, g = Appended(file[fd], SubSeq(buffer, 1, n))
    PROVE  /\ g \in Files /\ KeepsSynced(file[fd], g) /\ g.gen = file[fd].gen
           /\ ~Exists(file[fd]) => g = NoFile
           /\ SubSeq(buffer, n + 1, Len(buffer)) \in Seq(Pieces)
           /\ ~Exists(file[fd]) => SubSeq(buffer, n + 1, Len(buffer)) = <<>>
<1>0. Len(buffer) \in Nat /\ n \in Nat /\ n <= Len(buffer)
      /\ \A j \in 1 .. Len(buffer) : buffer[j] \in Pieces
  OBVIOUS
<1>1. SubSeq(buffer, 1, n) \in Seq(Pieces) /\ SubSeq(buffer, n + 1, Len(buffer)) \in Seq(Pieces)
  BY <1>0, SubSeqProperties
<1>2. g \in Files /\ KeepsSynced(file[fd], g) /\ g.gen = file[fd].gen
      /\ g.data = file[fd].data \o SubSeq(buffer, 1, n)
  BY <1>1, AppendedFact DEF FilesOK
<1>3. ASSUME ~Exists(file[fd])
      PROVE  g = NoFile /\ SubSeq(buffer, n + 1, Len(buffer)) = <<>>
  <2>1. file[fd] = NoFile /\ buffer = <<>> /\ Len(buffer) = 0 /\ n = 0
    BY <1>0, <1>3 DEF FilesOK, OpenOK
  <2>2. SubSeq(buffer, n + 1, Len(buffer)) = <<>> /\ SubSeq(buffer, 1, n) = <<>>
    BY <2>1, SubSeqEmpty
  <2>3. g = [NoFile EXCEPT !.data = NoFile.data \o <<>>]
    BY <2>1, <2>2 DEF Appended
  <2>4. NoFile.data \o <<>> = <<>>
    BY NoFileType
  <2> QED BY <2>2, <2>3, <2>4 DEF NoFile
<1> QED BY <1>1, <1>2, <1>3

(* Where the file grows and the sink keeps it open.                        *)
LEMMA OpenStays ==
    ASSUME OpenOK, Grown, fd \in Names, fd' = fd,
           buffer' = buffer \/ buffer' = <<>> \/ Exists(file[fd]),
           phase' \in {"read", "write", "flush", "ack"} => phase \in {"read", "write", "flush", "ack"}
    PROVE  OpenOK'
BY DEF OpenOK, Grown, Exists

(* A stream with one more piece: the lines in it stay, and a newline makes *)
(* one of an object at its end.                                            *)
LEMMA StreamLines ==
    ASSUME Stream \in Seq(Pieces), NEW piece \in Pieces, Stream' = Append(Stream, piece)
    PROVE  /\ Stream' # <<>> /\ Stream'[Len(Stream')] = piece
           /\ \A e : InStream(e) => InStream(e)'
           /\ \A e : /\ Stream # <<>>
                     /\ Stream[Len(Stream)] = e
                     /\ piece = Newline
                     => InStream(e)'
<1> DEFINE n == Len(Stream)
<1>1. /\ n \in Nat /\ Stream' # <<>> /\ Len(Stream') = n + 1 /\ Stream'[n + 1] = piece
      /\ \A j \in 1 .. n : Stream'[j] = Stream[j]
      /\ Stream # <<>> => n >= 1
  BY AppendProperties, EmptySeq
<1>2. ASSUME NEW e, InStream(e) PROVE InStream(e)'
  <2>1. PICK j \in 1 .. n - 1 : Stream[j] = e /\ Stream[j + 1] = Newline
    BY <1>2 DEF InStream
  <2>2. j \in 1 .. n /\ j + 1 \in 1 .. n /\ j \in 1 .. Len(Stream') - 1
    BY <1>1, <2>1
  <2> HIDE DEF n
  <2> QED BY <1>1, <2>1, <2>2 DEF InStream
<1>3. ASSUME NEW e, Stream # <<>>, Stream[n] = e, piece = Newline
      PROVE  InStream(e)'
  <2>1. n \in 1 .. n /\ n \in 1 .. Len(Stream') - 1 /\ Stream'[n] = e /\ Stream'[n + 1] = Newline
    BY <1>1, <1>3
  <2> HIDE DEF n
  <2> QED BY <2>1 DEF InStream
<1> QED BY <1>1, <1>2, <1>3

LEMMA PieceTypes == PollOK => Current \in Pieces /\ Newline \in Pieces
  BY PollAllAssumption DEF PollOK, Current, Newline, Pieces

LEMMA FileInit == Init => FileInvariant
<1> SUFFICES ASSUME Init PROVE FileInvariant
  OBVIOUS
<1>1. PollOK /\ Acked = {} /\ Owed = {}
  BY InitOK DEF Init
<1>2. /\ file = [i \in Names |-> NoFile] /\ fd = 0 /\ buffer = <<>> /\ written = 0
      /\ step = "check" /\ slot = 0 /\ gens = 0 /\ dropped = {} /\ broken = 0 /\ phase = "idle"
  BY DEF Init, PollAllInit
<1>3. SinkTypeOK
  <2>1. FilesOK
    <3>1. Len(NoFile.data) = 0 /\ NoFile.synced = 0 /\ NoFile \in Files
      BY NoFileType
    <3> QED BY <1>2, <3>1 DEF FilesOK
  <2>2. buffer \in Seq(Pieces) /\ fd \in Names /\ slot \in 0 .. Keep
    BY <1>2, KeepType
  <2> QED BY <1>2, <2>1, <2>2 DEF SinkTypeOK
<1>4. OpenOK /\ StepOK
  BY <1>2, KeepType DEF OpenOK, StepOK
<1>5. OwedOK /\ AckedIsDurable
  BY <1>1 DEF OwedOK, AckedIsDurable
<1>6. Present = {}
  BY <1>2, NoFileType DEF Present
<1>7. GensOK /\ RotationDropsOldest
  BY <1>2, <1>6 DEF GensOK, RotationDropsOldest
<1> QED BY <1>1, <1>3, <1>4, <1>5, <1>7 DEF FileInvariant

(* Where a poll begins or ends without an acknowledgement, and where the   *)
(* service does not move, what was acknowledged stays durable.             *)
LEMMA PollEnds ==
    ASSUME PollOK, AckedIsDurable, \A e : Durable(e) => Durable(e)',
           StartCycle \/ ReadLog \/ PollFails \/ Crash \/ Stop
    PROVE  PollOK' /\ OwedOK' /\ AckedIsDurable'
<1>1. PollOK'
  BY PollKeeps
<1>2. Owed' = {}
  BY <1>1, NothingOwed
<1>3. Acked' = Acked
  BY DEF StartCycle, ReadLog, PollFails, Crash, Stop, Acked
<1> QED BY <1>1, <1>2, <1>3 DEF OwedOK, AckedIsDurable, Durable

LEMMA PollStays ==
    ASSUME PollOK, AckedIsDurable, \A e : Durable(e) => Durable(e)', UNCHANGED pollAllVars
    PROVE  /\ PollOK' /\ AckedIsDurable' /\ Owed' = Owed
           /\ UNCHANGED <<turn, phase, next, Current>>
<1>1. PollOK'
  BY PollKeeps
<1>2. Acked' = Acked /\ Owed' = Owed /\ UNCHANGED <<turn, phase, next, Current>>
  BY DEF pollAllVars, pollVars, Acked, Owed, Current
<1> QED BY <1>1, <1>2 DEF AckedIsDurable, Durable

(* The parts put together again.                                           *)
LEMMA InvariantWhole ==
    ASSUME PollOK', SinkTypeOK', OpenOK', StepOK', OwedOK', AckedIsDurable', GensOK',
           RotationDropsOldest'
    PROVE  FileInvariant'
BY DEF FileInvariant

(* Where files only grow and no rotation is left unfinished: what is left  *)
(* to show is about the poll, the step and the types.                      *)
LEMMA NoFileMoves ==
    ASSUME FileInvariant, FilesOK', Grown, UNCHANGED <<dropped, gens, broken>>,
           step \notin {"rotate", "reopen"}
    PROVE  /\ GensOK' /\ RotationDropsOldest'
           /\ \A e : Durable(e) => Durable(e)'
<1>1. \A i \in Names : Moved(i) = 0 /\ Moved(i)' \in {0, 1}
  BY DEF Moved
<1>2. \A i \in Names : Moved(i) <= (broken' - broken) + Moved(i)'
  BY <1>1, InvariantParts
<1> QED BY <1>2, InvariantParts, GrownKeeps

(* The invariant holds after a step, and what was durable still is.        *)
Kept == FileInvariant' /\ \A e : Durable(e) => Durable(e)'

(* A cycle begins with a sink of its own.                                  *)
LEMMA BuildSinkKeeps == FileInvariant /\ BuildSink => Kept
<1> SUFFICES ASSUME FileInvariant, BuildSink PROVE Kept
  OBVIOUS
<1>0. /\ PollOK /\ FilesOK /\ OpenOK /\ StepOK /\ AckedIsDurable /\ GensOK /\ RotationDropsOldest
      /\ dropped \subseteq Files /\ gens \in Nat /\ broken \in Nat
      /\ fd \in Names /\ buffer \in Seq(Pieces)
  BY InvariantParts
<1>1. /\ StartCycle /\ fd' = 0 /\ buffer' = <<>> /\ step' = "check" /\ slot' = 0
      /\ UNCHANGED <<dropped, broken, fails>>
  BY DEF BuildSink
<1> DEFINE left(n) == [file EXCEPT ![fd] = Appended(@, SubSeq(buffer, 1, n))]
<1>2. PICK n \in 0 .. Len(buffer) :
        /\ file' = [left(n) EXCEPT ![0] = Opened(@)]
        /\ written' = Len(file'[0].data)
        /\ gens' = IF file'[0].gen > gens THEN gens + 1 ELSE gens
  BY DEF BuildSink
<1>3. /\ left(n) \in [Names -> Files]
      /\ \A i \in Names : /\ KeepsSynced(file[i], left(n)[i]) /\ left(n)[i].gen = file[i].gen
                          /\ ~Exists(file[i]) => left(n)[i] = NoFile
  <2> DEFINE g == Appended(file[fd], SubSeq(buffer, 1, n))
  <2>1. g \in Files /\ KeepsSynced(file[fd], g) /\ g.gen = file[fd].gen
        /\ (~Exists(file[fd]) => g = NoFile)
    BY <1>0, PartlyFact
  <2>2. left(n) = [file EXCEPT ![fd] = g]
    OBVIOUS
  <2> HIDE DEF g, left
  <2>3. \A i \in Names : KeepsSynced(file[i], file[i]) /\ (~Exists(file[i]) => file[i] = NoFile)
    BY <1>0 DEF KeepsSynced, FilesOK, Files
  <2> QED BY <1>0, <2>1, <2>2, <2>3 DEF FilesOK
<1>4. step = "check" /\ phase = "idle" /\ phase' = "read"
  BY <1>0, <1>1 DEF StepOK, StartCycle
<1>5. \A i \in Names : Moved(i)' = 0 /\ Moved(i) = 0
  BY <1>1, <1>4 DEF Moved
<1> HIDE DEF left
<1>6. /\ FilesOK' /\ Exists(file'[0]) /\ gens' \in Nat /\ GensOK' /\ RotationDropsOldest'
      /\ \A e : Durable(e) => Durable(e)'
  BY <1>0, <1>1, <1>2, <1>3, <1>5, OpenKeeps
<1>7. PollOK' /\ OwedOK' /\ AckedIsDurable'
  BY <1>0, <1>1, <1>6, PollEnds
<1>8. SinkTypeOK'
  <2>1. Len(file'[0].data) \in Nat
    BY <1>6, KeepType DEF FilesOK, Files
  <2>2. <<>> \in Seq(Pieces) /\ 0 \in 0 .. Keep
    BY KeepType
  <2> QED BY <1>0, <1>1, <1>2, <1>6, <2>1, <2>2, KeepType DEF SinkTypeOK
<1>9. OpenOK' /\ StepOK'
  BY <1>1, <1>6, KeepType DEF OpenOK, StepOK
<1> QED BY <1>6, <1>7, <1>8, <1>9, InvariantWhole DEF Kept

(* A full file is closed.                                                  *)
LEMMA CloseFullKeeps == FileInvariant /\ CloseFull => Kept
<1> SUFFICES ASSUME FileInvariant, CloseFull PROVE Kept
  OBVIOUS
<1>0. /\ PollOK /\ FilesOK /\ SinkTypeOK /\ OpenOK /\ StepOK /\ OwedOK /\ AckedIsDurable
      /\ fd \in Names /\ buffer \in Seq(Pieces)
  BY InvariantParts
<1>1. /\ phase = "write" /\ step = "check" /\ buffer' = <<>> /\ step' = "rotate" /\ slot' = 0
      /\ file' = [file EXCEPT ![fd] = Synced(Drained(@))]
      /\ UNCHANGED <<pollAllVars, fd, written, fails, gens, dropped, broken>>
  BY DEF CloseFull
<1>2. FilesOK' /\ Grown /\ \A e : InStream(e) => Durable(e)'
  BY <1>0, <1>1, StreamSynced
<1>3. GensOK' /\ RotationDropsOldest' /\ \A e : Durable(e) => Durable(e)'
  BY <1>1, <1>2, NoFileMoves
<1>4. /\ PollOK' /\ AckedIsDurable' /\ Owed' = Owed
      /\ UNCHANGED <<turn, phase, next, Current>>
  BY <1>0, <1>1, <1>3, PollStays
<1>5. OwedOK'
  BY <1>0, <1>2, <1>3, <1>4 DEF OwedOK
<1>6. SinkTypeOK' /\ StepOK'
  <2>1. <<>> \in Seq(Pieces) /\ 0 \in 0 .. Keep /\ 0 < Keep
    BY KeepType
  <2> QED BY <1>0, <1>1, <1>2, <1>4, <2>1 DEF SinkTypeOK, StepOK
<1>7. OpenOK'
  BY <1>0, <1>1, <1>2, <1>4, OpenStays
<1> QED BY <1>3, <1>4, <1>5, <1>6, <1>7, InvariantWhole DEF Kept

(* After the renames the path is opened again.                             *)
LEMMA ReopenKeeps == FileInvariant /\ Reopen => Kept
<1> SUFFICES ASSUME FileInvariant, Reopen PROVE Kept
  OBVIOUS
<1>0. /\ PollOK /\ FilesOK /\ SinkTypeOK /\ OpenOK /\ StepOK /\ OwedOK /\ AckedIsDurable
      /\ GensOK /\ RotationDropsOldest
      /\ dropped \subseteq Files /\ gens \in Nat /\ broken \in Nat
  BY InvariantParts
<1>1. /\ step = "reopen" /\ file' = [file EXCEPT ![0] = Opened(@)]
      /\ gens' = (IF file'[0].gen > gens THEN gens + 1 ELSE gens)
      /\ fd' = 0 /\ written' = 0 /\ step' = "line" /\ slot' = 0
      /\ UNCHANGED <<pollAllVars, buffer, fails, dropped, broken>>
  BY DEF Reopen
<1>2. phase = "write" /\ buffer = <<>> /\ ~Exists(file[0])
  BY <1>0, <1>1 DEF StepOK
<1>3. \A i \in Names : /\ KeepsSynced(file[i], file[i]) /\ file[i].gen = file[i].gen
                       /\ ~Exists(file[i]) => file[i] = NoFile
  BY <1>0 DEF KeepsSynced, FilesOK, Files
<1>4. \A i \in Names : Moved(i)' = 0 /\ (Exists(file[0]) => Moved(i) = 0)
  BY <1>1, <1>2 DEF Moved
<1>5. /\ FilesOK' /\ Exists(file'[0]) /\ gens' \in Nat /\ GensOK' /\ RotationDropsOldest'
      /\ \A e : Durable(e) => Durable(e)'
  <2>1. file \in [Names -> Files]
    BY <1>0 DEF FilesOK
  <2> QED BY <1>0, <1>1, <1>3, <1>4, <2>1, OpenKeeps
<1>6. /\ PollOK' /\ AckedIsDurable' /\ Owed' = Owed
      /\ UNCHANGED <<turn, phase, next, Current>>
  BY <1>0, <1>1, <1>5, PollStays
<1>7. OwedOK'
  BY <1>0, <1>1, <1>5, <1>6 DEF OwedOK
<1>8. SinkTypeOK' /\ OpenOK' /\ StepOK'
  <2>1. SinkTypeOK'
    BY <1>0, <1>1, <1>5, KeepType DEF SinkTypeOK
  <2>2. OpenOK' /\ StepOK'
    BY <1>1, <1>2, <1>5, <1>6, KeepType DEF OpenOK, StepOK
  <2> QED BY <2>1, <2>2
<1> QED BY <1>5, <1>6, <1>7, <1>8, InvariantWhole DEF Kept

(* The two pieces of a line.                                               *)
LEMMA WritesKeep == FileInvariant /\ (WriteLine \/ WriteNewline) => Kept
<1> SUFFICES ASSUME FileInvariant, WriteLine \/ WriteNewline PROVE Kept
  OBVIOUS
<1>0. /\ PollOK /\ FilesOK /\ SinkTypeOK /\ OpenOK /\ StepOK /\ OwedOK /\ AckedIsDurable
      /\ fd \in Names /\ buffer \in Seq(Pieces) /\ written \in Nat
  BY InvariantParts
<1>1. /\ step \in {"line", "newline"} /\ phase = "write" /\ Exists(file[fd])
      /\ UNCHANGED <<fd, slot, fails, gens, dropped, broken>>
  BY <1>0 DEF WriteLine, WriteNewline, StepOK, OpenOK
<1>2. Current \in Pieces /\ Newline \in Pieces
  BY <1>0, PieceTypes
<1>3. PICK piece \in Pieces :
        /\ Buffered(piece)
        /\ WriteLine => piece = Current
        /\ WriteNewline => piece = Newline
  BY <1>2 DEF WriteLine, WriteNewline
<1>4. /\ FilesOK' /\ Grown /\ buffer' \in Seq(Pieces)
      /\ Stream \in Seq(Pieces) /\ Stream' = Append(Stream, piece) /\ Exists(file'[fd])
  BY <1>0, <1>1, <1>3, StreamGrows
<1>5. /\ Stream' # <<>> /\ Stream'[Len(Stream')] = piece
      /\ \A e : InStream(e) => InStream(e)'
      /\ \A e : Stream # <<>> /\ Stream[Len(Stream)] = e /\ piece = Newline => InStream(e)'
  BY <1>4, StreamLines
<1>6. GensOK' /\ RotationDropsOldest' /\ \A e : Durable(e) => Durable(e)'
  BY <1>1, <1>4, NoFileMoves
<1>7. OpenOK'
  <2>1. phase \in {"read", "write", "flush", "ack"} /\ ~(~Exists(file[fd]))
    BY <1>1
  <2> QED BY <1>0, <1>1, <1>4, <2>1, OpenStays
<1>8. CASE WriteLine
  <2>1. step' = "newline" /\ UNCHANGED <<pollAllVars, written>>
    BY <1>8 DEF WriteLine
  <2>2. /\ PollOK' /\ AckedIsDurable' /\ Owed' = Owed
        /\ UNCHANGED <<turn, phase, next, Current>>
    BY <1>0, <1>6, <2>1, PollStays
  <2>3. OwedOK'
    BY <1>0, <1>5, <1>6, <2>1, <2>2 DEF OwedOK
  <2>4. SinkTypeOK'
    BY <1>0, <1>1, <1>4, <2>1 DEF SinkTypeOK
  <2>5. StepOK'
    BY <1>1, <1>3, <1>5, <1>8, <2>1, <2>2 DEF StepOK
  <2> QED BY <1>6, <1>7, <2>2, <2>3, <2>4, <2>5, InvariantWhole DEF Kept
<1>9. CASE WriteNewline
  <2>1. step' = "check" /\ step = "newline" /\ written' = written + 2 /\ Written
    BY <1>9 DEF WriteNewline
  <2>2. PollOK' /\ Owed' = Owed \union {Current} /\ Acked' = Acked /\ phase' \in {"write", "flush"}
    BY <1>0, <1>1, <2>1, PollKeeps, WrittenOwes
  <2>3. ASSUME NEW e \in Owed' PROVE Durable(e)' \/ InStream(e)'
    <3>1. CASE e \in Owed
      BY <1>0, <1>1, <1>5, <1>6, <3>1 DEF OwedOK
    <3>2. CASE e = Current
      BY <1>0, <1>3, <1>5, <1>9, <2>1, <3>2 DEF StepOK
    <3> QED BY <2>2, <2>3, <3>1, <3>2
  <2>4. OwedOK' /\ AckedIsDurable'
    <3>1. step' \notin {"rotate", "reopen"} /\ phase' # "ack"
      BY <2>1, <2>2
    <3> QED BY <1>0, <1>6, <2>2, <2>3, <3>1 DEF OwedOK, AckedIsDurable, Durable
  <2>5. SinkTypeOK' /\ StepOK'
    BY <1>0, <1>1, <1>4, <2>1 DEF SinkTypeOK, StepOK
  <2> QED BY <1>6, <1>7, <2>2, <2>4, <2>5, InvariantWhole DEF Kept
<1> QED BY <1>8, <1>9

(* A flush makes all that is owed durable.                                 *)
LEMMA FlushKeeps == FileInvariant /\ Flush => Kept
<1> SUFFICES ASSUME FileInvariant, Flush PROVE Kept
  OBVIOUS
<1>0. /\ PollOK /\ FilesOK /\ SinkTypeOK /\ OpenOK /\ StepOK /\ OwedOK /\ AckedIsDurable
      /\ fd \in Names /\ buffer \in Seq(Pieces)
  BY InvariantParts
<1>1. /\ phase = "flush" /\ Flushed /\ buffer' = <<>>
      /\ file' = [file EXCEPT ![fd] = Synced(Drained(@))]
      /\ UNCHANGED <<fd, written, step, slot, gens, dropped, broken>>
  BY DEF Flush
<1>2. step = "check"
  BY <1>0, <1>1 DEF StepOK, SinkTypeOK
<1>3. FilesOK' /\ Grown /\ \A e : InStream(e) => Durable(e)'
  BY <1>0, <1>1, StreamSynced
<1>4. GensOK' /\ RotationDropsOldest' /\ \A e : Durable(e) => Durable(e)'
  BY <1>1, <1>2, <1>3, NoFileMoves
<1>5. PollOK' /\ Owed' = Owed /\ Acked' = Acked
  BY <1>0, <1>1, PollKeeps, FlushedOwes
<1>6. AckedIsDurable'
  BY <1>0, <1>4, <1>5 DEF AckedIsDurable, Durable
<1>7. OwedOK'
  BY <1>0, <1>3, <1>4, <1>5 DEF OwedOK
<1>8. SinkTypeOK' /\ StepOK'
  <2>1. <<>> \in Seq(Pieces)
    OBVIOUS
  <2> QED BY <1>0, <1>1, <1>2, <1>3, <2>1 DEF SinkTypeOK, StepOK
<1>9. OpenOK'
  BY <1>0, <1>1, <1>3, OpenStays
<1> QED BY <1>4, <1>5, <1>6, <1>7, <1>8, <1>9, InvariantWhole DEF Kept

(* A write fails half way, and with it the poll.                           *)
LEMMA WriteFailsKeeps == FileInvariant /\ WriteFails => Kept
<1> SUFFICES ASSUME FileInvariant, WriteFails PROVE Kept
  OBVIOUS
<1>0. /\ PollOK /\ FilesOK /\ SinkTypeOK /\ OpenOK /\ StepOK /\ AckedIsDurable
      /\ fd \in Names /\ buffer \in Seq(Pieces)
  BY InvariantParts
<1>1. /\ PollFails /\ step' = "check" /\ UNCHANGED <<fd, written, slot, gens, dropped, broken>>
      /\ step \notin {"rotate", "reopen"}
  BY <1>0 DEF WriteFails, StepOK, SinkTypeOK
<1>2. PICK n \in 0 .. Len(buffer) : Partly(n)
  BY DEF WriteFails
<1> DEFINE g == Appended(file[fd], SubSeq(buffer, 1, n))
<1>3. /\ g \in Files /\ KeepsSynced(file[fd], g) /\ g.gen = file[fd].gen
      /\ ~Exists(file[fd]) => g = NoFile
      /\ SubSeq(buffer, n + 1, Len(buffer)) \in Seq(Pieces)
      /\ ~Exists(file[fd]) => SubSeq(buffer, n + 1, Len(buffer)) = <<>>
  BY <1>0, PartlyFact
<1>4. file' = [file EXCEPT ![fd] = g] /\ buffer' = SubSeq(buffer, n + 1, Len(buffer))
  BY <1>2 DEF Partly
<1> HIDE DEF g
<1>5. FilesOK' /\ Grown
  BY <1>0, <1>3, <1>4, FdGrows
<1>6. GensOK' /\ RotationDropsOldest' /\ \A e : Durable(e) => Durable(e)'
  BY <1>1, <1>5, NoFileMoves
<1>7. PollOK' /\ OwedOK' /\ AckedIsDurable'
  BY <1>0, <1>1, <1>6, PollEnds
<1>8. SinkTypeOK' /\ StepOK'
  BY <1>0, <1>1, <1>3, <1>4, <1>5, InvariantParts DEF SinkTypeOK, StepOK
<1>9. OpenOK'
  <2>1. buffer' = <<>> \/ Exists(file[fd])
    BY <1>3, <1>4
  <2>2. phase \in {"read", "write", "flush", "ack"}
    BY <1>0 DEF WriteFails, StepOK
  <2> QED BY <1>0, <1>1, <1>5, <2>1, <2>2, OpenStays
<1> QED BY <1>6, <1>7, <1>8, <1>9, InvariantWhole DEF Kept

(* A rotation fails: the renames it has done stay.                         *)
LEMMA RotateFailsKeeps == FileInvariant /\ RotateFails => Kept
<1> SUFFICES ASSUME FileInvariant, RotateFails PROVE Kept
  OBVIOUS
<1>0. /\ PollOK /\ FilesOK /\ SinkTypeOK /\ OpenOK /\ StepOK /\ AckedIsDurable
      /\ GensOK /\ RotationDropsOldest
      /\ dropped \subseteq Files /\ gens \in Nat /\ broken \in Nat
      /\ fd \in Names /\ buffer \in Seq(Pieces)
  BY InvariantParts
<1>1. /\ PollFails /\ step \in {"rotate", "reopen"} /\ step' = "check" /\ slot' = 0
      /\ broken' = broken + 1
      /\ UNCHANGED <<file, fd, buffer, written, gens, dropped>>
  BY DEF RotateFails
<1>2. FilesOK' /\ Grown
  BY <1>0, <1>1, SameFiles
<1>3. GensOK' /\ RotationDropsOldest' /\ \A e : Durable(e) => Durable(e)'
  <2>1. \A i \in Names : Moved(i) <= (broken' - broken) + Moved(i)'
    BY <1>0, <1>1 DEF Moved
  <2> QED BY <1>0, <1>1, <1>2, <2>1, GrownKeeps
<1>4. PollOK' /\ OwedOK' /\ AckedIsDurable'
  BY <1>0, <1>1, <1>3, PollEnds
<1>5. SinkTypeOK' /\ StepOK'
  BY <1>0, <1>1, <1>2, KeepType, InvariantParts DEF SinkTypeOK, StepOK
<1>6. OpenOK'
  BY <1>0, <1>1, <1>2, OpenStays DEF StepOK
<1> QED BY <1>3, <1>4, <1>5, <1>6, InvariantWhole DEF Kept

(* The process dies, and the machine perhaps with it: of every file what   *)
(* is synced stays.                                                        *)
LEMMA CrashKeeps == FileInvariant /\ (Killed \/ PowerFailure) => Kept
<1> SUFFICES ASSUME FileInvariant, Killed \/ PowerFailure PROVE Kept
  OBVIOUS
<1>0. /\ PollOK /\ FilesOK /\ SinkTypeOK /\ StepOK /\ AckedIsDurable
      /\ GensOK /\ RotationDropsOldest
      /\ dropped \subseteq Files /\ gens \in Nat /\ broken \in Nat
  BY InvariantParts
<1>1. /\ Crash /\ fd' = 0 /\ buffer' = <<>> /\ written' = 0 /\ step' = "check" /\ slot' = 0
      /\ broken' = (IF step \in {"rotate", "reopen"} THEN broken + 1 ELSE broken)
      /\ UNCHANGED <<gens, dropped>>
  BY DEF Killed, PowerFailure, SinkGone, Interrupted
<1>2. FilesOK' /\ Grown
  <2>1. CASE Killed
    BY <1>0, <2>1, SameFiles DEF Killed
  <2>2. CASE PowerFailure
    <3>1. file' \in [Names -> UNION {Cut(file[i]) : i \in Names}]
          /\ \A i \in Names : file'[i] \in Cut(file[i])
      BY <2>2 DEF PowerFailure
    <3>2. \A i \in Names : /\ file'[i] \in Files /\ file'[i].gen = file[i].gen
                           /\ file'[i].synced <= Len(file'[i].data)
                           /\ KeepsSynced(file[i], file'[i])
                           /\ file[i] = NoFile => file'[i] = NoFile
      BY <1>0, <3>1, CutFact DEF FilesOK
    <3>3. file' \in [Names -> Files]
      BY <3>1, <3>2
    <3> QED BY <1>0, <3>2, <3>3 DEF FilesOK, Grown, Exists
  <2> QED BY <2>1, <2>2
<1>3. GensOK' /\ RotationDropsOldest' /\ \A e : Durable(e) => Durable(e)'
  <2>1. broken' \in Nat /\ broken <= broken'
        /\ \A i \in Names : Moved(i) <= (broken' - broken) + Moved(i)'
    BY <1>0, <1>1 DEF Moved
  <2> QED BY <1>0, <1>1, <1>2, <2>1, GrownKeeps
<1>4. PollOK' /\ OwedOK' /\ AckedIsDurable'
  BY <1>0, <1>1, <1>3, PollEnds
<1>5. SinkTypeOK' /\ StepOK'
  <2>1. <<>> \in Seq(Pieces) /\ 0 \in 0 .. Keep /\ broken' \in Nat
    BY <1>0, <1>1, KeepType
  <2> QED BY <1>0, <1>1, <1>2, <2>1, KeepType DEF SinkTypeOK, StepOK
<1>6. OpenOK'
  BY <1>1, KeepType DEF OpenOK, Crash
<1> QED BY <1>3, <1>4, <1>5, <1>6, InvariantWhole DEF Kept

(* The device does not answer: the poll ends, with its events in the file. *)
LEMMA NotAckedKeeps == FileInvariant /\ NotAcked => Kept
<1> SUFFICES ASSUME FileInvariant, NotAcked PROVE Kept
  OBVIOUS
<1>0. /\ PollOK /\ FilesOK /\ SinkTypeOK /\ OpenOK /\ StepOK /\ AckedIsDurable
      /\ fd \in Names
  BY InvariantParts
<1>1. /\ PollFails /\ phase = "ack" /\ step = "check"
      /\ UNCHANGED <<file, fd, buffer, written, step, slot, gens, dropped, broken>>
  BY <1>0 DEF NotAcked, AckFails, disk, sink, StepOK, SinkTypeOK
<1>2. FilesOK' /\ Grown
  BY <1>0, <1>1, SameFiles
<1>3. GensOK' /\ RotationDropsOldest' /\ \A e : Durable(e) => Durable(e)'
  BY <1>1, <1>2, NoFileMoves
<1>4. PollOK' /\ OwedOK' /\ AckedIsDurable'
  BY <1>0, <1>1, <1>3, PollEnds
<1>5. SinkTypeOK' /\ StepOK'
  BY <1>0, <1>1, <1>2 DEF SinkTypeOK, StepOK
<1>6. OpenOK'
  BY <1>0, <1>1, <1>2, OpenStays
<1> QED BY <1>3, <1>4, <1>5, <1>6, InvariantWhole DEF Kept

(* Steps that leave the sink and its files alone.                          *)
LEMMA SinkSleeps ==
    ASSUME FileInvariant, UNCHANGED sinkVars,
           \/ Stop \/ ReadLog \/ Unreachable \/ Acknowledge
           \/ RecordEntry \/ Signal \/ UNCHANGED pollAllVars
    PROVE  Kept
<1>0. /\ PollOK /\ FilesOK /\ SinkTypeOK /\ OpenOK /\ StepOK /\ OwedOK /\ AckedIsDurable
      /\ GensOK /\ RotationDropsOldest
  BY InvariantParts
<1>1. UNCHANGED <<file, gens, dropped, broken, fd, buffer, written, step, slot>>
  BY DEF sinkVars, disk, sink
<1>2. SinkTypeOK' /\ GensOK' /\ RotationDropsOldest' /\ \A e : Durable(e) => Durable(e)'
  BY <1>0, <1>1 DEF SinkTypeOK, FilesOK, GensOK, RotationDropsOldest, Present, Moved, Durable
<1>3. CASE Stop \/ ReadLog \/ Unreachable
  <2>1. PollOK' /\ OwedOK' /\ AckedIsDurable'
    BY <1>0, <1>2, <1>3, PollEnds DEF Unreachable
  <2>2. phase \in {"idle", "read"} /\ (phase' \in {"read", "write", "flush", "ack"} => phase = "read")
    BY <1>3 DEF Stop, ReadLog, Unreachable
  <2>3. step = "check"
    BY <1>0, <2>2 DEF StepOK
  <2>4. OpenOK' /\ StepOK'
    BY <1>0, <1>1, <2>2, <2>3 DEF OpenOK, StepOK
  <2> QED BY <1>2, <2>1, <2>4, InvariantWhole DEF Kept
<1>4. CASE RecordEntry \/ Signal \/ UNCHANGED pollAllVars
  <2>1. UNCHANGED <<turn, phase, next, read, acked>>
    BY <1>4 DEF RecordEntry, Signal, pollAllVars, pollVars
  <2>2. PollOK'
    BY <1>0, <1>4, PollKeeps
  <2>3. Owed' = Owed /\ Acked' = Acked /\ Current' = Current
    BY <2>1 DEF Owed, Acked, Current
  <2>4. OwedOK' /\ AckedIsDurable'
    <3>1. OwedOK'
      BY ZenonT(30), <1>0, <1>1, <2>1, <2>3 DEF OwedOK, Durable, InStream, Stream
    <3>2. AckedIsDurable'
      BY ZenonT(30), <1>0, <1>1, <1>2, <2>3 DEF AckedIsDurable, Durable
    <3> QED BY <3>1, <3>2
  <2>5. OpenOK' /\ StepOK'
    BY <1>0, <1>1, <2>1, <2>3 DEF OpenOK, StepOK, Stream
  <2> QED BY <1>2, <2>2, <2>4, <2>5, InvariantWhole DEF Kept
<1>5. CASE Acknowledge
  <2>1. PollOK' /\ Owed' = {} /\ phase = "ack"
    BY <1>0, <1>5, PollKeeps, NothingOwed DEF Acknowledge
  <2>2. step = "check"
    BY <1>0, <2>1 DEF StepOK, SinkTypeOK
  <2>3. AckedIsDurable'
    <3>1. \A e \in Owed \union Acked : Durable(e)'
      BY <1>0, <1>2, <2>1 DEF OwedOK, AckedIsDurable, Durable
    <3>2. Acked' \subseteq Owed \union Acked
      BY <1>0, <1>5, AcksOwed
    <3> QED BY <3>1, <3>2 DEF AckedIsDurable, Durable
  <2>4. OpenOK' /\ StepOK' /\ OwedOK'
    BY <1>0, <1>1, <2>1, <2>2 DEF OpenOK, StepOK, OwedOK
  <2> QED BY <1>2, <2>1, <2>3, <2>4, InvariantWhole DEF Kept
<1> QED BY <1>3, <1>4, <1>5

LEMMA FileNext == FileInvariant /\ [Next]_vars => Kept
<1> SUFFICES ASSUME FileInvariant, [Next]_vars PROVE Kept
  OBVIOUS
<1>1. CASE BuildSink \/ CloseFull \/ Reopen
  BY <1>1, BuildSinkKeeps, CloseFullKeeps, ReopenKeeps
<1>2. CASE WriteLine \/ WriteNewline \/ Flush
  BY <1>2, WritesKeep, FlushKeeps
<1>3. CASE WriteFails \/ RotateFails \/ NotAcked \/ Killed \/ PowerFailure
  BY <1>3, WriteFailsKeeps, RotateFailsKeeps, NotAckedKeeps, CrashKeeps
<1>4. CASE NoRotation
  <2>0. /\ PollOK /\ FilesOK /\ SinkTypeOK /\ OpenOK /\ StepOK /\ OwedOK /\ AckedIsDurable
    BY InvariantParts
  <2>1. /\ phase = "write" /\ step = "check" /\ step' = "line"
        /\ UNCHANGED <<pollAllVars, file, gens, dropped, broken, fd, buffer, written, slot>>
    BY <1>4 DEF NoRotation, disk
  <2>2. FilesOK' /\ Grown
    BY <2>0, <2>1, SameFiles
  <2>3. GensOK' /\ RotationDropsOldest' /\ \A e : Durable(e) => Durable(e)'
    BY <2>1, <2>2, NoFileMoves
  <2>4. /\ PollOK' /\ AckedIsDurable' /\ Owed' = Owed
        /\ UNCHANGED <<turn, phase, next, Current>>
    BY <2>0, <2>1, <2>3, PollStays
  <2>5. OwedOK' /\ OpenOK' /\ StepOK'
    <3>1. OwedOK'
      BY ZenonT(30), <2>0, <2>1, <2>3, <2>4 DEF OwedOK, InStream, Stream
    <3>2. OpenOK' /\ StepOK'
      BY ZenonT(30), <2>0, <2>1, <2>4 DEF OpenOK, StepOK
    <3> QED BY <3>1, <3>2
  <2>6. SinkTypeOK'
    BY <2>0, <2>1, <2>2 DEF SinkTypeOK
  <2> QED BY <2>3, <2>4, <2>5, <2>6, InvariantWhole DEF Kept
<1>5. CASE Remove \/ Rename
  <2>0. /\ PollOK /\ StepOK /\ OwedOK /\ AckedIsDurable
    BY InvariantParts
  <2>1. step = "rotate" /\ UNCHANGED pollAllVars
    BY <1>5 DEF Remove, Rename
  <2>2. /\ SinkTypeOK' /\ OpenOK' /\ StepOK' /\ GensOK' /\ RotationDropsOldest'
        /\ \A e : Durable(e) => Durable(e)'
    BY <1>5, RemoveKeeps, RenameKeeps
  <2>3. PollOK' /\ AckedIsDurable' /\ Owed' = Owed
    BY <2>0, <2>1, <2>2, PollStays
  <2>4. OwedOK'
    BY <2>0, <2>1, <2>2, <2>3 DEF OwedOK
  <2> QED BY <2>2, <2>3, <2>4, InvariantWhole DEF Kept
<1>6. CASE /\ UNCHANGED sinkVars
           /\ \/ Stop \/ ReadLog \/ Unreachable \/ Acknowledge
              \/ RecordEntry \/ Signal \/ UNCHANGED pollAllVars
  BY <1>6, SinkSleeps
<1> QED
  BY <1>1, <1>2, <1>3, <1>4, <1>5, <1>6 DEF Next, Step, Fault, Outside, vars

-----------------------------------------------------------------------------
(* The invariant of the JSON-lines sink, with its rotation, its failures,  *)
(* its kills and power failures (src/src/sink.rs 74-160).                  *)
THEOREM FileInvariantHolds == Spec => []FileInvariant
<1>1. FileInvariant /\ [Next]_vars => FileInvariant'
  BY FileNext DEF Kept
<1> QED BY <1>1, FileInit, PTL DEF Spec

(* "fsync so an advanced log index can never outrun durable output": what  *)
(* was acknowledged to a device can be read again after a power failure,   *)
(* from a file that is there or that rotation has removed.                 *)
THEOREM AckedEventsAreDurable == Spec => []AckedIsDurable
<1>1. FileInvariant => AckedIsDurable
  BY DEF FileInvariant
<1> QED BY <1>1, FileInvariantHolds, PTL

(* Rotation, interrupted at any rename, keeps the files in their order and *)
(* gives up the oldest, when rotate_keep newer ones were made, but for one *)
(* for each rotation that did not get to its end.                          *)
THEOREM RotationGivesUpOldest == Spec => []RotationDropsOldest
<1>1. FileInvariant => RotationDropsOldest
  BY DEF FileInvariant
<1> QED BY <1>1, FileInvariantHolds, PTL

-----------------------------------------------------------------------------
(* What is in the files: events of entries, and nothing else.              *)

LEMMA ObjectsJoined ==
    ASSUME NEW a \in Seq(Pieces), NEW b \in Seq(Pieces)
    PROVE  Objects(a \o b) \subseteq Objects(a) \union Objects(b)
<1>1. /\ Len(a) \in Nat /\ Len(b) \in Nat /\ Len(a \o b) = Len(a) + Len(b)
      /\ \A j \in 1 .. Len(a) : (a \o b)[j] = a[j]
      /\ \A j \in 1 .. Len(b) : (a \o b)[Len(a) + j] = b[j]
  BY ConcatProperties
<1>2. SUFFICES ASSUME NEW j \in 1 .. Len(a \o b)
               PROVE  \/ \E k \in 1 .. Len(a) : (a \o b)[j] = a[k]
                      \/ \E k \in 1 .. Len(b) : (a \o b)[j] = b[k]
  BY DEF Objects
<1>3. CASE j \in 1 .. Len(a)
  BY <1>1, <1>3
<1>4. CASE j \notin 1 .. Len(a)
  <2>1. j - Len(a) \in 1 .. Len(b) /\ j = Len(a) + (j - Len(a))
    BY <1>1, <1>2, <1>4
  <2> QED BY <1>1, <2>1
<1> QED BY <1>3, <1>4

LEMMA ObjectsOfPart ==
    ASSUME NEW a \in Seq(Pieces), NEW m \in 1 .. Len(a) + 1, NEW n \in 0 .. Len(a)
    PROVE  Objects(SubSeq(a, m, n)) \subseteq Objects(a)
<1>1. Len(a) \in Nat /\ m \in Nat /\ n \in Nat
  OBVIOUS
<1>2. CASE m <= n
  <2>1. /\ Len(SubSeq(a, m, n)) = n - m + 1
        /\ \A j \in 1 .. n - m + 1 : SubSeq(a, m, n)[j] = a[m + j - 1] /\ m + j - 1 \in 1 .. Len(a)
    BY <1>1, <1>2, SubSeqProperties
  <2> QED BY <2>1 DEF Objects
<1>3. CASE n < m
  <2>1. SubSeq(a, m, n) = <<>>
    BY <1>1, <1>3, SubSeqEmpty
  <2> QED BY <2>1 DEF Objects
<1> QED BY <1>1, <1>2, <1>3

LEMMA ObjectsOfOne ==
    ASSUME NEW piece \in Pieces
    PROVE  Objects(<<piece>>) \subseteq {piece} \ {Newline}
  BY DEF Objects

LEMMA ObjectsOfMore ==
    ASSUME NEW a \in Seq(Pieces), NEW piece \in Pieces
    PROVE  Objects(Append(a, piece)) \subseteq Objects(a) \union ({piece} \ {Newline})
<1>1. /\ Len(a) \in Nat /\ Len(Append(a, piece)) = Len(a) + 1
      /\ \A j \in 1 .. Len(a) : Append(a, piece)[j] = a[j]
      /\ Append(a, piece)[Len(a) + 1] = piece
  BY AppendProperties
<1> QED BY <1>1 DEF Objects

LEMMA NoObjects == Objects(<<>>) = {} /\ Objects(NoFile.data) = {}
  BY NoFileType DEF Objects

(* Where what is in a file comes from the files and the buffer before.     *)
LEMMA PiecesKept ==
    ASSUME PiecesOK, Recorded \subseteq Recorded', Objects(buffer') \subseteq Recorded,
           \A i \in Names : Objects(file'[i].data) \subseteq Recorded,
           \A f \in dropped' : f \in dropped \/ \E i \in Names : f = file[i]
    PROVE  PiecesOK'
BY DEF PiecesOK, Objects

(* The buffer, or a part of it, behind what a file has.                    *)
LEMMA DrainedObjects ==
    ASSUME PiecesOK, FilesOK, fd \in Names, NEW b \in Seq(Pieces), Objects(b) \subseteq Recorded
    PROVE  /\ Objects(Appended(file[fd], b).data) \subseteq Recorded
           /\ Objects(Synced(Appended(file[fd], b)).data) \subseteq Recorded
<1>1. file[fd] \in Files /\ file[fd].data \in Seq(Pieces) /\ Objects(file[fd].data) \subseteq Recorded
      /\ file[fd].synced <= Len(file[fd].data)
  BY DEF FilesOK, Files, PiecesOK
<1>2. /\ Appended(file[fd], b).data = file[fd].data \o b /\ Appended(file[fd], b) \in Files
      /\ Appended(file[fd], b).synced <= Len(Appended(file[fd], b).data)
  BY <1>1, AppendedFact
<1>3. Synced(Appended(file[fd], b)).data = file[fd].data \o b
  BY <1>2, SyncedFact
<1>4. Objects(file[fd].data \o b) \subseteq Recorded
  BY <1>1, ObjectsJoined
<1> QED BY <1>2, <1>3, <1>4

LEMMA PiecesNext ==
    ASSUME FileInvariant, PiecesOK, [Next]_vars
    PROVE  PiecesOK'
<1>0. /\ PollOK /\ FilesOK /\ SinkTypeOK /\ StepOK /\ fd \in Names /\ buffer \in Seq(Pieces)
      /\ Objects(buffer) \subseteq Recorded
      /\ \A i \in Names : Objects(file[i].data) \subseteq Recorded
      /\ Objects(<<>>) = {} /\ Objects(NoFile.data) = {}
  BY InvariantParts, NoObjects DEF PiecesOK
(* A file changes by a part of the buffer at its end, which may be synced. *)
<1>grows. ASSUME Recorded \subseteq Recorded', dropped' = dropped,
                 Objects(buffer') \subseteq Recorded,
                 NEW b \in Seq(Pieces), Objects(b) \subseteq Recorded,
                 NEW left \in {Appended(file[fd], b), Synced(Appended(file[fd], b))},
                 file' = [file EXCEPT ![fd] = left]
          PROVE  PiecesOK'
  <2>1. Objects(left.data) \subseteq Recorded
    BY <1>0, <1>grows, DrainedObjects
  <2>2. \A i \in Names : file'[i] = IF i = fd THEN left ELSE file[i]
    BY <1>0, <1>grows DEF FilesOK
  <2>3. \A i \in Names : Objects(file'[i].data) \subseteq Recorded
    BY <1>0, <2>1, <2>2
  <2> QED BY <1>grows, <2>3, PiecesKept
<1>part. ASSUME NEW n \in 0 .. Len(buffer)
         PROVE  /\ SubSeq(buffer, 1, n) \in Seq(Pieces)
                /\ Objects(SubSeq(buffer, 1, n)) \subseteq Recorded
                /\ Objects(SubSeq(buffer, n + 1, Len(buffer))) \subseteq Recorded
  <2>1. /\ Len(buffer) \in Nat /\ n \in 0 .. Len(buffer) /\ 1 \in 1 .. Len(buffer) + 1
        /\ n + 1 \in 1 .. Len(buffer) + 1 /\ Len(buffer) \in 0 .. Len(buffer)
    BY <1>0
  <2>2. SubSeq(buffer, 1, n) \in Seq(Pieces)
    BY <1>0, <2>1, SubSeqProperties
  <2> QED BY <1>0, <2>1, <2>2, ObjectsOfPart
(* The open path, found or made.                                           *)
<1>opens. ASSUME NEW left \in [Names -> Files], file' = [left EXCEPT ![0] = Opened(@)],
                 \A i \in Names : Objects(left[i].data) \subseteq Recorded,
                 Recorded \subseteq Recorded', dropped' = dropped,
                 Objects(buffer') \subseteq Recorded
          PROVE  PiecesOK'
  <2>1. 0 \in Names /\ \A i \in Names : file'[i] = IF i = 0 THEN Opened(left[0]) ELSE left[i]
    BY <1>opens, KeepType
  <2>2. Opened(left[0]).data \in {left[0].data, NoFile.data}
    BY DEF Opened, NoFile
  <2>3. \A i \in Names : Objects(file'[i].data) \subseteq Recorded
    BY <1>0, <1>opens, <2>1, <2>2
  <2> QED BY <1>opens, <2>3, PiecesKept
<1>1. CASE BuildSink
  <2> DEFINE lf(n) == [file EXCEPT ![fd] = Appended(@, SubSeq(buffer, 1, n))]
  <2>1. PICK n \in 0 .. Len(buffer) : file' = [lf(n) EXCEPT ![0] = Opened(@)]
    BY <1>1 DEF BuildSink
  <2>2. StartCycle /\ buffer' = <<>> /\ dropped' = dropped
    BY <1>1 DEF BuildSink
  <2> DEFINE g == Appended(file[fd], SubSeq(buffer, 1, n))
  <2>3. g \in Files /\ Objects(g.data) \subseteq Recorded
    <3>1. file[fd] \in Files /\ file[fd].synced <= Len(file[fd].data)
      BY <1>0 DEF FilesOK
    <3> QED BY <1>0, <1>part, <3>1, AppendedFact, DrainedObjects, InvariantParts
  <2>4. lf(n) = [file EXCEPT ![fd] = g]
    OBVIOUS
  <2> HIDE DEF g, lf
  <2>5. lf(n) \in [Names -> Files] /\ \A i \in Names : lf(n)[i] = IF i = fd THEN g ELSE file[i]
    BY <1>0, <2>3, <2>4 DEF FilesOK
  <2>6. \A i \in Names : Objects(lf(n)[i].data) \subseteq Recorded
    BY <1>0, <2>3, <2>5
  <2>7. Recorded \subseteq Recorded'
    BY <1>0, <2>2, RecordedGrows
  <2> QED BY <1>0, <1>opens, <2>1, <2>2, <2>5, <2>6, <2>7
<1>2. CASE Reopen
  <2>1. /\ file' = [file EXCEPT ![0] = Opened(@)] /\ buffer' = buffer /\ dropped' = dropped
        /\ UNCHANGED pollAllVars
    BY <1>2 DEF Reopen
  <2>2. Recorded \subseteq Recorded' /\ file \in [Names -> Files]
    BY <1>0, <2>1, RecordedGrows DEF FilesOK
  <2> QED BY <1>0, <1>opens, <2>1, <2>2
<1>3. CASE CloseFull \/ Flush
  <2>1. /\ file' = [file EXCEPT ![fd] = Synced(Appended(file[fd], buffer))]
        /\ buffer' = <<>> /\ dropped' = dropped
    BY <1>3 DEF CloseFull, Flush, Drained
  <2>2. Recorded \subseteq Recorded'
    BY <1>0, <1>3, RecordedGrows DEF CloseFull, Flush
  <2> QED BY <1>0, <1>grows, <2>1, <2>2
<1>4. CASE Remove \/ Rename
  <2>1. buffer' = buffer /\ UNCHANGED pollAllVars
    BY <1>4 DEF Remove, Rename, sink
  <2>2. Recorded \subseteq Recorded'
    BY <1>0, <2>1, RecordedGrows
  <2>3. slot \in Nat /\ (slot < Keep => Target(slot) \in Names /\ Target(slot) - 1 \in Names)
    BY <1>0, KeepType DEF SinkTypeOK, Target, Names
  <2>4. slot < Keep
    BY <1>0, <1>4 DEF Remove, Rename, StepOK
  <2>5. /\ \A i \in Names : file'[i] = NoFile \/ \E k \in Names : file'[i] = file[k]
        /\ \A f \in dropped' : f \in dropped \/ \E i \in Names : f = file[i]
    <3>1. CASE Remove
      BY <1>0, <2>3, <2>4, <3>1 DEF Remove, FilesOK
    <3>2. CASE Rename
      BY <1>0, <2>3, <2>4, <3>2 DEF Rename, FilesOK
    <3> QED BY <1>4, <3>1, <3>2
  <2>6. \A i \in Names : Objects(file'[i].data) \subseteq Recorded
    BY <1>0, <2>5
  <2> QED BY <1>0, <2>1, <2>2, <2>5, <2>6, PiecesKept
<1>5. CASE WriteLine \/ WriteNewline
  <2>1. PICK piece \in Pieces : Buffered(piece) /\ {piece} \ {Newline} \subseteq Recorded
    <3>1. CASE WriteLine
      <4>1. phase = "write" /\ Buffered(Current)
        BY <1>0, <3>1 DEF WriteLine, StepOK
      <4> QED BY <1>0, <4>1, WritesRecorded, PieceTypes
    <3>2. CASE WriteNewline
      BY <1>0, <3>2, PieceTypes DEF WriteNewline
    <3> QED BY <1>5, <3>1, <3>2
  <2>2. Recorded \subseteq Recorded' /\ dropped' = dropped
    BY <1>0, <1>5, RecordedGrows DEF WriteLine, WriteNewline
  <2>3. CASE buffer' = Append(buffer, piece) /\ UNCHANGED file
    <3>1. Objects(buffer') \subseteq Recorded
      BY <1>0, <2>1, <2>3, ObjectsOfMore
    <3> QED BY <1>0, <2>2, <2>3, <3>1, PiecesKept
  <2>4. CASE buffer' = <<piece>> /\ Drain
    <3>1. Objects(buffer') \subseteq Recorded
      BY <2>1, <2>4, ObjectsOfOne
    <3> QED BY <1>0, <1>grows, <2>2, <2>4, <3>1 DEF Drain, Drained
  <2> QED BY <2>1, <2>3, <2>4 DEF Buffered
<1>6. CASE WriteFails
  <2>1. PICK n \in 0 .. Len(buffer) : Partly(n)
    BY <1>6 DEF WriteFails
  <2>2. PollFails /\ dropped' = dropped
    BY <1>6 DEF WriteFails
  <2>3. Recorded \subseteq Recorded'
    BY <1>0, <2>2, RecordedGrows
  <2> QED BY <1>grows, <1>part, <2>1, <2>2, <2>3 DEF Partly
<1>7. CASE PowerFailure
  <2>1. /\ Crash /\ buffer' = <<>> /\ dropped' = dropped
        /\ \A i \in Names : file'[i] \in Cut(file[i])
    BY <1>7 DEF PowerFailure, SinkGone
  <2>2. Recorded \subseteq Recorded'
    BY <1>0, <2>1, RecordedGrows
  <2>3. ASSUME NEW i \in Names PROVE Objects(file'[i].data) \subseteq Recorded
    <3>1. /\ file[i] \in Files /\ file[i].data \in Seq(Pieces) /\ file[i].synced \in Nat
          /\ Len(file[i].data) \in Nat
      BY <1>0 DEF FilesOK, Files
    <3>2. PICK n \in file[i].synced .. Len(file[i].data) :
            file'[i] = [file[i] EXCEPT !.data = SubSeq(@, 1, n), !.synced = n]
      BY <2>1 DEF Cut
    <3>3. file'[i].data = SubSeq(file[i].data, 1, n)
      BY <3>1, <3>2 DEF Files
    <3>4. 1 \in 1 .. Len(file[i].data) + 1 /\ n \in 0 .. Len(file[i].data)
      BY <3>1, <3>2
    <3> QED BY <1>0, <3>1, <3>3, <3>4, ObjectsOfPart
  <2> QED BY <1>0, <2>1, <2>2, <2>3, PiecesKept
<1>8. CASE RotateFails \/ NotAcked \/ Killed \/ NoRotation
  <2>1. PollFails \/ Crash \/ UNCHANGED pollAllVars
    BY <1>8 DEF RotateFails, NotAcked, AckFails, Killed, NoRotation
  <2>2. Recorded \subseteq Recorded'
    BY <1>0, <2>1, RecordedGrows
  <2>3. UNCHANGED <<file, dropped>> /\ buffer' \in {buffer, <<>>}
    BY <1>8 DEF RotateFails, NotAcked, Killed, NoRotation, SinkGone, disk, sink
  <2> QED BY <1>0, <2>2, <2>3, PiecesKept
<1>9. CASE /\ UNCHANGED sinkVars
           /\ \/ Stop \/ ReadLog \/ Unreachable \/ Acknowledge
              \/ RecordEntry \/ Signal \/ UNCHANGED pollAllVars
  <2>1. Recorded \subseteq Recorded'
    BY <1>0, <1>9, RecordedGrows DEF Unreachable
  <2>2. UNCHANGED <<file, dropped, buffer>>
    BY <1>9 DEF sinkVars, disk, sink
  <2> QED BY <1>0, <2>1, <2>2, PiecesKept
<1> QED
  BY <1>1, <1>2, <1>3, <1>4, <1>5, <1>6, <1>7, <1>8, <1>9 DEF Next, Step, Fault, Outside, vars

-----------------------------------------------------------------------------
(* The refinement of Delivery.                                             *)

DurableEvents == {e \in Devices \X (1 .. Entries) : Durable(e)}

DurableOK == DurableEvents \subseteq Recorded

LEMMA DurableIsRecorded == FileInvariant /\ PiecesOK => DurableOK
<1>0. SUFFICES ASSUME FilesOK, dropped \subseteq Files, PiecesOK PROVE DurableOK
  BY InvariantParts DEF FileInvariant, SinkTypeOK
<1> SUFFICES ASSUME NEW e \in Devices \X (1 .. Entries), Durable(e)
             PROVE  e \in Recorded
  BY DEF DurableOK, DurableEvents
<1>1. e # Newline
  BY DEF Newline, Devices
<1>2. ASSUME NEW f \in Files, HasLine(f, e) PROVE e \in Objects(f.data)
  <2>1. PICK j \in 1 .. f.synced - 1 : j < Len(f.data) /\ f.data[j] = e
    BY <1>2 DEF HasLine, LineAt
  <2>2. j \in 1 .. Len(f.data)
    BY <2>1 DEF Files
  <2> QED BY <1>1, <2>1, <2>2 DEF Objects
<1>3. CASE \E i \in Names : HasLine(file[i], e)
  BY <1>0, <1>2, <1>3 DEF FilesOK, PiecesOK
<1>4. CASE \E f \in dropped : HasLine(f, e)
  BY <1>0, <1>2, <1>4 DEF PiecesOK
<1> QED BY <1>3, <1>4 DEF Durable

(* What the service does with this sink is a step of Delivery.             *)
LEMMA FileKeeps ==
    ASSUME FileInvariant, FileInvariant', PiecesOK, DurableOK', [Next]_vars
    PROVE  [Promise!Next]_(Promise!vars)
<1>0. PollOK /\ FilesOK' /\ (dropped \subseteq Files)' /\ AckedIsDurable'
  BY InvariantParts DEF FileInvariant, SinkTypeOK
<1>1. DurableEvents \subseteq DurableEvents'
  BY FileNext DEF Kept, DurableEvents
<1>2. DurableEvents' \subseteq Recorded'
  BY DEF DurableOK
<1>3. CASE Acknowledge /\ UNCHANGED sinkVars
  <2>1. DurableEvents' = DurableEvents /\ Recorded' = Recorded
    BY <1>3 DEF sinkVars, disk, DurableEvents, Durable, Acknowledge, NextDevice, Recorded
  <2>2. Acked \subseteq Acked'
    BY <1>0, <1>3, AckedGrows
  <2>3. Acked' \subseteq DurableEvents'
    BY <1>0 DEF AckedIsDurable, Acked, DurableEvents, Durable
  <2> QED BY <2>1, <2>2, <2>3 DEF Promise!Next, Promise!Release, DurableEvents
<1>4. CASE (RecordEntry \/ Signal) /\ UNCHANGED sinkVars
  <2>1. DurableEvents' = DurableEvents /\ Acked' = Acked
    BY <1>4 DEF sinkVars, disk, DurableEvents, Durable, RecordEntry, Signal, Acked
  <2>2. Recorded \subseteq Recorded'
    BY <1>0, <1>4, RecordedGrows
  <2> QED BY <2>1, <2>2 DEF Promise!Next, Promise!Record, DurableEvents
<1>5. CASE UNCHANGED <<recorded, acked>>
  <2>1. Recorded' = Recorded /\ Acked' = Acked
    BY <1>5 DEF Recorded, Acked
  <2> QED BY <1>1, <1>2, <2>1 DEF Promise!Next, Promise!Deliver, DurableEvents
<1>6. \/ Acknowledge /\ UNCHANGED sinkVars
      \/ (RecordEntry \/ Signal) /\ UNCHANGED sinkVars
      \/ UNCHANGED <<recorded, acked>>
  BY ZenonT(30)
     DEF Next, Step, Fault, Outside, vars, BuildSink, NoRotation, CloseFull, Remove, Rename, Reopen,
         WriteLine, WriteNewline, Flush, WriteFails, RotateFails, NotAcked, AckFails, Killed,
         PowerFailure, Stop, ReadLog, Unreachable, StartCycle, Written, Flushed, PollFails,
         NextDevice, Crash, pollAllVars
<1> QED BY <1>3, <1>4, <1>5, <1>6

(* The service with the file sink implements Delivery: what it acknowledges*)
(* to a device is durable before, and stays so, in a file or in one that   *)
(* rotation has removed, whatever fails, is killed or loses power.         *)
THEOREM FileKeepsPromise == Spec => KeepsPromise
<1>1. Init => Promise!Init /\ PiecesOK
  <2> SUFFICES ASSUME Init PROVE Promise!Init /\ PiecesOK
    OBVIOUS
  <2>1. Acked = {} /\ Recorded = {}
    BY InitOK DEF Init
  <2>2. PiecesOK
    BY NoObjects DEF Init, PiecesOK
  <2>3. DurableEvents = {}
    BY <2>1, <2>2, FileInit, DurableIsRecorded DEF DurableOK
  <2> QED BY <2>1, <2>2, <2>3 DEF Promise!Init, DurableEvents
<1>2. FileInvariant /\ PiecesOK /\ [Next]_vars => PiecesOK'
  BY PiecesNext
<1>3. FileInvariant /\ PiecesOK => DurableOK
  BY DurableIsRecorded
<1>4. /\ FileInvariant /\ FileInvariant' /\ PiecesOK /\ DurableOK' /\ [Next]_vars
      => [Promise!Next]_(Promise!vars)
  BY FileKeeps
<1> QED BY <1>1, <1>2, <1>3, <1>4, FileInvariantHolds, PTL DEF Spec, KeepsPromise, Promise!Spec
=============================================================================
