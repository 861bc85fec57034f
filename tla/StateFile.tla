----------------------------- MODULE StateFile -----------------------------
(***************************************************************************)
(* DeviceState::save and ::load of src/src/state.rs on a file system: a    *)
(* temporary file is created or truncated, written and synced, the old     *)
(* state file removed, and the temporary one renamed to its name.          *)
(*                                                                         *)
(* The directory maps the two names to inodes, and an inode has content of *)
(* its own that a writer who opened it keeps reaching under whatever name  *)
(* it then has.  Writers may be more than one: nothing keeps `once` from   *)
(* running beside `run`.  A call may fail, a process may die, and, where   *)
(* PowerMayFail, the machine may: then content that was not synced is      *)
(* torn, and directory changes not written back yet may be undone.         *)
(***************************************************************************)
EXTENDS Integers

CONSTANTS
    Writers,        \* processes that save the state of this device
    DeviceStates,   \* the values that are saved
    Absent,         \* no such file, no such value
    Torn,           \* content that is not a complete state
    PowerMayFail,
    MaxInodes       \* bound: enough for every name and open file

ASSUME StateFileAssumption ==
    /\ PowerMayFail \in BOOLEAN
    /\ MaxInodes \in Nat
    /\ Absent # Torn
    /\ Absent \notin Int
    /\ {Absent, Torn} \intersect DeviceStates = {}

Names == {"path", "tmp"}
Inodes == 1 .. MaxInodes

VARIABLES
    dir,        \* name -> inode, or Absent
    content,    \* inode -> complete state or Torn
    synced,     \* inodes whose content is on the disk
    survivors,  \* directories a power failure may leave
    pc,         \* writer -> the call of save() it makes next
    value,      \* writer -> the state it is saving
    file        \* writer -> the inode it has open

vars == <<dir, content, synced, survivors, pc, value, file>>

Init ==
    /\ dir = [n \in Names |-> Absent]
    /\ content = [i \in Inodes |-> Torn]
    /\ synced = {}
    /\ survivors = {dir}
    /\ pc = [w \in Writers |-> "idle"]
    /\ value = [w \in Writers |-> Absent]
    /\ file = [w \in Writers |-> Absent]

InUse(i) == \/ \E n \in Names : dir[n] = i
            \/ \E d \in survivors, n \in Names : d[n] = i
            \/ \E w \in Writers : file[w] = i

(* The directory is changed in memory; it reaches the disk some time later.*)
ChangeDir(d) ==
    /\ dir' = d
    /\ survivors' = IF PowerMayFail THEN survivors \union {d} ELSE {d}

(* What load() would parse: the content under the state file's name.       *)
LoadedFrom(d) == IF d["path"] = Absent THEN Absent ELSE content[d["path"]]
Loaded == LoadedFrom(dir)

-----------------------------------------------------------------------------
(* File::create(&tmp): an existing temporary file is truncated in place.   *)
Create_InPlace(w) ==
    /\ pc[w] = "idle"
    /\ \E v \in DeviceStates : value' = [value EXCEPT ![w] = v]
    /\ \E i \in Inodes :
         /\ IF dir["path"] = Absent
            THEN ~InUse(i) /\ ChangeDir([dir EXCEPT !["path"] = i])
            ELSE i = dir["path"] /\ UNCHANGED <<dir, survivors>>
         /\ content' = [content EXCEPT ![i] = Torn]
         /\ synced' = synced \ {i}
         /\ file' = [file EXCEPT ![w] = i]
    /\ pc' = [pc EXCEPT ![w] = "write"]
Create(w) ==
    /\ pc[w] = "idle"
    /\ \E v \in DeviceStates : value' = [value EXCEPT ![w] = v]
    /\ \E i \in Inodes :
         /\ IF dir["tmp"] = Absent
            THEN ~InUse(i) /\ ChangeDir([dir EXCEPT !["tmp"] = i])
            ELSE i = dir["tmp"] /\ UNCHANGED <<dir, survivors>>
         /\ content' = [content EXCEPT ![i] = Torn]
         /\ synced' = synced \ {i}
         /\ file' = [file EXCEPT ![w] = i]
    /\ pc' = [pc EXCEPT ![w] = "write"]

(* write_all, twice.  Two writers of one inode may leave a mixture.        *)
Write(w) ==
    /\ pc[w] = "write"
    /\ \E c \in IF \E u \in Writers \ {w} : file[u] = file[w]
                THEN {value[w], Torn} ELSE {value[w]} :
         content' = [content EXCEPT ![file[w]] = c]
    /\ synced' = synced \ {file[w]}
    /\ pc' = [pc EXCEPT ![w] = "sync"]
    /\ UNCHANGED <<dir, survivors, value, file>>

(* sync_all, and the file is closed.                                       *)
Sync_CloseOnly(w) ==
    /\ pc[w] = "sync"
    /\ file' = [file EXCEPT ![w] = Absent]
    /\ pc' = [pc EXCEPT ![w] = "remove"]
    /\ UNCHANGED <<dir, content, synced, survivors, value>>
Sync(w) ==
    /\ pc[w] = "sync"
    /\ synced' = synced \union {file[w]}
    /\ file' = [file EXCEPT ![w] = Absent]
    /\ pc' = [pc EXCEPT ![w] = "remove"]
    /\ UNCHANGED <<dir, content, survivors, value>>

(* if path.exists() { remove_file(&path).ok() }: a failure is ignored.     *)
Remove(w) ==
    /\ pc[w] = "remove"
    /\ \/ ChangeDir([dir EXCEPT !["path"] = Absent])
       \/ UNCHANGED <<dir, survivors>>
    /\ pc' = [pc EXCEPT ![w] = "rename"]
    /\ UNCHANGED <<content, synced, value, file>>

Rename(w) ==
    /\ pc[w] = "rename"
    /\ dir["tmp"] # Absent
    /\ ChangeDir([n \in Names |-> IF n = "path" THEN dir["tmp"] ELSE Absent])
    /\ pc' = [pc EXCEPT ![w] = "idle"]
    /\ value' = [value EXCEPT ![w] = Absent]
    /\ UNCHANGED <<content, synced, file>>

(* A call of save() returns an error, or the process dies in it.           *)
Fail(w) ==
    /\ pc[w] # "idle"
    /\ pc' = [pc EXCEPT ![w] = "idle"]
    /\ value' = [value EXCEPT ![w] = Absent]
    /\ file' = [file EXCEPT ![w] = Absent]
    /\ UNCHANGED <<dir, content, synced, survivors>>

-----------------------------------------------------------------------------
(* The operating system writes the directory back, in its own time.        *)
WriteBack ==
    /\ PowerMayFail
    /\ survivors' = {dir}
    /\ UNCHANGED <<dir, content, synced, pc, value, file>>

(* The machine stops: everything in memory is lost.                        *)
PowerFailure ==
    /\ PowerMayFail
    /\ dir' \in survivors
    /\ survivors' = {dir'}
    /\ content' = [i \in Inodes |-> IF i \in synced THEN content[i] ELSE Torn]
    /\ synced' = Inodes
    /\ pc' = [w \in Writers |-> "idle"]
    /\ value' = [w \in Writers |-> Absent]
    /\ file' = [w \in Writers |-> Absent]

Next ==
    \/ \E w \in Writers : \/ Create(w) \/ Write(w) \/ Sync(w) \/ Remove(w)
                          \/ Rename(w) \/ Fail(w)
    \/ WriteBack \/ PowerFailure

Spec == Init /\ [][Next]_vars

-----------------------------------------------------------------------------
(* load() never meets a half-written state file, whichever call failed and *)
(* whenever the process or the machine stopped.                            *)
NeverTorn == Loaded # Torn

(* Why that is so for one writer: the inode that is written is nobody's    *)
(* state file, in no directory a power failure may leave, until it is      *)
(* complete and synced.                                                    *)
Entry(d, n) == d[n] # Absent
DirOK(d) ==
    /\ d \in [Names -> Inodes \union {Absent}]
    /\ Entry(d, "path") => /\ d["path"] # d["tmp"]
                           /\ d["path"] \in synced
                           /\ content[d["path"]] \in DeviceStates
SaveOK(w) ==
    /\ IF pc[w] = "idle" THEN value[w] = Absent ELSE value[w] \in DeviceStates
    /\ pc[w] # "idle" => Entry(dir, "tmp")
    /\ IF pc[w] \in {"write", "sync"} THEN file[w] = dir["tmp"] ELSE file[w] = Absent
    /\ pc[w] = "sync" => content[dir["tmp"]] = value[w]
    /\ pc[w] \in {"remove", "rename"} => /\ dir["tmp"] \in synced
                                         /\ content[dir["tmp"]] = value[w]
SaveInvariant ==
    /\ content \in [Inodes -> DeviceStates \union {Torn}]
    /\ synced \subseteq Inodes
    /\ value \in [Writers -> DeviceStates \union {Absent}]
    /\ pc \in [Writers -> {"idle", "write", "sync", "remove", "rename"}]
    /\ file \in [Writers -> Inodes \union {Absent}]
    /\ dir \in survivors
    /\ ~PowerMayFail => survivors = {dir}
    /\ \A d \in survivors : /\ DirOK(d)
                            /\ Entry(dir, "tmp") => d["path"] # dir["tmp"]
    /\ \A w \in Writers : SaveOK(w)

(* The state file behaves as the cell CursorCell, the one writer's save    *)
(* being under way between create and rename.                              *)
Cell == INSTANCE CursorCell WITH
            cell <- Loaded,
            older <- {LoadedFrom(d) : d \in survivors},
            saving <- {value[w] : w \in Writers} \ {Absent}
RefinesCell == Cell!Spec
=============================================================================
