-------------------------- MODULE StateFileProofs ---------------------------
(***************************************************************************)
(* DeviceState::save with one writer, for any states, any number of inodes *)
(* and whether or not the machine may stop: SaveInvariant is inductive,    *)
(* load() never meets a torn file, and the file behaves as the cell.       *)
(***************************************************************************)
EXTENDS StateFile, TLAPS

LEMMA SaveInit == Init => SaveInvariant
  BY StateFileAssumption
  DEF Init, SaveInvariant, SaveOK, DirOK, Entry, Names

(* A new directory entry, or one less, in memory and perhaps on the disk.  *)
LEMMA ChangeDirKeeps ==
    ASSUME NEW d, dir \in survivors, ChangeDir(d)
    PROVE  /\ dir' = d /\ dir' \in survivors' /\ survivors' \subseteq survivors \union {d}
           /\ ~PowerMayFail => survivors' = {d}
  BY DEF ChangeDir

LEMMA SaveNext ==
    ASSUME NEW w, Writers = {w}, SaveInvariant, [Next]_vars
    PROVE  SaveInvariant'
<1>0. /\ content \in [Inodes -> DeviceStates \union {Torn}]
      /\ synced \subseteq Inodes
      /\ value \in [{w} -> DeviceStates \union {Absent}]
      /\ pc \in [{w} -> {"idle", "write", "sync", "remove", "rename"}]
      /\ file \in [{w} -> Inodes \union {Absent}]
      /\ dir \in survivors
      /\ ~PowerMayFail => survivors = {dir}
      /\ \A d \in survivors : DirOK(d) /\ (Entry(dir, "tmp") => d["path"] # dir["tmp"])
      /\ SaveOK(w)
  BY DEF SaveInvariant
<1>abs. Absent \notin Inodes /\ Absent # Torn /\ Absent \notin DeviceStates
  BY StateFileAssumption DEF Inodes
<1>dir. dir \in [Names -> Inodes \union {Absent}]
  BY <1>0 DEF DirOK
<1>1. CASE Create(w)
  <2>1. PICK v \in DeviceStates : value' = [value EXCEPT ![w] = v]
    BY <1>1 DEF Create
  <2>2. PICK i \in Inodes :
          /\ IF dir["tmp"] = Absent
             THEN ~InUse(i) /\ ChangeDir([dir EXCEPT !["tmp"] = i])
             ELSE i = dir["tmp"] /\ UNCHANGED <<dir, survivors>>
          /\ content' = [content EXCEPT ![i] = Torn]
          /\ synced' = synced \ {i}
          /\ file' = [file EXCEPT ![w] = i]
    BY <1>1 DEF Create
  <2>3. pc' = [pc EXCEPT ![w] = "write"]
    BY <1>1 DEF Create
  <2>4. \A d \in survivors : d["path"] # i
    BY <1>0, <1>abs, <2>2 DEF InUse, Names, Entry
  <2>5. /\ dir' \in survivors' /\ dir'["tmp"] = i /\ dir'["path"] = dir["path"]
        /\ dir' \in [Names -> Inodes \union {Absent}]
        /\ survivors' \subseteq survivors \union {dir'}
        /\ ~PowerMayFail => survivors' = {dir'}
    <3>1. CASE dir["tmp"] = Absent
      <4>1. ChangeDir([dir EXCEPT !["tmp"] = i])
        BY <2>2, <3>1
      <4>2. /\ dir' = [dir EXCEPT !["tmp"] = i] /\ dir' \in survivors'
            /\ survivors' \subseteq survivors \union {dir'}
            /\ ~PowerMayFail => survivors' = {dir'}
        BY <1>0, <4>1, ChangeDirKeeps
      <4>3. dir'["tmp"] = i /\ dir'["path"] = dir["path"] /\ dir' \in [Names -> Inodes \union {Absent}]
        BY <1>dir, <4>2 DEF Names
      <4> QED BY <4>2, <4>3
    <3>2. CASE dir["tmp"] # Absent
      BY <1>0, <1>dir, <2>2, <3>2
    <3> QED BY <3>1, <3>2
  <2>6. \A d \in survivors : DirOK(d)'
    BY <1>0, <2>2, <2>4 DEF DirOK, Entry
  <2>7. DirOK(dir)'
    BY <1>0, <2>2, <2>4, <2>5 DEF DirOK, Entry
  <2>8. SaveOK(w)'
    BY <1>0, <1>abs, <2>1, <2>2, <2>3, <2>5 DEF SaveOK, Entry
  <2> QED BY <1>0, <2>1, <2>2, <2>3, <2>4, <2>5, <2>6, <2>7, <2>8 DEF SaveInvariant
<1>2. CASE Write(w)
  <2>1. /\ pc[w] = "write" /\ file[w] = dir["tmp"] /\ dir["tmp"] \in Inodes
        /\ value[w] \in DeviceStates
    BY <1>0, <1>2, <1>dir DEF Write, SaveOK, Entry, Names
  <2>2. content' = [content EXCEPT ![dir["tmp"]] = value[w]]
    BY <1>2, <2>1 DEF Write
  <2>3. synced' = synced \ {dir["tmp"]} /\ pc' = [pc EXCEPT ![w] = "sync"]
        /\ UNCHANGED <<dir, survivors, value, file>>
    BY <1>2, <2>1 DEF Write
  <2>4. \A d \in survivors : DirOK(d)'
    BY <1>0, <1>abs, <2>1, <2>2, <2>3 DEF DirOK, Entry
  <2>5. SaveOK(w)'
    BY <1>0, <2>1, <2>2, <2>3 DEF SaveOK, Entry
  <2> QED BY <1>0, <2>1, <2>2, <2>3, <2>4, <2>5 DEF SaveInvariant, Entry
<1>3. CASE Sync(w)
  <2>1. /\ pc[w] = "sync" /\ file[w] = dir["tmp"] /\ dir["tmp"] \in Inodes
    BY <1>0, <1>3, <1>dir DEF Sync, SaveOK, Entry, Names
  <2>2. /\ synced' = synced \union {dir["tmp"]} /\ pc' = [pc EXCEPT ![w] = "remove"]
        /\ file' = [file EXCEPT ![w] = Absent]
        /\ UNCHANGED <<dir, content, survivors, value>>
    BY <1>3, <2>1 DEF Sync
  <2>3. SaveOK(w)'
    BY <1>0, <2>1, <2>2 DEF SaveOK, Entry
  <2> QED BY <1>0, <2>1, <2>2, <2>3 DEF SaveInvariant, DirOK, Entry
<1>4. CASE Remove(w)
  <2>1. /\ pc[w] = "remove" /\ pc' = [pc EXCEPT ![w] = "rename"]
        /\ UNCHANGED <<content, synced, value, file>>
    BY <1>4 DEF Remove
  <2>2. /\ dir' \in survivors' /\ dir'["tmp"] = dir["tmp"]
        /\ survivors' \subseteq survivors \union {dir'}
        /\ ~PowerMayFail => survivors' = {dir'}
        /\ dir' \in survivors \/ (dir'["path"] = Absent /\ dir' \in [Names -> Inodes \union {Absent}])
    <3>1. CASE ChangeDir([dir EXCEPT !["path"] = Absent])
      <4>1. /\ dir' = [dir EXCEPT !["path"] = Absent] /\ dir' \in survivors'
            /\ survivors' \subseteq survivors \union {dir'}
            /\ ~PowerMayFail => survivors' = {dir'}
        BY <1>0, <3>1, ChangeDirKeeps
      <4>2. dir'["tmp"] = dir["tmp"] /\ dir'["path"] = Absent /\ dir' \in [Names -> Inodes \union {Absent}]
        BY <1>dir, <4>1 DEF Names
      <4> QED BY <4>1, <4>2
    <3>2. CASE UNCHANGED <<dir, survivors>>
      BY <1>0, <3>2
    <3> QED BY <1>4, <3>1, <3>2 DEF Remove
  <2>3. DirOK(dir)'
    BY <1>0, <2>1, <2>2 DEF DirOK, Entry
  <2>4. SaveOK(w)'
    BY <1>0, <2>1, <2>2 DEF SaveOK, Entry
  <2>5. Entry(dir, "tmp")' => dir'["path"] # dir'["tmp"]
    BY <1>0, <2>2 DEF Entry
  <2> QED BY <1>0, <2>1, <2>2, <2>3, <2>4, <2>5 DEF SaveInvariant, DirOK, Entry
<1>5. CASE Rename(w)
  <2>1. /\ pc[w] = "rename" /\ dir["tmp"] # Absent
        /\ pc' = [pc EXCEPT ![w] = "idle"] /\ value' = [value EXCEPT ![w] = Absent]
        /\ UNCHANGED <<content, synced, file>>
    BY <1>5 DEF Rename
  <2>2. /\ dir' \in survivors' /\ dir'["tmp"] = Absent /\ dir'["path"] = dir["tmp"]
        /\ dir' \in [Names -> Inodes \union {Absent}]
        /\ survivors' \subseteq survivors \union {dir'}
        /\ ~PowerMayFail => survivors' = {dir'}
    BY <1>0, <1>5, <1>dir, ChangeDirKeeps DEF Rename, Names
  <2>3. DirOK(dir)'
    BY <1>0, <2>1, <2>2 DEF DirOK, Entry, SaveOK
  <2>4. SaveOK(w)'
    BY <1>0, <2>1, <2>2 DEF SaveOK
  <2> QED BY <1>0, <2>1, <2>2, <2>3, <2>4 DEF SaveInvariant, DirOK, Entry
<1>6. CASE Fail(w)
  <2>1. /\ pc' = [pc EXCEPT ![w] = "idle"] /\ value' = [value EXCEPT ![w] = Absent]
        /\ file' = [file EXCEPT ![w] = Absent] /\ UNCHANGED <<dir, content, synced, survivors>>
    BY <1>6 DEF Fail
  <2>2. SaveOK(w)'
    BY <1>0, <2>1 DEF SaveOK
  <2> QED BY <1>0, <2>1, <2>2 DEF SaveInvariant, DirOK, Entry
<1>7. CASE WriteBack
  <2>1. survivors' = {dir} /\ UNCHANGED <<dir, content, synced, pc, value, file>>
    BY <1>7 DEF WriteBack
  <2>2. SaveOK(w)'
    BY <1>0, <2>1 DEF SaveOK, Entry
  <2> QED BY <1>0, <2>1, <2>2 DEF SaveInvariant, DirOK, Entry
<1>8. CASE PowerFailure
  <2>1. /\ dir' \in survivors /\ survivors' = {dir'} /\ synced' = Inodes
        /\ content' = [i \in Inodes |-> IF i \in synced THEN content[i] ELSE Torn]
        /\ pc' = [u \in {w} |-> "idle"] /\ value' = [u \in {w} |-> Absent]
        /\ file' = [u \in {w} |-> Absent]
    BY <1>8 DEF PowerFailure
  <2>2. DirOK(dir)'
    BY <1>0, <2>1 DEF DirOK, Entry
  <2>3. SaveOK(w)'
    BY <2>1 DEF SaveOK
  <2>4. Entry(dir, "tmp")' => dir'["path"] # dir'["tmp"]
    BY <1>0, <2>1 DEF DirOK, Entry
  <2>5. content' \in [Inodes -> DeviceStates \union {Torn}]
    BY <1>0, <2>1
  <2> QED BY <2>1, <2>2, <2>3, <2>4, <2>5 DEF SaveInvariant
<1>9. CASE UNCHANGED vars
  BY <1>0, <1>9 DEF vars, SaveInvariant, SaveOK, DirOK, Entry
<1> QED BY <1>1, <1>2, <1>3, <1>4, <1>5, <1>6, <1>7, <1>8, <1>9 DEF Next

(* The inductive invariant of the save protocol.                           *)
THEOREM SaveInvariantHolds ==
    ASSUME NEW w, Writers = {w}
    PROVE  Spec => []SaveInvariant
<1>1. SaveInvariant /\ [Next]_vars => SaveInvariant'
  BY SaveNext
<1> QED BY <1>1, SaveInit, PTL DEF Spec

(* The state file is complete or absent at every moment of a save and      *)
(* after every stop of the process or the machine: the temporary file is   *)
(* synced before it gets the name.                                         *)
THEOREM StateFileNeverTorn ==
    ASSUME NEW w, Writers = {w}
    PROVE  Spec => []NeverTorn
<1>1. SaveInvariant => NeverTorn
  BY StateFileAssumption DEF SaveInvariant, DirOK, Entry, NeverTorn, Loaded, LoadedFrom
<1> QED BY <1>1, SaveInvariantHolds, PTL

-----------------------------------------------------------------------------
(* The refinement of CursorCell.                                           *)

(* What the cell's variables are mapped to.                                *)
Older == {LoadedFrom(d) : d \in survivors}
BeingSaved == {value[w] : w \in Writers} \ {Absent}

(* What happens to the mapped variables when the directory changes, and    *)
(* when nothing but an inode that is nobody's state file does.             *)
LEMMA DirChanges ==
    ASSUME NEW d, dir \in survivors, ChangeDir(d), UNCHANGED content
    PROVE  /\ Loaded' = LoadedFrom(d)
           /\ Older' \in {{LoadedFrom(d)}, Older \union {LoadedFrom(d)}}
<1>1. \A e : LoadedFrom(e)' = LoadedFrom(e)
  BY DEF LoadedFrom
<1> QED BY <1>1 DEF ChangeDir, Loaded, Older

LEMMA CellStep ==
    ASSUME NEW w, Writers = {w}, SaveInvariant, SaveInvariant', [Next]_vars
    PROVE  [Cell!Next]_<<Loaded, BeingSaved, Older>>
<1> USE DEF Cell!Next
<1>0. /\ dir \in survivors /\ dir' \in survivors'
      /\ ~PowerMayFail => survivors = {dir} /\ survivors' = {dir'}
      /\ \A d \in survivors : DirOK(d) /\ (Entry(dir, "tmp") => d["path"] # dir["tmp"])
      /\ SaveOK(w)
      /\ content \in [Inodes -> DeviceStates \union {Torn}]
      /\ value \in [{w} -> DeviceStates \union {Absent}]
  BY DEF SaveInvariant
<1>val. BeingSaved = {value[w]} \ {Absent} /\ BeingSaved' = {value'[w]} \ {Absent}
  BY DEF BeingSaved
(* The kinds of step the cell knows, in terms of the mapped variables.     *)
<1>begin. ASSUME BeingSaved = {}, NEW v \in DeviceStates, BeingSaved' = {v}, Loaded' = Loaded, Older' = Older
          PROVE  Cell!Begin
  BY <1>begin DEF Cell!Begin, BeingSaved, Older
<1>replace. ASSUME NEW v, v \in BeingSaved, Loaded' = v, BeingSaved' = {},
                   Older' \in {{v}, Older \union {v}}
            PROVE  Cell!Replace
  BY <1>replace DEF Cell!Replace, Cell!Becomes, BeingSaved, Older
<1>lose. ASSUME BeingSaved # {}, BeingSaved' = BeingSaved, Loaded' = Absent,
                Older' \in {{Absent}, Older \union {Absent}}
         PROVE  Cell!Lose
  BY <1>lose DEF Cell!Lose, Cell!Becomes, BeingSaved, Older
<1>end. ASSUME BeingSaved # {}, BeingSaved' = {}, Loaded' = Loaded, Older' = Older
        PROVE  Cell!End
  BY <1>end DEF Cell!End, BeingSaved, Older
<1>settle. ASSUME Older' = {Loaded}, Loaded' = Loaded, BeingSaved' = BeingSaved
           PROVE  Cell!Settle
  BY <1>settle DEF Cell!Settle, BeingSaved, Older
<1>revert. ASSUME Loaded' \in Older, Older' = {Loaded'}, BeingSaved' = {}
           PROVE  Cell!Revert
  BY <1>revert DEF Cell!Revert, BeingSaved, Older
(* Writing an inode that is nobody's state file changes no mapped variable.*)
<1>quiet. ASSUME NEW i, \A d \in survivors : d["path"] # i,
                 \A j \in Inodes \ {i} : content'[j] = content[j]
          PROVE  \A d \in survivors : LoadedFrom(d)' = LoadedFrom(d)
  BY <1>0, <1>quiet DEF DirOK, Entry, Names, LoadedFrom
<1>1. CASE Create(w)
  <2>1. PICK i \in Inodes :
          /\ IF dir["tmp"] = Absent
             THEN ~InUse(i) /\ ChangeDir([dir EXCEPT !["tmp"] = i])
             ELSE i = dir["tmp"] /\ UNCHANGED <<dir, survivors>>
          /\ content' = [content EXCEPT ![i] = Torn]
    BY <1>1 DEF Create
  <2>2. \A d \in survivors : d["path"] # i
    BY <1>0, <2>1 DEF InUse, Names, Entry
  <2>3. \A d \in survivors : LoadedFrom(d)' = LoadedFrom(d)
    BY <1>0, <1>quiet, <2>1, <2>2
  <2>4. dir'["path"] = dir["path"]
    BY <1>0, <2>1 DEF ChangeDir, DirOK, Names
  <2>5. LoadedFrom(dir)' = LoadedFrom(dir)
    BY <1>0, <2>3, <2>4 DEF LoadedFrom
  <2>6. survivors' \in {survivors, survivors \union {dir'}} \/ (survivors = {dir} /\ survivors' = {dir'})
    <3>1. CASE UNCHANGED <<dir, survivors>>
      BY <3>1
    <3>2. CASE ChangeDir(dir')
      <4>1. IF PowerMayFail THEN survivors' = survivors \union {dir'} ELSE survivors' = {dir'}
        BY <3>2 DEF ChangeDir
      <4>2. CASE PowerMayFail
        BY <4>1, <4>2
      <4>3. CASE ~PowerMayFail
        BY <1>0, <4>3
      <4> QED BY <4>2, <4>3
    <3> QED BY <2>1, <3>1, <3>2 DEF ChangeDir
  <2>7. Older' = Older
    BY <1>0, <2>3, <2>5, <2>6 DEF Older
  <2>8. BeingSaved = {} /\ \E v \in DeviceStates : BeingSaved' = {v}
    BY <1>0, <1>1, <1>val, StateFileAssumption DEF Create, SaveOK
  <2> QED BY <1>begin, <2>5, <2>7, <2>8 DEF Loaded
<1>2. CASE Write(w)
  <2>1. file[w] = dir["tmp"] /\ Entry(dir, "tmp")
    BY <1>0, <1>2 DEF Write, SaveOK
  <2>2. \A d \in survivors : d["path"] # file[w]
    BY <1>0, <2>1
  <2>3. \A j \in Inodes \ {file[w]} : content'[j] = content[j]
    BY <1>0, <1>2 DEF Write
  <2>4. \A d \in survivors : LoadedFrom(d)' = LoadedFrom(d)
    BY <1>quiet, <2>2, <2>3
  <2>5. UNCHANGED <<dir, survivors, value>>
    BY <1>2 DEF Write
  <2> QED BY <1>0, <1>val, <2>4, <2>5 DEF Loaded, Older
<1>3. CASE Sync(w)
  BY <1>3, <1>val DEF Sync, Loaded, LoadedFrom, Older
<1>4. CASE Remove(w)
  <2>1. BeingSaved # {} /\ BeingSaved' = BeingSaved
    BY <1>0, <1>4, <1>val, StateFileAssumption DEF Remove, SaveOK
  <2>2. CASE UNCHANGED <<dir, survivors>>
    BY <1>4, <2>1, <2>2 DEF Remove, Loaded, LoadedFrom, Older
  <2>3. CASE ChangeDir([dir EXCEPT !["path"] = Absent])
    <3>1. LoadedFrom([dir EXCEPT !["path"] = Absent]) = Absent
      BY <1>0 DEF LoadedFrom, DirOK, Names
    <3>2. Loaded' = Absent /\ Older' \in {{Absent}, Older \union {Absent}}
      BY <1>0, <1>4, <2>3, <3>1, DirChanges DEF Remove
    <3> QED BY <1>lose, <2>1, <3>2
  <2> QED BY <1>4, <2>2, <2>3 DEF Remove
<1>5. CASE Rename(w)
  <2> DEFINE d == [n \in Names |-> IF n = "path" THEN dir["tmp"] ELSE Absent]
  <2>1. value[w] \in BeingSaved /\ BeingSaved' = {}
    BY <1>0, <1>5, <1>val, StateFileAssumption DEF Rename, SaveOK
  <2>2. LoadedFrom(d) = value[w]
    BY <1>0, <1>5, <1>val DEF Rename, LoadedFrom, Names, SaveOK
  <2>3. ChangeDir(d) /\ UNCHANGED content
    BY <1>5 DEF Rename
  <2> HIDE DEF d
  <2>4. Loaded' = value[w] /\ Older' \in {{value[w]}, Older \union {value[w]}}
    BY <1>0, <2>2, <2>3, DirChanges
  <2> QED BY <1>replace, <2>1, <2>4
<1>6. CASE Fail(w)
  <2>1. BeingSaved # {} /\ BeingSaved' = {}
    BY <1>0, <1>6, <1>val, StateFileAssumption DEF Fail, SaveOK
  <2> QED BY <1>6, <1>end, <2>1 DEF Fail, Loaded, LoadedFrom, Older
<1>7. CASE WriteBack
  <2>1. BeingSaved' = BeingSaved /\ UNCHANGED <<dir, content>> /\ survivors' = {dir}
    BY <1>7, <1>val DEF WriteBack
  <2> QED BY <1>settle, <2>1 DEF Loaded, LoadedFrom, Older
<1>8. CASE PowerFailure
  <2>1. /\ dir' \in survivors /\ survivors' = {dir'}
        /\ content' = [i \in Inodes |-> IF i \in synced THEN content[i] ELSE Torn]
        /\ value' = [u \in {w} |-> Absent]
    BY <1>8 DEF PowerFailure
  <2>2. LoadedFrom(dir)' = LoadedFrom(dir')
    BY <1>0, <2>1 DEF DirOK, Entry, Names, LoadedFrom
  <2>3. Loaded' \in Older /\ Older' = {Loaded'}
    BY <2>1, <2>2 DEF Loaded, Older
  <2> QED BY <1>revert, <1>val, <2>1, <2>3
<1>9. CASE UNCHANGED vars
  BY <1>9, <1>val DEF vars, Loaded, LoadedFrom, Older
<1> QED BY <1>1, <1>2, <1>3, <1>4, <1>5, <1>6, <1>7, <1>8, <1>9 DEF Next

(* A save is a step of the cell at each of its calls, or changes nothing   *)
(* of it: before the rename or after it, and after any failure, load()     *)
(* finds the old state, the new one or none, and a machine that stops      *)
(* brings back nothing the file never held.                                *)
THEOREM SaveRefinesCell ==
    ASSUME NEW w, Writers = {w}
    PROVE  Spec => RefinesCell
<1>1. Init => Cell!Init
  <2> SUFFICES ASSUME Init PROVE Cell!Init
    OBVIOUS
  <2>1. Loaded = Absent /\ Older = {Absent} /\ BeingSaved = {}
    BY DEF Init, BeingSaved, Loaded, LoadedFrom, Names, Older
  <2> QED BY <2>1 DEF Cell!Init, BeingSaved, Older
<1>2. SaveInvariant /\ SaveInvariant' /\ [Next]_vars => [Cell!Next]_<<Loaded, BeingSaved, Older>>
  BY CellStep
<1> QED BY <1>1, <1>2, SaveInvariantHolds, PTL DEF Spec, RefinesCell, Cell!Spec, BeingSaved, Older
=============================================================================
