-------------------------- MODULE CollectorProofs --------------------------
(***************************************************************************)
(* Proofs about Collector, for every value of the constants: types, the    *)
(* skips of the fast path, the state file as CursorCell, what is freed and *)
(* the cursor (PollInvariant), the promise of Delivery, the verdicts of    *)
(* the hash chain (VerdictInvariant), the numbers of the events            *)
(* (OrderInvariant) and their times (ErasInOrder, TimesAreSound), and the  *)
(* frames the fast path is decided from (FramesAreRead, ParseIsSound).     *)
(***************************************************************************)
EXTENDS CollectorTimes, CollectorProbe, AuditLogProofs, SequenceTheorems

-----------------------------------------------------------------------------
(* Type correctness.                                                       *)

(* The log only grows.                                                     *)
LogGrows == /\ Len(log') \in Nat
            /\ Len(log') >= Len(log)
            /\ \A i \in 1 .. Len(log) : log'[i] = log[i]

(* The entry recorded next is an entry, and numbered with a u16.           *)
LEMMA NextEntryType ==
    ASSUME DeviceTypeOK, NEW b \in BOOLEAN, NEW o \in BOOLEAN, NEW t \in Nat, NEW n \in Nat
    PROVE  NextEntry(b, o, t, n) \in LogEntry
<1>1. FirstItem \in Items /\ 1 \in Items
  BY DeviceAssumption, HalfAssumption DEF Items, ItemMod
<1>2. CASE Len(log) = born
  BY <1>1, <1>2 DEF NextEntry, LogEntry
<1>3. CASE Len(log) # born
  <2>1. Len(log) \in 1 .. Len(log)
    BY <1>3 DEF DeviceTypeOK
  <2>a. log[Len(log)] \in LogEntry
    BY <2>1 DEF DeviceTypeOK
  <2>2. log[Len(log)].item \in Items
    BY <2>a DEF LogEntry
  <2>3. wrapping_add(log[Len(log)].item, 1) \in Items
    BY <1>1, <2>2, WrappingType
  <2> QED BY <1>3, <2>1, <2>3 DEF NextEntry, LogEntry
<1> QED BY <1>2, <1>3

(* Recording an entry keeps the types of what it changes.                  *)
LEMMA RecordType ==
    ASSUME DeviceTypeOK, NEW f \in freed .. Len(log),
           NEW b \in BOOLEAN, NEW o \in BOOLEAN, NEW c \in BOOLEAN, NEW t \in Nat, NEW n \in Nat,
           Record(f, b, o, c, t, n)
    PROVE  /\ log' \in Seq(LogEntry)
           /\ freed' \in 0 .. Len(log')
           /\ gone' \subseteq 1 .. freed'
           /\ unlogged' \in Nat
           /\ freed' >= f
           /\ LogGrows
<1>1. NextEntry(b, o, t, n) \in LogEntry
  BY NextEntryType
<1>2. Capacity >= 1
  BY DeviceAssumption
<1>3. f \in 0 .. Len(log) /\ Len(log) \in Nat
  BY DEF DeviceTypeOK
<1>4. ASSUME log' = Append(log, NextEntry(b, o, t, n))
      PROVE  log' \in Seq(LogEntry) /\ Len(log') = Len(log) + 1 /\ LogGrows
  BY <1>1, <1>3, <1>4 DEF DeviceTypeOK, LogGrows
<1>5. CASE /\ log' = Append(log, NextEntry(b, o, t, n))
           /\ freed' = f /\ UNCHANGED <<gone, unlogged>>
  BY <1>3, <1>4, <1>5 DEF DeviceTypeOK
<1>6. CASE /\ Len(log) - f >= Capacity
           /\ log' = Append(log, NextEntry(b, o, t, n))
           /\ freed' = f + 1 /\ gone' = gone \union {f + 1} /\ UNCHANGED unlogged
  <2>1. f + 1 \in 1 .. Len(log)
    BY <1>2, <1>3, <1>6, DeviceAssumption
  <2>2. \A x \in gone' : x \in 1 .. freed'
    BY <1>3, <1>6 DEF DeviceTypeOK
  <2> QED BY <1>3, <1>4, <1>6, <2>1, <2>2 DEF DeviceTypeOK
<1>7. CASE /\ unlogged' = IF c THEN unlogged + 1 ELSE unlogged
           /\ freed' = f /\ UNCHANGED <<log, gone>>
  <2>1. LogGrows
    BY <1>3, <1>7 DEF LogGrows
  <2> QED BY <1>3, <1>7, <2>1 DEF DeviceTypeOK
<1> QED BY <1>5, <1>6, <1>7 DEF Record

(* So does a command of the collector itself.                              *)
LEMMA RecordOwnType ==
    ASSUME DeviceTypeOK, NEW cmd, NEW f \in freed .. Len(log), RecordOwn(cmd, f),
           UNCHANGED <<born, tick, boots, serial, resets, shared>>
    PROVE  DeviceTypeOK' /\ LogGrows
<1>1. CASE cmd \in Audited
  <2>1. Record(f, FALSE, TRUE, cmd = "authenticate_session", tick, boots)
    BY <1>1 DEF RecordOwn
  <2>2. (cmd = "authenticate_session") \in BOOLEAN /\ tick \in Nat /\ boots \in Nat
    BY DEF DeviceTypeOK
  <2>3. /\ log' \in Seq(LogEntry)
        /\ freed' \in 0 .. Len(log')
        /\ gone' \subseteq 1 .. freed'
        /\ unlogged' \in Nat
        /\ LogGrows
    BY <2>1, <2>2, RecordType
  <2> QED BY <2>3 DEF DeviceTypeOK, LogGrows
<1>2. CASE cmd \notin Audited
  <2>1. freed' = f /\ UNCHANGED <<log, gone, unlogged>>
    BY <1>2 DEF RecordOwn
  <2>2. LogGrows
    BY <2>1 DEF LogGrows, DeviceTypeOK
  <2> QED BY <2>1, <2>2 DEF DeviceTypeOK
<1> QED BY <1>1, <1>2

(* And so does whatever the device does on its own.                        *)
LEMMA DeviceNextType ==
    ASSUME DeviceTypeOK, DeviceNext
    PROVE  DeviceTypeOK' /\ LogGrows
<1>0. freed \in freed .. Len(log) /\ Len(log) \in Nat
  BY DEF DeviceTypeOK
<1>1. CASE AppOp
  <2>1. PICK d \in TickSteps :
          /\ Record(freed, FALSE, FALSE, FALSE, tick + d, boots)
          /\ tick' = tick + d
          /\ UNCHANGED <<born, boots, serial, resets, shared>>
    BY <1>1 DEF AppOp
  <2>2. tick + d \in Nat /\ boots \in Nat
    BY DeviceAssumption DEF DeviceTypeOK
  <2>3. /\ log' \in Seq(LogEntry)
        /\ freed' \in 0 .. Len(log')
        /\ gone' \subseteq 1 .. freed'
        /\ unlogged' \in Nat
        /\ LogGrows
    BY <1>0, <2>1, <2>2, RecordType
  <2> QED BY <2>1, <2>2, <2>3 DEF DeviceTypeOK, LogGrows
<1>2. CASE Reboot
  <2>1. PICK t \in BootTicks :
          /\ Record(freed, TRUE, FALSE, TRUE, t, boots + 1)
          /\ tick' = 0
          /\ boots' = boots + 1
          /\ UNCHANGED <<born, serial, resets, shared>>
    BY <1>2 DEF Reboot
  <2>2. t \in Nat /\ boots + 1 \in Nat
    BY DeviceAssumption DEF DeviceTypeOK
  <2>3. /\ log' \in Seq(LogEntry)
        /\ freed' \in 0 .. Len(log')
        /\ gone' \subseteq 1 .. freed'
        /\ unlogged' \in Nat
        /\ LogGrows
    BY <1>0, <2>1, <2>2, RecordType
  <2> QED BY <2>1, <2>2, <2>3 DEF DeviceTypeOK, LogGrows
<1>3. CASE OtherConsumer
  BY <1>3 DEF OtherConsumer, DeviceTypeOK, LogGrows, Buffer
<1>4. CASE Reset
  <2>1. LogGrows
    BY <1>0, <1>4 DEF Reset, LogGrows
  <2>2. \A x \in gone' : x \in 1 .. freed'
    BY <1>0, <1>4 DEF Reset, DeviceTypeOK, Buffer
  <2>3. serial' \in Serials
    BY <1>4 DEF Reset
  <2>4. freed' \in 0 .. Len(log') /\ born' \in 0 .. Len(log') /\ log' \in Seq(LogEntry)
    BY <1>0, <1>4 DEF Reset, DeviceTypeOK
  <2>5. tick' \in Nat /\ boots' \in Nat /\ unlogged' \in Nat /\ resets' \in Nat /\ shared' \in Nat
    BY <1>4 DEF Reset, DeviceTypeOK
  <2> QED BY <2>1, <2>2, <2>3, <2>4, <2>5 DEF DeviceTypeOK
<1> QED BY <1>1, <1>2, <1>3, <1>4 DEF DeviceNext

(* Ids and events of a log are ids and events of a longer one.             *)
LEMMA IdsGrow ==
    ASSUME DeviceTypeOK, LogGrows
    PROVE  Ids \subseteq Ids' /\ Events \subseteq Events'
<1>1. Len(log) \in Nat
  BY DEF DeviceTypeOK
<1>2. Ids \subseteq Ids'
  BY <1>1 DEF LogGrows, Ids
<1> QED BY <1>2 DEF Events

(* The part of TypeOK that is about the collector, and not the device.     *)
PollTypeOK ==
    /\ pc \in Steps \union {"idle"}
    /\ dry_run \in BOOLEAN
    /\ state \in DeviceStates
    /\ older \subseteq DeviceStates
    /\ disk \in older
    /\ snapshot \in Serials \union {None}
    /\ entries \subseteq Ids
    /\ gap \in Nat
    /\ lookups \in Nat
    /\ transformed.new_entries \subseteq Ids
    /\ transformed.events \subseteq Events
    /\ transformed.sequence \in Nat
    /\ transformed.boot_session \in Nat
    /\ emitted \subseteq Events
    /\ reported \in Nat
    /\ skips \in Nat

LEMMA TypeParts == TypeOK <=> DeviceTypeOK /\ PollTypeOK
BY DEF TypeOK, PollTypeOK

LEMMA DefaultStateType == DefaultState \in DeviceStates
BY DEF DefaultState, DeviceStates

LEMMA NothingTransformedType ==
    /\ NothingTransformed.new_entries = {}
    /\ NothingTransformed.events = {}
    /\ NothingTransformed.sequence = 0
    /\ NothingTransformed.boot_session = 0
BY DEF NothingTransformed

(* The end of a poll leaves only the sink, the disk and the skip count.    *)
LEMMA EndPollType ==
    ASSUME TypeOK, UNCHANGED deviceVars, EndPoll,
           older' \subseteq DeviceStates, disk' \in older',
           emitted' \subseteq Events, reported' \in Nat, skips' \in Nat
    PROVE  TypeOK'
<1>1. DeviceTypeOK'
  BY DEF TypeOK, DeviceTypeOK, deviceVars
<1>2. Events' = Events
  BY DEF Events, Ids, deviceVars
<1>3. PollTypeOK'
  <2>1. /\ transformed'.new_entries \subseteq Ids'
        /\ transformed'.events \subseteq Events'
        /\ transformed'.sequence \in Nat
        /\ transformed'.boot_session \in Nat
    BY NothingTransformedType DEF EndPoll
  <2>2. entries' \subseteq Ids'
    BY DEF EndPoll
  <2>3. state' \in DeviceStates
    BY DefaultStateType DEF EndPoll
  <2> QED BY <1>2, <2>1, <2>2, <2>3 DEF EndPoll, PollTypeOK
<1> QED BY <1>1, <1>3 DEF TypeOK, PollTypeOK

(* A step that leaves the collector alone keeps its types.                 *)
LEMMA PollUnchangedType ==
    ASSUME TypeOK, DeviceTypeOK', LogGrows, UNCHANGED <<pollVars, fileVars, sinkVars, skips>>
    PROVE  TypeOK'
<1>1. Ids \subseteq Ids' /\ Events \subseteq Events'
  BY IdsGrow DEF TypeOK
<1>2. PollTypeOK'
  BY <1>1 DEF TypeOK, PollTypeOK, pollVars, fileVars, sinkVars
<1> QED BY <1>2 DEF TypeOK, PollTypeOK

LEMMA InitType == Init => TypeOK
<1> SUFFICES ASSUME Init PROVE TypeOK
  OBVIOUS
<1>1. DeviceTypeOK
  BY DeviceAssumption DEF Init, DeviceInit, DeviceTypeOK
<1>2. PollTypeOK
  <2>1. /\ transformed.new_entries \subseteq Ids
        /\ transformed.events \subseteq Events
        /\ transformed.sequence \in Nat
        /\ transformed.boot_session \in Nat
    BY NothingTransformedType DEF Init
  <2>2. state \in DeviceStates /\ older \subseteq DeviceStates /\ disk \in older
    BY DefaultStateType DEF Init
  <2> QED BY <2>1, <2>2 DEF Init, PollTypeOK
<1> QED BY <1>1, <1>2 DEF TypeOK, PollTypeOK

LEMMA FreedByType ==
    ASSUME DeviceTypeOK, NEW item
    PROVE  FreedBy(item) \in freed .. Len(log)
<1>1. CASE \E i \in Buffer : log[i].item = item
  <2>1. FreedBy(item) \in Buffer
    BY <1>1 DEF FreedBy
  <2> QED BY <2>1 DEF Buffer, DeviceTypeOK
<1>2. CASE ~\E i \in Buffer : log[i].item = item
  BY <1>2 DEF FreedBy, DeviceTypeOK
<1> QED BY <1>1, <1>2

LEMMA NextType == TypeOK /\ [Next]_vars => TypeOK'
<1> SUFFICES ASSUME TypeOK, [Next]_vars PROVE TypeOK'
  OBVIOUS
<1> USE DEF sinkVars, fileVars
<1>0. /\ DeviceTypeOK /\ PollTypeOK
      /\ freed \in freed .. Len(log) /\ Len(log) \in Nat
  BY DEF TypeOK, PollTypeOK, DeviceTypeOK
<1>same. ASSUME UNCHANGED deviceVars
         PROVE  DeviceTypeOK' /\ Ids' = Ids /\ Events' = Events
  BY <1>0, <1>same DEF deviceVars, DeviceTypeOK, Ids, Events
<1>own. ASSUME NEW cmd, RecordOwn(cmd, freed),
               UNCHANGED <<born, tick, boots, serial, resets, shared>>
        PROVE  DeviceTypeOK' /\ LogGrows /\ Ids \subseteq Ids' /\ Events \subseteq Events'
  BY <1>0, <1>own, RecordOwnType, IdsGrow
<1>1. CASE Poll
  <2>1. state' \in DeviceStates
    BY <1>0, <1>1 DEF Poll, PollTypeOK
  <2>2. snapshot' \in Serials \union {None}
    BY <1>0, <1>1 DEF Poll, PollTypeOK, ProbeAnswers, DeviceInfo, DeviceTypeOK
  <2>3. pc' \in Steps \union {"idle"} /\ dry_run' \in BOOLEAN
    BY <1>1, CollectorAssumption DEF Poll, Steps
  <2>4. PollTypeOK'
    BY <1>0, <1>1, <1>same, <2>1, <2>2, <2>3 DEF Poll, PollTypeOK
  <2> QED BY <1>1, <1>same, <2>4, TypeParts DEF Poll, TypeOK, PollTypeOK
<1>2. CASE Skip
  <2>1. state' \in DeviceStates
    <3>1. state \in DeviceStates /\ state.polls_skipped + 1 \in Nat
      BY <1>0 DEF PollTypeOK, DeviceStates
    <3>2. state' = [state EXCEPT !.polls_skipped = state.polls_skipped + 1]
      BY <1>2 DEF Skip
    <3> QED BY <3>1, <3>2 DEF DeviceStates
  <2>2. PollTypeOK'
    BY <1>0, <1>2, <1>same, <2>1 DEF Skip, PollTypeOK, Steps
  <2> QED BY <1>2, <1>same, <2>2, TypeParts DEF Skip, TypeOK, PollTypeOK
<1>3. CASE CreateSession
  <2>1. PollTypeOK'
    BY <1>0, <1>3, <1>own DEF CreateSession, PollTypeOK, Steps
  <2> QED BY <1>3, <1>own, <2>1 DEF CreateSession, TypeOK, PollTypeOK
<1>4. CASE AuthenticateSession
  <2>1. PollTypeOK'
    BY <1>0, <1>4, <1>own DEF AuthenticateSession, PollTypeOK, Steps
  <2> QED BY <1>4, <1>own, <2>1 DEF AuthenticateSession, TypeOK, PollTypeOK
<1>5. CASE GetDeviceInfo
  <2>1. snapshot' \in Serials
    BY <1>0, <1>5 DEF GetDeviceInfo, DeviceTypeOK
  <2>2. PollTypeOK'
    BY <1>0, <1>5, <1>own, <2>1 DEF GetDeviceInfo, PollTypeOK, Steps
  <2> QED BY <1>5, <1>own, <2>2 DEF GetDeviceInfo, TypeOK, PollTypeOK
<1>6. CASE GetLogEntries
  <2>1. DeviceTypeOK' /\ Ids \subseteq Ids' /\ Events \subseteq Events'
    BY <1>6, <1>own DEF GetLogEntries
  <2>2. entries' \subseteq Ids'
    BY <1>0, <1>6, <2>1 DEF GetLogEntries, Buffer, Ids, DeviceTypeOK
  <2>3. gap' \in Nat /\ lookups' \in Nat
    BY <1>0, <1>6, CollectorAssumption DEF GetLogEntries, DeviceTypeOK
  <2>4. PollTypeOK'
    BY <1>0, <1>6, <2>1, <2>2, <2>3 DEF GetLogEntries, PollTypeOK, Steps
  <2> QED BY <2>1, <2>4 DEF TypeOK, PollTypeOK
<1>7. CASE Enrich
  <2>1. DeviceTypeOK' /\ Ids \subseteq Ids' /\ Events \subseteq Events'
    <3>1. CASE RecordOwn("list_objects", freed)
      BY <1>7, <1>own, <3>1 DEF Enrich
    <3>2. CASE UNCHANGED <<log, freed, gone, unlogged>>
      BY <1>7, <1>same, <3>2 DEF Enrich, deviceVars
    <3> QED BY <1>7, <3>1, <3>2 DEF Enrich
  <2>2. lookups' \in Nat
    BY <1>0, <1>7 DEF Enrich, PollTypeOK
  <2>3. PollTypeOK'
    BY <1>0, <1>7, <2>1, <2>2 DEF Enrich, PollTypeOK
  <2> QED BY <2>1, <2>3 DEF TypeOK, PollTypeOK
<1>8. CASE Transform
  <2>1. state.sequence \in Nat /\ state.boot_session \in Nat
    BY <1>0 DEF PollTypeOK, DeviceStates
  <2>2. entries \subseteq 1 .. Len(log)
    BY <1>0 DEF PollTypeOK, Ids
  <2>3. /\ transformed'.new_entries = select_new(log, entries, state)
        /\ transformed'.events \subseteq Events
        /\ transformed'.sequence \in Nat
        /\ transformed'.boot_session \in Nat
    <3>1. transformed' = transform(log, entries, state)
      BY <1>8 DEF Transform
    <3>3. transform(log, entries, state).new_entries = select_new(log, entries, state)
      BY DEF transform
    <3>2. /\ transform(log, entries, state).sequence \in Nat
          /\ transform(log, entries, state).boot_session \in Nat
          /\ transform(log, entries, state).events \subseteq
                [id: 1 .. Len(log), sequence: Nat, boot_session: Nat,
                 chain_status: {"ok", "mismatch", "unverified", None}]
      BY <1>0, <2>1, <2>2, TransformType
    <3> QED BY <3>1, <3>2, <3>3 DEF Events, Ids
  <2>4. transformed'.new_entries \subseteq Ids
    BY <2>2, <2>3, SelectNewSubset DEF Ids
  <2>5. PollTypeOK'
    BY <1>0, <1>8, <1>same, <2>3, <2>4 DEF Transform, PollTypeOK, Steps
  <2> QED BY <1>8, <1>same, <2>5 DEF Transform, TypeOK, PollTypeOK
<1>9. CASE Emit
  <2>1. PollTypeOK'
    BY <1>0, <1>9, <1>same DEF Emit, PollTypeOK, Steps
  <2> QED BY <1>9, <1>same, <2>1 DEF Emit, TypeOK, PollTypeOK
<1>10. CASE SetLogIndex
  <2> DEFINE last == Max(transformed.new_entries)
  <2>1. last \in Ids
    BY <1>0, <1>10, MaxFact DEF SetLogIndex, PollTypeOK, Ids
  <2>2. log[last] \in LogEntry
    BY <1>0, <2>1 DEF DeviceTypeOK, Ids
  <2>3. log[last].item \in Items /\ log[last].tick \in Nat /\ last \in Nat
    BY <2>1, <2>2 DEF LogEntry, Ids
  <2>4. FreedBy(log[last].item) \in freed .. Len(log)
    BY <1>0, FreedByType
  <2>5. DeviceTypeOK' /\ Ids \subseteq Ids' /\ Events \subseteq Events'
    <3>1. CASE advance_log_index
      <4>1. /\ RecordOwn("set_log_index", FreedBy(log[last].item))
            /\ UNCHANGED <<born, tick, boots, serial, resets, shared>>
        BY <1>10, <3>1 DEF SetLogIndex
      <4> QED BY <1>0, <2>4, <4>1, RecordOwnType, IdsGrow
    <3>2. CASE ~advance_log_index
      BY <1>10, <1>same, <3>2 DEF SetLogIndex, deviceVars
    <3> QED BY <3>1, <3>2
  <2>6. state' = [state EXCEPT !.last_item = log[last].item,
                               !.last_digest = last, !.last_tick = log[last].tick]
    BY <1>10 DEF SetLogIndex
  <2> HIDE DEF last
  <2>7. state' \in DeviceStates
    BY <1>0, <2>3, <2>6 DEF PollTypeOK, DeviceStates
  <2>8. PollTypeOK'
    BY <1>0, <1>10, <2>5, <2>7 DEF SetLogIndex, PollTypeOK, Steps
  <2> QED BY <2>5, <2>8 DEF TypeOK, PollTypeOK
<1>11. CASE NothingToAcknowledge
  <2>1. PollTypeOK'
    BY <1>0, <1>11, <1>same DEF NothingToAcknowledge, PollTypeOK, Steps
  <2> QED BY <1>11, <1>same, <2>1 DEF NothingToAcknowledge, TypeOK, PollTypeOK
<1>12. CASE DryRunEnds
  BY <1>0, <1>12, EndPollType DEF DryRunEnds, PollTypeOK
<1>13. CASE Commit
  <2>1. \A used \in Baselines : used \in Nat \union {None}
    <3>1. \A info \in ProbeAnswers : info.log_store_used \in Nat
      BY <1>0, DeviceAssumption DEF ProbeAnswers, DeviceInfo, log_store_used, DeviceTypeOK
    <3>2. state.last_log_store_used \in Nat \union {None}
      BY <1>0 DEF PollTypeOK, DeviceStates
    <3> QED BY <3>1, <3>2 DEF Baselines
  <2>2. state' \in DeviceStates
    <3>1. PICK used \in Baselines : state' = [state EXCEPT
                     !.last_log_store_used = used,
                     !.polls_skipped = IF fast_path_enabled THEN 0 ELSE @,
                     !.serial = IF snapshot # None THEN snapshot ELSE @,
                     !.sequence = transformed.sequence,
                     !.boot_session = transformed.boot_session]
      BY <1>13 DEF Commit
    <3>2. /\ state \in DeviceStates
          /\ (IF fast_path_enabled THEN 0 ELSE state.polls_skipped) \in Nat
          /\ (IF snapshot # None THEN snapshot ELSE state.serial) \in Serials \union {None}
      BY <1>0 DEF PollTypeOK, DeviceStates
    <3>3. used \in Nat \union {None} /\ transformed.sequence \in Nat
            /\ transformed.boot_session \in Nat
      BY <1>0, <2>1 DEF PollTypeOK
    <3>4. state' = [state EXCEPT
                     !.last_log_store_used = used,
                     !.polls_skipped = IF fast_path_enabled THEN 0 ELSE state.polls_skipped,
                     !.serial = IF snapshot # None THEN snapshot ELSE state.serial,
                     !.sequence = transformed.sequence,
                     !.boot_session = transformed.boot_session]
      BY <3>1
    <3> DEFINE skipped == IF fast_path_enabled THEN 0 ELSE state.polls_skipped
               serialOf == IF snapshot # None THEN snapshot ELSE state.serial
    <3>5. skipped \in Nat /\ serialOf \in Serials \union {None}
      BY <3>2
    <3>6. state' = [state EXCEPT
                     !.last_log_store_used = used,
                     !.polls_skipped = skipped,
                     !.serial = serialOf,
                     !.sequence = transformed.sequence,
                     !.boot_session = transformed.boot_session]
      BY <3>4
    <3> HIDE DEF skipped, serialOf
    <3> QED BY <3>2, <3>3, <3>5, <3>6 DEF DeviceStates
  <2>3. PollTypeOK'
    BY <1>0, <1>13, <1>same, <2>2 DEF Commit, PollTypeOK, Steps
  <2> QED BY <1>13, <1>same, <2>3 DEF Commit, TypeOK, PollTypeOK
<1>14. CASE SaveRemove
  <2>1. older' \subseteq DeviceStates /\ disk' \in older'
    BY <1>0, <1>14, DefaultStateType DEF SaveRemove, ChangeDisk, PollTypeOK
  <2>2. PollTypeOK'
    BY <1>0, <1>14, <1>same, <2>1 DEF SaveRemove, PollTypeOK, Steps
  <2> QED BY <1>14, <1>same, <2>2 DEF SaveRemove, TypeOK, PollTypeOK
<1>15. CASE SaveRename
  <2>1. older' \subseteq DeviceStates /\ disk' \in older'
    BY <1>0, <1>15 DEF SaveRename, ChangeDisk, PollTypeOK
  <2> QED BY <1>0, <1>15, <2>1, EndPollType DEF SaveRename, PollTypeOK
<1>16. CASE EmitFails
  <2>1. emitted' \subseteq Events
    BY <1>0, <1>16 DEF EmitFails, PollTypeOK
  <2> QED BY <1>0, <1>16, <2>1, EndPollType DEF EmitFails, PollTypeOK
<1>17. CASE Abort
  BY <1>0, <1>17, EndPollType DEF Abort, PollTypeOK
<1>18. CASE WriteBack
  <2>1. PollTypeOK'
    BY <1>0, <1>18, <1>same DEF WriteBack, pollVars, PollTypeOK
  <2> QED BY <1>18, <1>same, <2>1 DEF WriteBack, TypeOK, PollTypeOK
<1>19. CASE PowerFailure
  BY <1>0, <1>19, EndPollType DEF PowerFailure, PollTypeOK
<1>20. CASE Environment
  BY <1>0, <1>20, DeviceNextType, PollUnchangedType DEF Environment
<1>21. CASE UNCHANGED vars
  <2>1. PollTypeOK'
    BY <1>0, <1>21, <1>same DEF vars, pollVars, PollTypeOK
  <2> QED BY <1>21, <1>same, <2>1 DEF vars, TypeOK, PollTypeOK
<1> QED
  BY <1>1, <1>2, <1>3, <1>4, <1>5, <1>6, <1>7, <1>8, <1>9, <1>10, <1>11, <1>12, <1>13,
     <1>14, <1>15, <1>16, <1>17, <1>18, <1>19, <1>20, <1>21
  DEF Next, PollStep

(* Type correctness of the collector for every configuration, device,      *)
(* buffer size and item width, and however polls fail.                     *)
THEOREM TypeCorrect == Spec => []TypeOK
BY InitType, NextType, PTL DEF Spec

-----------------------------------------------------------------------------
(* The fast path has an end: SkipInvariant is inductive, so that no answer *)
(* of the unauthenticated probe and no failure of a poll keeps the         *)
(* collector from reading the log for more than force_full_poll_every      *)
(* polls.                                                                  *)

LEMMA SkipInvariantInit == Init => SkipInvariant
<1> SUFFICES ASSUME Init PROVE SkipInvariant
  OBVIOUS
<1>1. /\ pc = "idle" /\ skips = 0 /\ disk.last_log_store_used = None
      /\ \A st \in older : st.polls_skipped = 0
  BY DEF Init, DefaultState
<1> QED
  BY <1>1, CollectorAssumption
  DEF SkipInvariant, SkippingOK, ReadingOK, SavingOK, SavedOK, SkipCeiling

(* A poll that ends without saving leaves the count of skips as it was.    *)
LEMMA QuietEnd ==
    ASSUME SkipInvariant, EndPoll, UNCHANGED <<disk, skips>>, older' \subseteq older
    PROVE  SkipInvariant'
  BY DEF SkipInvariant, SkippingOK, ReadingOK, SavingOK, SavedOK, SkipCeiling, EndPoll

(* So does a step between two that matter here.                            *)
LEMMA QuietStep ==
    ASSUME SkipInvariant, UNCHANGED <<disk, skips>>, older' \subseteq older,
           \/ pc' \in {"idle", "create_session", "authenticate_session", "device_info",
                       "get_log_entries"}
           \/ /\ {pc, pc'} \subseteq {"enrich", "emit", "set_log_index", "commit"}
              /\ state'.polls_skipped = state.polls_skipped
           \/ pc' = pc /\ UNCHANGED state
    PROVE  SkipInvariant'
<1>1. SavedOK' /\ SkipCeiling'
  BY DEF SkipInvariant, SavedOK, SkipCeiling
<1>2. CASE pc' \in {"idle", "create_session", "authenticate_session", "device_info",
                    "get_log_entries"}
  BY <1>1, <1>2 DEF SkipInvariant, SkippingOK, ReadingOK, SavingOK
<1>3. CASE /\ {pc, pc'} \subseteq {"enrich", "emit", "set_log_index", "commit"}
           /\ state'.polls_skipped = state.polls_skipped
  BY <1>1, <1>3 DEF SkipInvariant, SkippingOK, ReadingOK, SavingOK
<1>4. CASE pc' = pc /\ UNCHANGED state
  BY <1>1, <1>4 DEF SkipInvariant, SkippingOK, ReadingOK, SavingOK
<1> QED BY <1>2, <1>3, <1>4

LEMMA SkipInvariantNext ==
    ASSUME TypeOK, SkipInvariant, [Next]_vars
    PROVE  SkipInvariant'
<1> USE DEF fileVars
<1>0. /\ skips \in Nat /\ force_full_poll_every \in Nat
      /\ state.polls_skipped \in Nat /\ disk.polls_skipped \in Nat
      /\ state \in DeviceStates /\ disk \in older
  BY CollectorAssumption DEF TypeOK, DeviceStates
<1>1. CASE Poll
  <2>1. UNCHANGED <<fileVars, skips>>
    BY <1>1 DEF Poll
  <2>2. CASE pc' = "create_session"
    BY <2>1, <2>2, QuietStep
  <2>3. CASE pc' # "create_session"
    <3>1. PICK info \in ProbeAnswers :
            fast_path_enabled /\ CanSkip(disk, info) /\ pc' = "skip" /\ state' = disk
      BY <1>1, <2>3 DEF Poll
    <3>2. skips <= disk.polls_skipped
      BY <3>1 DEF CanSkip, SkipInvariant, SavedOK
    <3>3. force_full_poll_every > 0 => disk.polls_skipped < force_full_poll_every
      BY <1>0, <3>1 DEF CanSkip, skip_ceiling_reached
    <3> QED
      BY <2>1, <3>1, <3>2, <3>3
      DEF SkipInvariant, SkippingOK, ReadingOK, SavingOK, SavedOK, SkipCeiling
  <2> QED BY <2>2, <2>3
<1>2. CASE Skip
  <2>1. /\ UNCHANGED <<fileVars, skips>> /\ pc' = "save"
        /\ state'.polls_skipped = state.polls_skipped + 1
    BY <1>0, <1>2 DEF Skip, DeviceStates
  <2>2. /\ fast_path_enabled
        /\ skips <= state.polls_skipped
        /\ force_full_poll_every > 0 => state.polls_skipped < force_full_poll_every
    BY <1>2 DEF Skip, SkipInvariant, SkippingOK
  <2>3. SavingOK'
    BY <1>0, <2>1, <2>2 DEF SavingOK
  <2> QED BY <2>1, <2>3 DEF SkipInvariant, SkippingOK, ReadingOK, SavedOK, SkipCeiling
<1>3. CASE CreateSession \/ AuthenticateSession \/ GetDeviceInfo
  BY <1>3, QuietStep DEF CreateSession, AuthenticateSession, GetDeviceInfo
<1>4. CASE GetLogEntries
  <2>1. UNCHANGED fileVars /\ skips' = 0 /\ pc' = "enrich" /\ state' = disk
    BY <1>4 DEF GetLogEntries
  <2> QED
    BY <1>0, <2>1 DEF SkipInvariant, SkippingOK, ReadingOK, SavingOK, SavedOK, SkipCeiling
<1>5. CASE Enrich \/ Transform \/ Emit
  BY <1>5, QuietStep DEF Enrich, Transform, Emit
<1>6. CASE SetLogIndex
  <2>1. state'.polls_skipped = state.polls_skipped
    BY <1>0, <1>6 DEF SetLogIndex, DeviceStates
  <2> QED BY <1>6, <2>1, QuietStep DEF SetLogIndex
<1>7. CASE NothingToAcknowledge
  BY <1>7, QuietStep DEF NothingToAcknowledge
<1>8. CASE DryRunEnds \/ EmitFails \/ Abort
  BY <1>8, QuietEnd DEF DryRunEnds, EmitFails, Abort
<1>9. CASE Commit
  <2>1. /\ UNCHANGED <<fileVars, skips>> /\ pc' = "save" /\ pc = "commit"
        /\ state'.polls_skipped = IF fast_path_enabled THEN 0 ELSE state.polls_skipped
    BY <1>0, <1>9 DEF Commit, DeviceStates
  <2>2. SavingOK'
    BY <2>1 DEF SkipInvariant, ReadingOK, SavingOK
  <2> QED BY <2>1, <2>2 DEF SkipInvariant, SkippingOK, ReadingOK, SavedOK, SkipCeiling
<1>10. CASE SaveRemove
  <2>1. /\ UNCHANGED <<state, skips>> /\ pc = "save" /\ pc' = "rename"
        /\ disk'.last_log_store_used = None
        /\ \A st \in older' : st \in older \/ st.polls_skipped = 0
    BY <1>10 DEF SaveRemove, ChangeDisk, DefaultState
  <2> QED
    BY <2>1 DEF SkipInvariant, SkippingOK, ReadingOK, SavingOK, SavedOK, SkipCeiling
<1>11. CASE SaveRename
  <2>1. /\ pc = "rename" /\ pc' = "idle" /\ disk' = state
        /\ older' \subseteq older \union {state}
        /\ skips' = IF state.polls_skipped > 0 THEN skips + 1 ELSE skips
    BY <1>11 DEF SaveRename, ChangeDisk, EndPoll
  <2>2. SavingOK
    BY DEF SkipInvariant
  <2>3. SavedOK'
    BY <1>0, <2>1, <2>2 DEF SavingOK, SkipInvariant, SavedOK
  <2>4. SkipCeiling'
    BY <1>0, <2>1, <2>2 DEF SavingOK, SkipCeiling
  <2> QED BY <2>1, <2>3, <2>4 DEF SkipInvariant, SkippingOK, ReadingOK, SavingOK
<1>12. CASE WriteBack
  BY <1>0, <1>12, QuietStep DEF WriteBack, pollVars
<1>13. CASE PowerFailure
  <2>1. /\ pc' = "idle" /\ skips' = 0 /\ disk' \in older /\ older' = {disk'}
    BY <1>13 DEF PowerFailure, EndPoll
  <2>2. disk'.polls_skipped \in Nat
    BY <2>1 DEF TypeOK, DeviceStates
  <2> QED
    BY <1>0, <2>1, <2>2
    DEF SkipInvariant, SkippingOK, ReadingOK, SavingOK, SavedOK, SkipCeiling
<1>14. CASE Environment
  BY <1>14, QuietStep DEF Environment, pollVars
<1>15. CASE UNCHANGED vars
  BY <1>15, QuietStep DEF vars, pollVars
<1> QED
  BY <1>1, <1>2, <1>3, <1>4, <1>5, <1>6, <1>7, <1>8, <1>9, <1>10, <1>11, <1>12, <1>13,
     <1>14, <1>15
  DEF Next, PollStep

(* SkipInvariant holds throughout, for every configuration, whatever the   *)
(* probe answers, however polls fail and however often the device is reset *)
(* or replaced and the machine stops.                                      *)
THEOREM SkipInvariantHolds == Spec => []SkipInvariant
<1>1. TypeOK /\ SkipInvariant /\ [Next]_vars => SkipInvariant'
  BY SkipInvariantNext
<1> QED BY <1>1, SkipInvariantInit, TypeCorrect, PTL DEF Spec

(* try_fast_path() answers at most force_full_poll_every polls in a row    *)
(* without looking at the log, as long as the machine does not stop.       *)
THEOREM SkipsAreBounded == Spec => []SkipCeiling
<1>1. SkipInvariant => SkipCeiling
  BY DEF SkipInvariant
<1> QED BY <1>1, SkipInvariantHolds, PTL

-----------------------------------------------------------------------------
(* The state file is the cell CursorCell.                                  *)

BeingSaved == IF pc \in {"save", "rename"} THEN {state} ELSE {}

LEMMA DiskStep ==
    ASSUME TypeOK, TypeOK', [Next]_vars
    PROVE  [Cell!Next]_<<disk, BeingSaved, older>>
<1> USE DEF Cell!Next, fileVars
<1>quiet. ASSUME UNCHANGED fileVars, pc \notin {"save", "rename"}, pc' \notin {"save", "rename"}
          PROVE  UNCHANGED <<disk, BeingSaved, older>>
  BY <1>quiet DEF BeingSaved
<1>begin. ASSUME pc \notin {"save", "rename"}, pc' = "save", UNCHANGED fileVars
          PROVE  Cell!Begin
  BY <1>begin DEF Cell!Begin, TypeOK
<1>change. ASSUME NEW st, ChangeDisk(st)
           PROVE  disk' = st /\ older' \in {{st}, older \union {st}}
  BY <1>change DEF ChangeDisk
<1>1. CASE Poll \/ CreateSession \/ AuthenticateSession \/ GetDeviceInfo \/ GetLogEntries
           \/ Enrich \/ Transform \/ Emit \/ SetLogIndex \/ NothingToAcknowledge
  BY <1>1, <1>quiet DEF Poll, CreateSession, AuthenticateSession, GetDeviceInfo, GetLogEntries,
     Enrich, Transform, Emit, SetLogIndex, NothingToAcknowledge
<1>2. CASE DryRunEnds \/ EmitFails
  BY <1>2, <1>quiet DEF DryRunEnds, EmitFails, EndPoll
<1>3. CASE Skip \/ Commit
  BY <1>3, <1>begin DEF Skip, Commit
<1>4. CASE SaveRemove
  <2>1. pc = "save" /\ pc' = "rename" /\ state' = state /\ disk' = DefaultState
        /\ older' \in {{DefaultState}, older \union {DefaultState}}
    BY <1>4, <1>change DEF SaveRemove
  <2> QED BY <2>1 DEF Cell!Lose, Cell!Becomes
<1>5. CASE SaveRename
  <2>1. pc = "rename" /\ pc' = "idle" /\ disk' = state
        /\ older' \in {{state}, older \union {state}}
    BY <1>5, <1>change DEF SaveRename, EndPoll
  <2> QED BY <2>1 DEF Cell!Replace, Cell!Becomes
<1>6. CASE Abort
  <2>1. CASE pc \in {"save", "rename"}
    BY <1>6, <2>1 DEF Abort, EndPoll, Cell!End
  <2>2. CASE pc \notin {"save", "rename"}
    BY <1>6, <2>2, <1>quiet DEF Abort, EndPoll
  <2> QED BY <2>1, <2>2
<1>7. CASE WriteBack
  BY <1>7 DEF WriteBack, pollVars, Cell!Settle
<1>8. CASE PowerFailure
  BY <1>8 DEF PowerFailure, EndPoll, Cell!Revert
<1>9. CASE Environment \/ UNCHANGED vars
  BY <1>9 DEF Environment, vars, pollVars, BeingSaved
<1> QED BY <1>1, <1>2, <1>3, <1>4, <1>5, <1>6, <1>7, <1>8, <1>9 DEF Next, PollStep

(* Seen from the file, a poll is a save of one complete state or nothing:  *)
(* whatever ends a poll early, the file keeps its content, and a machine   *)
(* that stops brings back only what the file once held.                    *)
THEOREM DiskRefinesCell == Spec => DiskIsCell
<1>1. Init => Cell!Init
  BY DEF Init, Cell!Init
<1>2. TypeOK /\ TypeOK' /\ [Next]_vars => [Cell!Next]_<<disk, BeingSaved, older>>
  BY DiskStep
<1> QED BY <1>1, <1>2, TypeCorrect, PTL DEF Spec, DiskIsCell, Cell!Spec, BeingSaved

-----------------------------------------------------------------------------
(* The collector never frees, and never steps its cursor over, an entry it *)
(* has not delivered: PollInvariant is inductive between factory resets,   *)
(* as long as the cursor stays within half the range of the item number.   *)

(* Item numbers keep measuring distances when an entry is recorded.        *)
LEMMA AppendKeepsOrder ==
    ASSUME DeviceTypeOK, born = 0, ItemsInOrder,
           NEW b \in BOOLEAN, NEW o \in BOOLEAN, NEW t \in Nat, NEW n \in Nat,
           log' = Append(log, NextEntry(b, o, t, n))
    PROVE  ItemsInOrder'
<1> DEFINE k == Len(log)
<1>1. k \in Nat /\ Len(log') = k + 1 /\ Ids = 1 .. k /\ Ids' = 1 .. (k + 1)
  BY DEF DeviceTypeOK, Ids
<1>2. \A i \in 1 .. k : log'[i] = log[i]
  BY DEF DeviceTypeOK
<1>3. log'[k + 1] = NextEntry(b, o, t, n)
  BY DEF DeviceTypeOK
<1>4. \A i \in 1 .. k : log[i].item \in Items
  <2>1. \A i \in 1 .. k : log[i] \in LogEntry
    BY DEF DeviceTypeOK
  <2> QED BY <2>1 DEF LogEntry
<1>5. log'[k + 1].item \in Items
  BY <1>3, NextEntryType DEF LogEntry
<1> HIDE DEF k
<1> SUFFICES ASSUME NEW i \in 1 .. (k + 1), NEW j \in 1 .. (k + 1), i <= j, j - i < ItemMod
             PROVE  wrapping_sub(log'[j].item, log'[i].item) = j - i
  BY <1>1 DEF ItemsInOrder
<1>6. CASE j <= k
  BY <1>1, <1>2, <1>6 DEF ItemsInOrder
<1>7. CASE j = k + 1 /\ i = k + 1
  <2>1. log'[j].item = log'[k + 1].item /\ log'[i].item = log'[k + 1].item /\ j - i = 0
    BY <1>1, <1>7
  <2>2. wrapping_sub(log'[k + 1].item, log'[k + 1].item) = 0
    BY <1>5, WrappingSelf
  <2> QED BY <2>1, <2>2
<1>8. CASE j = k + 1 /\ i <= k
  <2>1. k \in 1 .. k /\ i \in 1 .. k /\ i <= k /\ k - i < ItemMod /\ k - i < ItemMod - 1
    BY <1>1, <1>8, HalfAssumption DEF ItemMod
  <2>2. wrapping_sub(log[k].item, log[i].item) = k - i
    BY <1>1, <2>1 DEF ItemsInOrder
  <2>3. log'[k + 1].item = wrapping_add(log[k].item, 1)
    BY <1>3, <2>1 DEF NextEntry, k
  <2>4. wrapping_sub(wrapping_add(log[k].item, 1), log[i].item) = (k - i) + 1
    BY <1>4, <2>1, <2>2, WrappingSucc
  <2> QED BY <1>1, <1>2, <1>8, <2>1, <2>3, <2>4
<1> QED BY <1>1, <1>6, <1>7, <1>8

(* Recording an entry after everything up to f may go loses nothing.       *)
LEMMA RecordKeeps ==
    ASSUME DeviceTypeOK, OneLife, ItemsInOrder,
           NEW f \in freed .. Len(log), 1 .. f \subseteq Done,
           NEW b \in BOOLEAN, NEW o \in BOOLEAN, NEW c \in BOOLEAN, NEW t \in Nat, NEW n \in Nat,
           Record(f, b, o, c, t, n), UNCHANGED <<emitted>>
    PROVE  ItemsInOrder' /\ NothingLost' /\ gone \subseteq gone' /\ LogGrows
<1>1. LogGrows
  BY RecordType
<1>2. ItemsInOrder'
  <2>1. CASE log' = Append(log, NextEntry(b, o, t, n))
    BY <2>1, AppendKeepsOrder DEF OneLife
  <2>2. CASE log' = log
    BY <2>2 DEF ItemsInOrder, Ids
  <2> QED BY <2>1, <2>2 DEF Record
<1>3. Delivered' = Delivered
  BY DEF Delivered
<1>4. f \in Nat
  BY DEF DeviceTypeOK
<1>5. gone \subseteq gone' /\ \A e \in 1 .. freed' : e \in Delivered \union gone'
  <2>1. CASE freed' = f /\ gone' = gone
    BY <2>1 DEF Done
  <2>2. CASE freed' = f + 1 /\ gone' = gone \union {f + 1}
    BY <1>4, <2>2 DEF Done
  <2> QED BY <2>1, <2>2 DEF Record
<1> QED BY <1>1, <1>2, <1>3, <1>5 DEF NothingLost

LEMMA RecordOwnKeeps ==
    ASSUME DeviceTypeOK, OneLife, ItemsInOrder,
           NEW cmd, NEW f \in freed .. Len(log), 1 .. f \subseteq Done,
           RecordOwn(cmd, f), UNCHANGED <<emitted>>
    PROVE  ItemsInOrder' /\ NothingLost' /\ gone \subseteq gone' /\ LogGrows
<1>1. CASE cmd \in Audited
  <2>1. Record(f, FALSE, TRUE, cmd = "authenticate_session", tick, boots)
    BY <1>1 DEF RecordOwn
  <2>2. (cmd = "authenticate_session") \in BOOLEAN /\ tick \in Nat /\ boots \in Nat
    BY DEF DeviceTypeOK
  <2> QED BY <2>1, <2>2, RecordKeeps
<1>2. CASE cmd \notin Audited
  <2>1. freed' = f /\ UNCHANGED <<log, gone>>
    BY <1>2 DEF RecordOwn
  <2>2. ItemsInOrder'
    BY <2>1 DEF ItemsInOrder, Ids
  <2>3. NothingLost'
    BY <2>1 DEF NothingLost, Done, Delivered
  <2>4. LogGrows
    BY <2>1 DEF LogGrows, DeviceTypeOK
  <2> QED BY <2>1, <2>2, <2>3, <2>4
<1> QED BY <1>1, <1>2

(* What the device does on its own takes nothing from the collector that   *)
(* is not accounted for.                                                   *)
LEMMA DeviceNextKeeps ==
    ASSUME MaxResets = 0, DeviceTypeOK, OneLife, ItemsInOrder, NothingLost,
           DeviceNext, UNCHANGED <<emitted>>
    PROVE  OneLife' /\ ItemsInOrder' /\ NothingLost' /\ gone \subseteq gone' /\ LogGrows
<1>0. freed \in freed .. Len(log) /\ freed \in Nat /\ Len(log) \in Nat /\ 1 .. freed \subseteq Done
  BY DEF DeviceTypeOK, NothingLost, Done
<1>1. CASE AppOp
  <2>1. PICK d \in TickSteps :
          /\ Record(freed, FALSE, FALSE, FALSE, tick + d, boots)
          /\ UNCHANGED <<born, resets>>
    BY <1>1 DEF AppOp
  <2>2. tick + d \in Nat /\ boots \in Nat
    BY DeviceAssumption DEF DeviceTypeOK
  <2>3. ItemsInOrder' /\ NothingLost' /\ gone \subseteq gone' /\ LogGrows
    BY <1>0, <2>1, <2>2, RecordKeeps
  <2> QED BY <2>1, <2>3 DEF OneLife
<1>2. CASE Reboot
  <2>1. PICK t \in BootTicks :
          /\ Record(freed, TRUE, FALSE, TRUE, t, boots + 1)
          /\ UNCHANGED <<born, resets>>
    BY <1>2 DEF Reboot
  <2>2. t \in Nat /\ boots + 1 \in Nat
    BY DeviceAssumption DEF DeviceTypeOK
  <2>3. ItemsInOrder' /\ NothingLost' /\ gone \subseteq gone' /\ LogGrows
    BY <1>0, <2>1, <2>2, RecordKeeps
  <2> QED BY <2>1, <2>3 DEF OneLife
<1>3. CASE OtherConsumer
  <2>1. PICK i \in Buffer : freed' = i /\ gone' = gone \union ((freed + 1) .. i)
    BY <1>3 DEF OtherConsumer
  <2>2. UNCHANGED <<log, born, resets>>
    BY <1>3 DEF OtherConsumer
  <2>3. ItemsInOrder' /\ OneLife'
    BY <2>2 DEF ItemsInOrder, Ids, OneLife
  <2>4. LogGrows
    BY <1>0, <2>2 DEF LogGrows
  <2>5. \A e \in 1 .. freed' : e \in Delivered \union gone'
    BY <1>0, <2>1 DEF Done, Buffer
  <2>6. Delivered' = Delivered
    BY DEF Delivered
  <2> QED BY <2>1, <2>3, <2>4, <2>5, <2>6 DEF NothingLost
<1>4. CASE Reset
  BY <1>4 DEF Reset, OneLife
<1> QED BY <1>1, <1>2, <1>3, <1>4 DEF DeviceNext

(* Of two different entries less than half the range apart, is_newer()     *)
(* names the later one.                                                    *)
LEMMA NewerInWindow ==
    ASSUME DeviceTypeOK, ItemsInOrder, NEW c \in Ids, NEW e \in Ids, c < e, e - c < Half
    PROVE  /\ is_newer(log[e].item, log[c].item)
           /\ log[e].item # log[c].item
<1>1. c <= e /\ e - c < ItemMod /\ e - c > 0 /\ e - c \in Nat
  BY HalfAssumption DEF Ids, ItemMod, DeviceTypeOK
<1>2. wrapping_sub(log[e].item, log[c].item) = e - c
  BY <1>1 DEF ItemsInOrder
<1>3. log[c] \in LogEntry /\ log[e] \in LogEntry
  BY DEF DeviceTypeOK, Ids
<1>4. log[c].item \in Int
  BY <1>3 DEF LogEntry, Items
<1>5. log[e].item # log[c].item
  BY <1>1, <1>2, <1>4 DEF wrapping_sub
<1> QED BY <1>2, <1>5 DEF is_newer

(* select_new() passes over nothing that is still owed.                    *)
LEMMA SelectCovers ==
    ASSUME TypeOK, ItemsInOrder, CursorOK(state), BatchOK,
           state.last_digest # None => Len(log) - state.last_digest < Half,
           NEW x \in select_new(log, entries, state), NEW e \in 1 .. x
    PROVE  e \in select_new(log, entries, state) \union Done
<1>1. x \in entries /\ entries \subseteq Ids
  BY SelectNewSubset DEF TypeOK
<1>2. e \in Ids
  BY <1>1 DEF Ids, TypeOK, DeviceTypeOK
<1>3. CASE e \notin entries
  BY <1>1, <1>3 DEF BatchOK
<1>4. CASE e \in entries /\ state.last_item = None
  BY <1>4 DEF select_new
<1>5. CASE e \in entries /\ state.last_item # None
  <2> DEFINE c == state.last_digest
  <2>1. /\ c \in Ids
        /\ state.last_item = log[c].item
        /\ 1 .. c \subseteq Done
    BY <1>5 DEF CursorOK
  <2>2. c # None /\ c \in Nat
    BY <2>1, NoneAssumption DEF Ids, TypeOK, DeviceTypeOK
  <2>3. CASE e <= c
    BY <1>2, <2>1, <2>2, <2>3 DEF Ids
  <2>4. CASE c < e
    <3>1. e - c < Half
      <4>1. Len(log) \in Nat /\ e \in Nat /\ e <= Len(log)
        BY <1>2 DEF Ids, TypeOK, DeviceTypeOK
      <4>2. Len(log) - c < Half
        BY <2>2
      <4> QED BY <2>2, <4>1, <4>2, HalfAssumption
    <3>2. is_newer(log[e].item, log[c].item)
      BY <1>2, <2>1, <2>4, <3>1, NewerInWindow DEF TypeOK
    <3>3. c # e
      BY <2>2, <2>4
    <3> QED BY <1>5, <2>1, <3>2, <3>3 DEF select_new
  <2>5. e \in Nat
    BY <1>2 DEF Ids
  <2> QED BY <2>2, <2>3, <2>4, <2>5
<1> QED BY <1>3, <1>4, <1>5

(* set_log_index(item of last) frees nothing after last.                   *)
LEMMA FreesUpTo ==
    ASSUME DeviceTypeOK, ItemsInOrder, NEW last \in Ids, Len(log) - last < Half
    PROVE  FreedBy(log[last].item) <= last \/ FreedBy(log[last].item) = freed
<1>1. last \in Nat /\ Len(log) \in Nat /\ freed \in Nat
  BY DEF Ids, DeviceTypeOK
<1>2. CASE \E i \in Buffer : log[i].item = log[last].item
  <2> DEFINE i == FreedBy(log[last].item)
  <2>1. i \in Buffer /\ log[i].item = log[last].item
    BY <1>2 DEF FreedBy
  <2> HIDE DEF i
  <2>2. i \in Ids /\ i \in Nat /\ i <= Len(log)
    BY <1>1, <2>1 DEF Buffer, Ids
  <2>3. ~(last < i)
    <3> SUFFICES ASSUME last < i PROVE FALSE
      OBVIOUS
    <3>1. i - last < Half
      BY <1>1, <2>2, HalfAssumption
    <3> QED BY <2>1, <2>2, <3>1, NewerInWindow
  <2>4. i <= last
    BY <1>1, <2>2, <2>3
  <2> QED BY <2>4 DEF i
<1>3. CASE ~\E i \in Buffer : log[i].item = log[last].item
  BY <1>3 DEF FreedBy
<1> QED BY <1>2, <1>3

(* So nothing that is still owed is freed.                                 *)
LEMMA AckFreesDone ==
    ASSUME TypeOK, ItemsInOrder, NothingLost, NEW last \in Ids, 1 .. last \subseteq Done,
           Len(log) - last < Half
    PROVE  1 .. FreedBy(log[last].item) \subseteq Done
<1>1. last \in Nat /\ FreedBy(log[last].item) \in Nat
  BY FreedByType DEF Ids, TypeOK, DeviceTypeOK
<1>2. FreedBy(log[last].item) <= last \/ FreedBy(log[last].item) = freed
  BY FreesUpTo DEF TypeOK
<1>3. CASE FreedBy(log[last].item) <= last
  BY <1>1, <1>3
<1>4. CASE FreedBy(log[last].item) = freed
  BY <1>4 DEF NothingLost, Done
<1> QED BY <1>2, <1>3, <1>4

(* What stays true when the log grows and more entries are accounted for.  *)
LEMMA Monotone ==
    ASSUME DeviceTypeOK, LogGrows, gone \subseteq gone', Delivered \subseteq Delivered'
    PROVE  /\ Done \subseteq Done'
           /\ SavedCursorsOK /\ older' \subseteq older => SavedCursorsOK'
           /\ CursorOK(state) /\ UNCHANGED state => CursorOK(state)'
           /\ SavedCursorsOK /\ state' \in older => CursorOK(state)'
           /\ BatchOK /\ UNCHANGED entries => BatchOK'
           /\ NewOK /\ UNCHANGED transformed => NewOK'
<1>1. Done \subseteq Done'
  BY DEF Done
<1>2. Ids \subseteq Ids' /\ \A i \in Ids : log'[i] = log[i]
  BY IdsGrow DEF LogGrows, Ids
<1>3. SavedCursorsOK /\ older' \subseteq older => SavedCursorsOK'
  BY <1>1, <1>2 DEF SavedCursorsOK, CursorOK
<1>4. CursorOK(state) /\ UNCHANGED state => CursorOK(state)'
  BY <1>1, <1>2 DEF CursorOK
<1>5. SavedCursorsOK /\ state' \in older => CursorOK(state)'
  BY <1>1, <1>2 DEF SavedCursorsOK, CursorOK
<1>6. BatchOK /\ UNCHANGED entries => BatchOK'
  BY <1>1 DEF BatchOK
<1>7. NewOK /\ UNCHANGED transformed => NewOK'
  BY <1>1 DEF NewOK
<1> QED BY <1>1, <1>3, <1>4, <1>5, <1>6, <1>7

LEMMA PollInvariantInit == Init => PollInvariant
<1> SUFFICES ASSUME Init PROVE PollInvariant
  OBVIOUS
<1>1. OneLife /\ ItemsInOrder /\ NothingLost
  BY DEF Init, DeviceInit, OneLife, ItemsInOrder, NothingLost, Ids
<1>2. SavedCursorsOK /\ CursorOK(state)
  BY DEF Init, DefaultState, CursorOK, SavedCursorsOK
<1>3. BatchOK /\ NewOK /\ EventsOK /\ FlushedOK
  BY NothingTransformedType DEF Init, BatchOK, NewOK, EventsOK, FlushedOK
<1> QED BY <1>1, <1>2, <1>3 DEF PollInvariant

(* The end of a poll keeps the invariant if what it saves is sound.        *)
LEMMA EndPollKeeps ==
    ASSUME TypeOK, PollInvariant, EndPoll, UNCHANGED deviceVars,
           emitted \subseteq emitted', older' \subseteq older \union {state}
    PROVE  PollInvariant'
<1>1. /\ LogGrows
      /\ UNCHANGED <<log, freed, gone, born, resets>>
  BY DEF deviceVars, LogGrows, TypeOK, DeviceTypeOK
<1>2. Delivered \subseteq Delivered'
  BY DEF Delivered
<1>3. Done \subseteq Done'
  BY <1>1, <1>2 DEF Done
<1>4. OneLife' /\ ItemsInOrder' /\ NothingLost'
  BY <1>1, <1>2 DEF PollInvariant, OneLife, ItemsInOrder, NothingLost, Ids
<1>5. SavedCursorsOK'
  BY <1>1, <1>2, <1>3 DEF PollInvariant, SavedCursorsOK, CursorOK, Ids
<1>6. CursorOK(state)'
  BY DEF EndPoll, DefaultState, CursorOK
<1>7. BatchOK' /\ NewOK' /\ EventsOK' /\ FlushedOK'
  BY NothingTransformedType DEF EndPoll, BatchOK, NewOK, EventsOK, FlushedOK
<1> QED BY <1>4, <1>5, <1>6, <1>7 DEF PollInvariant

LEMMA PollInvariantNext ==
    ASSUME MaxResets = 0, TypeOK, InWindow, PollInvariant, [Next]_vars
    PROVE  PollInvariant'
<1> USE DEF sinkVars, fileVars
<1>0. /\ DeviceTypeOK /\ OneLife /\ ItemsInOrder /\ NothingLost
      /\ SavedCursorsOK /\ CursorOK(state) /\ BatchOK /\ NewOK /\ EventsOK /\ FlushedOK
      /\ freed \in freed .. Len(log) /\ 1 .. freed \subseteq Done
      /\ disk \in older
  BY DEF TypeOK, DeviceTypeOK, PollInvariant, NothingLost, Done
(* A step that touches neither the device nor the sink.                    *)
<1>same. ASSUME UNCHANGED deviceVars, UNCHANGED emitted
         PROVE  /\ OneLife' /\ ItemsInOrder' /\ NothingLost' /\ LogGrows
                /\ gone \subseteq gone' /\ Delivered \subseteq Delivered'
                /\ log' = log /\ Done' = Done
  <2>1. UNCHANGED <<log, freed, gone, born, resets, emitted>>
    BY <1>same DEF deviceVars
  <2>2. OneLife' /\ ItemsInOrder' /\ NothingLost'
    BY <1>0, <2>1 DEF OneLife, ItemsInOrder, NothingLost, Ids, Delivered
  <2>3. LogGrows
    BY <1>0, <2>1 DEF LogGrows, DeviceTypeOK
  <2> QED BY <2>1, <2>2, <2>3 DEF Done, Delivered
(* A step that issues an audited command.                                  *)
<1>own. ASSUME NEW cmd, RecordOwn(cmd, freed), UNCHANGED <<born, resets, emitted>>
        PROVE  /\ OneLife' /\ ItemsInOrder' /\ NothingLost' /\ LogGrows
               /\ gone \subseteq gone' /\ Delivered \subseteq Delivered'
  <2>1. ItemsInOrder' /\ NothingLost' /\ gone \subseteq gone' /\ LogGrows
    BY <1>0, <1>own, RecordOwnKeeps
  <2> QED BY <1>0, <1>own, <2>1 DEF OneLife, Delivered
<1>1. CASE Poll
  <2>1. UNCHANGED <<older, entries, transformed>> /\ (state' = state \/ state' \in older)
    BY <1>0, <1>1 DEF Poll
  <2>2. FlushedOK' /\ EventsOK'
    BY <1>0, <1>1 DEF Poll, FlushedOK, EventsOK
  <2> QED BY <1>0, <1>1, <1>same, <2>1, <2>2, Monotone DEF Poll, PollInvariant
<1>2. CASE Skip
  <2>1. CursorOK(state)'
    <3>1. /\ state'.last_item = state.last_item
          /\ state'.last_digest = state.last_digest
      BY <1>2 DEF Skip, TypeOK, DeviceStates
    <3>2. log' = log /\ Done' = Done /\ Delivered' = Delivered
      BY <1>2, <1>same DEF Skip, Delivered
    <3> QED BY <1>0, <3>1, <3>2 DEF CursorOK, Ids
  <2>2. FlushedOK' /\ EventsOK'
    BY <1>0, <1>2 DEF Skip, FlushedOK, EventsOK
  <2> QED BY <1>0, <1>2, <1>same, <2>1, <2>2, Monotone DEF Skip, PollInvariant
<1>3. CASE CreateSession
  <2>1. FlushedOK' /\ EventsOK'
    BY <1>0, <1>3 DEF CreateSession, FlushedOK, EventsOK
  <2> QED BY <1>0, <1>3, <1>own, <2>1, Monotone DEF CreateSession, PollInvariant
<1>4. CASE AuthenticateSession
  <2>1. FlushedOK' /\ EventsOK'
    BY <1>0, <1>4 DEF AuthenticateSession, FlushedOK, EventsOK
  <2> QED BY <1>0, <1>4, <1>own, <2>1, Monotone DEF AuthenticateSession, PollInvariant
<1>5. CASE GetDeviceInfo
  <2>1. FlushedOK' /\ EventsOK'
    BY <1>0, <1>5 DEF GetDeviceInfo, FlushedOK, EventsOK
  <2> QED BY <1>0, <1>5, <1>own, <2>1, Monotone DEF GetDeviceInfo, PollInvariant
<1>6. CASE GetLogEntries
  <2>1. FlushedOK' /\ EventsOK'
    BY <1>0, <1>6 DEF GetLogEntries, FlushedOK, EventsOK
  <2>2. BatchOK'
    <3>1. Done \subseteq Done'
      BY <1>0, <1>6, <1>own, Monotone DEF GetLogEntries
    <3>2. entries' = Buffer
      BY <1>6 DEF GetLogEntries
    <3>3. \A x \in Buffer : 1 .. x \subseteq Buffer \union (1 .. freed)
      BY <1>0 DEF Buffer, DeviceTypeOK
    <3> QED BY <1>0, <3>1, <3>2, <3>3 DEF BatchOK
  <2> QED BY <1>0, <1>6, <1>own, <2>1, <2>2, Monotone DEF GetLogEntries, PollInvariant
<1>7. CASE Enrich
  <2>1. FlushedOK' /\ EventsOK'
    BY <1>0, <1>7 DEF Enrich, FlushedOK, EventsOK
  <2>2. CASE RecordOwn("list_objects", freed)
    BY <1>0, <1>7, <1>own, <2>1, <2>2, Monotone DEF Enrich, PollInvariant
  <2>3. CASE UNCHANGED <<log, freed, gone, unlogged>>
    <3>1. UNCHANGED deviceVars /\ UNCHANGED emitted
      BY <1>7, <2>3 DEF Enrich, deviceVars
    <3> QED BY <1>0, <1>7, <1>same, <2>1, <3>1, Monotone DEF Enrich, PollInvariant
  <2> QED BY <1>7, <2>2, <2>3 DEF Enrich
<1>8. CASE Transform
  <2>1. transformed' = transform(log, entries, state)
    BY <1>8 DEF Transform
  <2>2. transformed'.new_entries = select_new(log, entries, state)
    BY <2>1 DEF transform
  <2>3. EventsOK'
    <3>1. EventIds(transform(log, entries, state).events) = select_new(log, entries, state)
      BY EventPerEntry
    <3> QED BY <2>1, <2>2, <3>1 DEF EventsOK, EventIds
  <2>4. NewOK'
    <3>1. state.last_digest # None => Len(log) - state.last_digest < Half
      BY DEF InWindow
    <3>2. \A x \in select_new(log, entries, state) : \A e \in 1 .. x :
            e \in select_new(log, entries, state) \union Done
      BY <1>0, <3>1, SelectCovers
    <3>3. Done' = Done
      BY <1>8, <1>same DEF Transform
    <3> QED BY <2>2, <3>2, <3>3 DEF NewOK
  <2>5. FlushedOK'
    BY <1>8 DEF Transform, FlushedOK
  <2> QED BY <1>0, <1>8, <1>same, <2>3, <2>4, <2>5, Monotone DEF Transform, PollInvariant
<1>9. CASE Emit
  <2>1. /\ Delivered' = Delivered \union transformed.new_entries
        /\ Delivered \subseteq Delivered'
    BY <1>0, <1>9 DEF Emit, Delivered, EventsOK
  <2>2. UNCHANGED <<log, freed, gone, born, resets, older, state, entries, transformed>>
    BY <1>9 DEF Emit, deviceVars
  <2>3. OneLife' /\ ItemsInOrder' /\ NothingLost' /\ LogGrows
    BY <1>0, <2>1, <2>2 DEF OneLife, ItemsInOrder, NothingLost, Ids, LogGrows, DeviceTypeOK
  <2>4. FlushedOK' /\ EventsOK'
    BY <1>0, <2>1, <2>2 DEF FlushedOK, EventsOK
  <2> QED BY <1>0, <2>1, <2>2, <2>3, <2>4, Monotone DEF PollInvariant
<1>10. CASE SetLogIndex
  <2> DEFINE new == transformed.new_entries
             last == Max(new)
  <2>1. last \in new /\ last \in Ids
    <3>1. new # {} /\ new \subseteq 1 .. Len(log) /\ Len(log) \in Nat
      BY <1>0, <1>10 DEF SetLogIndex, TypeOK, Ids, DeviceTypeOK
    <3> HIDE DEF new
    <3>2. Max(new) \in new
      BY <3>1, MaxFact
    <3> QED BY <3>1, <3>2 DEF Ids
  <2>2. new \subseteq Delivered /\ 1 .. last \subseteq Done
    BY <1>0, <1>10, <2>1 DEF SetLogIndex, FlushedOK, NewOK, Done
  <2>3. state' = [state EXCEPT !.last_item = log[last].item,
                               !.last_digest = last, !.last_tick = log[last].tick]
    BY <1>10 DEF SetLogIndex
  <2>4. UNCHANGED <<born, resets, emitted, older, entries, transformed>>
    BY <1>10 DEF SetLogIndex
  <2>5. Len(log) - last < Half
    BY <2>1 DEF InWindow
  <2>6. FreedBy(log[last].item) \in freed .. Len(log) /\ 1 .. FreedBy(log[last].item) \subseteq Done
    BY <1>0, <2>1, <2>2, <2>5, FreedByType, AckFreesDone
  <2>7. OneLife' /\ ItemsInOrder' /\ NothingLost' /\ gone \subseteq gone' /\ LogGrows
    <3>1. CASE advance_log_index
      <4>1. RecordOwn("set_log_index", FreedBy(log[last].item))
        BY <1>10, <3>1 DEF SetLogIndex
      <4>2. ItemsInOrder' /\ NothingLost' /\ gone \subseteq gone' /\ LogGrows
        BY <1>0, <2>4, <2>6, <4>1, RecordOwnKeeps
      <4> QED BY <1>0, <2>4, <4>2 DEF OneLife
    <3>2. CASE ~advance_log_index
      <4>1. UNCHANGED deviceVars
        BY <1>10, <3>2 DEF SetLogIndex, deviceVars
      <4> QED BY <1>same, <2>4, <4>1
    <3> QED BY <3>1, <3>2
  <2>8. Delivered' = Delivered
    BY <2>4 DEF Delivered
  <2>10. Done \subseteq Done' /\ Ids \subseteq Ids' /\ log'[last] = log[last]
    BY <1>0, <2>1, <2>7, <2>8, IdsGrow DEF Done, LogGrows, Ids
  <2>11. state'.last_item = log[last].item /\ state'.last_digest = last
    BY <2>3 DEF TypeOK, DeviceStates
  <2>12. CursorOK(state)'
    BY <2>1, <2>2, <2>8, <2>10, <2>11 DEF CursorOK
  <2>13. FlushedOK' /\ EventsOK'
    BY <1>0, <1>10, <2>4 DEF SetLogIndex, FlushedOK, EventsOK
  <2> QED BY <1>0, <2>4, <2>7, <2>8, <2>12, <2>13, Monotone DEF PollInvariant
<1>11. CASE NothingToAcknowledge
  <2>1. FlushedOK' /\ EventsOK'
    BY <1>0, <1>11 DEF NothingToAcknowledge, FlushedOK, EventsOK
  <2> QED BY <1>0, <1>11, <1>same, <2>1, Monotone DEF NothingToAcknowledge, PollInvariant
<1>12. CASE DryRunEnds
  BY <1>12, EndPollKeeps DEF DryRunEnds
<1>13. CASE Commit
  <2>1. CursorOK(state)'
    <3>1. /\ state'.last_item = state.last_item
          /\ state'.last_digest = state.last_digest
      BY <1>13 DEF Commit, TypeOK, DeviceStates
    <3>2. log' = log /\ Done' = Done /\ Delivered' = Delivered
      BY <1>13, <1>same DEF Commit, Delivered
    <3> QED BY <1>0, <3>1, <3>2 DEF CursorOK, Ids
  <2>2. FlushedOK' /\ EventsOK'
    BY <1>0, <1>13 DEF Commit, FlushedOK, EventsOK
  <2> QED BY <1>0, <1>13, <1>same, <2>1, <2>2, Monotone DEF Commit, PollInvariant
<1>14. CASE SaveRemove
  <2>1. SavedCursorsOK'
    <3>1. older' \subseteq older \union {DefaultState}
      BY <1>14 DEF SaveRemove, ChangeDisk
    <3>2. CursorOK(DefaultState)'
      BY DEF DefaultState, CursorOK
    <3>3. log' = log /\ Done' = Done /\ Delivered' = Delivered
      BY <1>14, <1>same DEF SaveRemove, Delivered
    <3> QED BY <1>0, <3>1, <3>2, <3>3 DEF SavedCursorsOK, CursorOK, Ids
  <2>2. FlushedOK' /\ EventsOK'
    BY <1>0, <1>14 DEF SaveRemove, FlushedOK, EventsOK
  <2> QED BY <1>0, <1>14, <1>same, <2>1, <2>2, Monotone DEF SaveRemove, PollInvariant
<1>15. CASE SaveRename
  <2>1. older' \subseteq older \union {state}
    BY <1>15 DEF SaveRename, ChangeDisk
  <2> QED BY <1>15, <2>1, EndPollKeeps DEF SaveRename
<1>16. CASE EmitFails
  <2>1. emitted \subseteq emitted'
    BY <1>16 DEF EmitFails
  <2> QED BY <1>16, <2>1, EndPollKeeps DEF EmitFails
<1>17. CASE Abort
  BY <1>17, EndPollKeeps DEF Abort
<1>18. CASE WriteBack
  <2>1. older' \subseteq older /\ UNCHANGED <<deviceVars, emitted, state, entries, transformed, pc>>
    BY <1>0, <1>18 DEF WriteBack, pollVars
  <2>2. FlushedOK' /\ EventsOK'
    BY <1>0, <2>1 DEF FlushedOK, EventsOK, Delivered
  <2> QED BY <1>0, <1>same, <2>1, <2>2, Monotone DEF PollInvariant
<1>19. CASE PowerFailure
  <2>1. older' \subseteq older
    BY <1>19 DEF PowerFailure
  <2> QED BY <1>19, <2>1, EndPollKeeps DEF PowerFailure
<1>20. CASE Environment
  <2>1. UNCHANGED <<emitted, older, state, entries, transformed, pc>>
    BY <1>20 DEF Environment, pollVars
  <2>2. OneLife' /\ ItemsInOrder' /\ NothingLost' /\ gone \subseteq gone' /\ LogGrows
    BY <1>0, <1>20, <2>1, DeviceNextKeeps DEF Environment
  <2>3. Delivered' = Delivered
    BY <2>1 DEF Delivered
  <2>4. FlushedOK' /\ EventsOK'
    BY <1>0, <2>1, <2>3 DEF FlushedOK, EventsOK
  <2> QED BY <1>0, <2>1, <2>2, <2>3, <2>4, Monotone DEF PollInvariant
<1>21. CASE UNCHANGED vars
  <2>1. UNCHANGED deviceVars /\ UNCHANGED <<emitted, older, state, entries, transformed, pc>>
    BY <1>21 DEF vars, pollVars
  <2>2. FlushedOK' /\ EventsOK'
    BY <1>0, <2>1 DEF FlushedOK, EventsOK, Delivered
  <2> QED BY <1>0, <1>same, <2>1, <2>2, Monotone DEF PollInvariant
<1> QED
  BY <1>1, <1>2, <1>3, <1>4, <1>5, <1>6, <1>7, <1>8, <1>9, <1>10, <1>11, <1>12, <1>13,
     <1>14, <1>15, <1>16, <1>17, <1>18, <1>19, <1>20, <1>21
  DEF Next, PollStep

(* PollInvariant holds throughout, for every configuration, buffer size    *)
(* and item width and however polls fail, on a device that is not reset    *)
(* and as long as no cursor falls half the item range behind the device.   *)
THEOREM PollInvariantHolds ==
    ASSUME MaxResets = 0
    PROVE  Spec /\ []InWindow => []PollInvariant
<1>1. TypeOK /\ InWindow /\ PollInvariant /\ [Next]_vars => PollInvariant'
  BY PollInvariantNext
<1> QED BY <1>1, PollInvariantInit, TypeCorrect, PTL DEF Spec

(* poll_device() never makes the device drop an entry whose event has not  *)
(* reached the sink.                                                       *)
THEOREM NothingIsLost ==
    ASSUME MaxResets = 0
    PROVE  Spec /\ []InWindow => []NothingLost
<1>1. PollInvariant => NothingLost
  BY DEF PollInvariant
<1> QED BY <1>1, PollInvariantHolds, PTL

(* The saved cursor never passes an entry whose event has not reached the  *)
(* sink.                                                                   *)
THEOREM CursorIsCovered ==
    ASSUME MaxResets = 0
    PROVE  Spec /\ []InWindow => []CursorCovered
<1>1. TypeOK /\ PollInvariant => CursorCovered
  BY DEF TypeOK, PollInvariant, SavedCursorsOK, CursorOK, CursorCovered, Done
<1> QED BY <1>1, TypeCorrect, PollInvariantHolds, PTL

-----------------------------------------------------------------------------
(* The collector implements Delivery: every step of a poll and of the      *)
(* device records, delivers or releases, or changes none of the three.     *)

(* The entries the device dropped on the collector's account.              *)
Released == (1 .. freed) \ gone

(* What a recorded entry does to the released ones: overwriting the oldest *)
(* entry releases nothing.                                                 *)
LEMMA RecordReleases ==
    ASSUME DeviceTypeOK, NEW f \in freed .. Len(log),
           NEW b, NEW o, NEW c, NEW t, NEW n, Record(f, b, o, c, t, n)
    PROVE  Released' = (1 .. f) \ gone
<1>1. f \in Nat /\ gone \subseteq 1 .. freed /\ freed \in Nat /\ freed <= f
  BY DEF DeviceTypeOK
<1>2. CASE freed' = f /\ gone' = gone
  BY <1>2 DEF Released
<1>3. CASE freed' = f + 1 /\ gone' = gone \union {f + 1}
  <2>1. 1 .. freed' = (1 .. f) \union {f + 1} /\ f + 1 \notin 1 .. f
    BY <1>1, <1>3
  <2> QED BY <1>3, <2>1 DEF Released
<1> QED BY <1>2, <1>3 DEF Record

LEMMA RecordOwnReleases ==
    ASSUME DeviceTypeOK, NEW cmd, NEW f \in freed .. Len(log), RecordOwn(cmd, f)
    PROVE  Released' = (1 .. f) \ gone
<1>1. CASE cmd \in Audited
  <2>1. Record(f, FALSE, TRUE, cmd = "authenticate_session", tick, boots)
    BY <1>1 DEF RecordOwn
  <2> QED BY <2>1, RecordReleases
<1>2. CASE cmd \notin Audited
  BY <1>2 DEF RecordOwn, Released
<1> QED BY <1>1, <1>2

(* Entries never cease to have been recorded.                              *)
LEMMA OwnRecorded ==
    ASSUME DeviceTypeOK, NEW cmd, NEW f \in freed .. Len(log), RecordOwn(cmd, f)
    PROVE  Ids \subseteq Ids'
<1>1. CASE cmd \in Audited
  <2>1. Record(f, FALSE, TRUE, cmd = "authenticate_session", tick, boots)
    BY <1>1 DEF RecordOwn
  <2>2. (cmd = "authenticate_session") \in BOOLEAN /\ tick \in Nat /\ boots \in Nat
    BY DEF DeviceTypeOK
  <2>3. LogGrows
    BY <2>1, <2>2, RecordType
  <2>4. Len(log) \in Nat
    BY DEF DeviceTypeOK
  <2> QED BY <2>3, <2>4 DEF LogGrows, Ids
<1>2. CASE cmd \notin Audited
  BY <1>2 DEF RecordOwn, Ids
<1> QED BY <1>1, <1>2

(* The device on its own records, and releases nothing.                    *)
LEMMA DeviceRecords ==
    ASSUME MaxResets = 0, DeviceTypeOK, DeviceNext
    PROVE  Ids \subseteq Ids' /\ Released' = Released
<1>0. freed \in freed .. Len(log) /\ freed \in Nat /\ Len(log) \in Nat
  BY DEF DeviceTypeOK
<1>1. CASE AppOp
  <2>1. PICK d \in TickSteps : Record(freed, FALSE, FALSE, FALSE, tick + d, boots)
    BY <1>1 DEF AppOp
  <2>2. tick + d \in Nat /\ boots \in Nat
    BY DeviceAssumption DEF DeviceTypeOK
  <2>3. LogGrows
    BY <1>0, <2>1, <2>2, RecordType
  <2>4. Released' = Released
    BY <1>0, <2>1, RecordReleases DEF Released
  <2> QED BY <1>0, <2>3, <2>4 DEF LogGrows, Ids
<1>2. CASE Reboot
  <2>1. PICK t \in BootTicks : Record(freed, TRUE, FALSE, TRUE, t, boots + 1)
    BY <1>2 DEF Reboot
  <2>2. t \in Nat /\ boots + 1 \in Nat
    BY DeviceAssumption DEF DeviceTypeOK
  <2>3. LogGrows
    BY <1>0, <2>1, <2>2, RecordType
  <2>4. Released' = Released
    BY <1>0, <2>1, RecordReleases DEF Released
  <2> QED BY <1>0, <2>3, <2>4 DEF LogGrows, Ids
<1>3. CASE OtherConsumer
  <2>1. PICK i \in Buffer : freed' = i /\ gone' = gone \union ((freed + 1) .. i)
    BY <1>3 DEF OtherConsumer
  <2>2. 1 .. i = (1 .. freed) \union ((freed + 1) .. i)
    BY <1>0, <2>1 DEF Buffer
  <2>3. (1 .. freed) \intersect ((freed + 1) .. i) = {}
    BY <1>0, <2>1 DEF Buffer
  <2>4. Released' = Released
    BY <2>1, <2>2, <2>3 DEF Released
  <2>5. Ids' = Ids
    BY <1>3 DEF OtherConsumer, Ids
  <2> QED BY <2>4, <2>5
<1>4. CASE Reset
  <2>1. resets < 0 /\ resets \in Nat
    BY <1>4 DEF Reset, DeviceTypeOK
  <2> QED BY <2>1
<1> QED BY <1>1, <1>2, <1>3, <1>4 DEF DeviceNext

LEMMA StepKeepsPromise ==
    ASSUME MaxResets = 0, TypeOK, TypeOK', InWindow, PollInvariant, PollInvariant', [Next]_vars
    PROVE  [Promise!Next]_(Promise!vars)
<1> USE DEF sinkVars
<1>0. DeviceTypeOK /\ freed \in freed .. Len(log)
  BY DEF TypeOK, DeviceTypeOK
(* The three kinds of step, and the stutter.                               *)
<1>rec. ASSUME Ids \subseteq Ids', Released' = Released, UNCHANGED emitted
        PROVE  Promise!Record
  BY <1>rec DEF Promise!Record, Released, Delivered
<1>del. ASSUME UNCHANGED <<log, freed, gone>>, emitted \subseteq emitted'
        PROVE  Promise!Deliver
  <2>1. Delivered \subseteq Delivered' /\ Delivered' \subseteq Ids'
    BY <1>del DEF Delivered, TypeOK, Events
  <2> QED BY <1>del, <2>1 DEF Promise!Deliver, Ids
<1>none. ASSUME UNCHANGED <<log, freed, gone, emitted>>
         PROVE  UNCHANGED Promise!vars
  BY <1>none DEF Promise!vars, Ids, Delivered
<1>own. ASSUME NEW cmd, RecordOwn(cmd, freed), UNCHANGED emitted
        PROVE  Promise!Record
  <2>1. Released' = Released
    BY <1>0, <1>own, RecordOwnReleases DEF Released
  <2> QED BY <1>0, <1>own, <1>rec, <2>1, OwnRecorded
<1>1. CASE Poll \/ Skip \/ Transform \/ NothingToAcknowledge \/ DryRunEnds \/ Commit
           \/ SaveRemove \/ SaveRename \/ Abort \/ WriteBack \/ PowerFailure
  <2>1. UNCHANGED <<log, freed, gone, emitted>>
    BY <1>1 DEF Poll, Skip, Transform, NothingToAcknowledge, DryRunEnds, Commit,
                SaveRemove, SaveRename, Abort, WriteBack, PowerFailure, deviceVars
  <2> QED BY <2>1, <1>none
<1>2. CASE CreateSession \/ AuthenticateSession \/ GetDeviceInfo \/ GetLogEntries
  BY <1>2, <1>own DEF CreateSession, AuthenticateSession, GetDeviceInfo, GetLogEntries, Promise!Next
<1>3. CASE Enrich
  <2>1. CASE RecordOwn("list_objects", freed)
    BY <1>3, <1>own, <2>1 DEF Enrich, Promise!Next
  <2>2. CASE UNCHANGED <<log, freed, gone, unlogged>>
    BY <1>3, <1>none, <2>2 DEF Enrich
  <2> QED BY <1>3, <2>1, <2>2 DEF Enrich
<1>4. CASE Emit \/ EmitFails
  <2>1. UNCHANGED <<log, freed, gone>> /\ emitted \subseteq emitted'
    BY <1>4 DEF Emit, EmitFails, deviceVars
  <2> QED BY <2>1, <1>del DEF Promise!Next
<1>5. CASE SetLogIndex
  <2> DEFINE last == Max(transformed.new_entries)
  <2>1. CASE advance_log_index
    <3>1. RecordOwn("set_log_index", FreedBy(log[last].item)) /\ UNCHANGED emitted
      BY <1>5, <2>1 DEF SetLogIndex
    <3> DEFINE f == FreedBy(log[last].item)
    <3>2. f \in freed .. Len(log)
      BY <1>0, FreedByType
    <3> HIDE DEF f
    <3>3. Released' = (1 .. f) \ gone
      BY <1>0, <3>1, <3>2, RecordOwnReleases DEF f
    <3>4. Released \subseteq Released'
      BY <1>0, <3>2, <3>3 DEF Released, DeviceTypeOK
    <3>5. Released' \subseteq Delivered'
      BY DEF PollInvariant, NothingLost, Released
    <3>6. Delivered' = Delivered
      BY <3>1 DEF Delivered
    <3>7. Ids \subseteq Ids'
      BY <1>0, <3>1, <3>2, OwnRecorded DEF f
    <3> QED BY <3>4, <3>5, <3>6, <3>7 DEF Promise!Next, Promise!Release, Released
  <2>2. CASE ~advance_log_index
    BY <1>5, <1>none, <2>2 DEF SetLogIndex
  <2> QED BY <2>1, <2>2
<1>6. CASE Environment
  <2>1. DeviceNext /\ UNCHANGED emitted
    BY <1>6 DEF Environment
  <2>2. Ids \subseteq Ids' /\ Released' = Released
    BY <1>0, <2>1, DeviceRecords
  <2> QED BY <1>rec, <2>1, <2>2 DEF Promise!Next
<1>7. CASE UNCHANGED vars
  BY <1>7, <1>none DEF vars, deviceVars
<1> QED BY <1>1, <1>2, <1>3, <1>4, <1>5, <1>6, <1>7 DEF Next, PollStep

(* Deliver first, then release: seen from outside the collector does what  *)
(* Delivery promises, for every configuration, buffer size and item width  *)
(* and however polls fail, on a device that is not reset and as long as no *)
(* cursor falls half the item range behind the device.                     *)
THEOREM PromiseIsKept ==
    ASSUME MaxResets = 0
    PROVE  Spec /\ []InWindow => KeepsPromise
<1>1. Init => Promise!Init
  BY DEF Init, DeviceInit, Promise!Init, Ids, Delivered
<1>2. /\ TypeOK /\ TypeOK' /\ InWindow /\ PollInvariant /\ PollInvariant' /\ [Next]_vars
      => [Promise!Next]_(Promise!vars)
  BY StepKeepsPromise
<1> QED BY <1>1, <1>2, TypeCorrect, PollInvariantHolds, PTL DEF Spec, KeepsPromise, Promise!Spec

-----------------------------------------------------------------------------
(* What the collector reads it delivers before it tells the device, and no *)
(* verdict of its hash chain is wrong: VerdictInvariant is inductive       *)
(* between factory resets, when the ring buffer holds no more than half    *)
(* the range of the item number.                                           *)

(* A recorded entry is hashed over the one before it, and finds room.      *)
LEMMA RecordLinks ==
    ASSUME DeviceTypeOK, born = 0, LinksOK, RingOK,
           NEW f \in freed .. Len(log), NEW b, NEW o, NEW c, NEW t, NEW n, Record(f, b, o, c, t, n)
    PROVE  LinksOK' /\ RingOK'
<1>0. Len(log) \in Nat /\ freed \in Nat /\ f \in Nat /\ freed <= f /\ f <= Len(log)
      /\ Capacity \in Nat /\ Capacity >= 1
  BY DeviceAssumption DEF DeviceTypeOK
<1>1. ASSUME log' = Append(log, NextEntry(b, o, t, n))
      PROVE  LinksOK' /\ Len(log') = Len(log) + 1
  <2>1. /\ Len(log') = Len(log) + 1 /\ log'[Len(log) + 1] = NextEntry(b, o, t, n)
        /\ \A i \in 1 .. Len(log) : log'[i] = log[i]
    BY <1>1 DEF DeviceTypeOK
  <2>2. NextEntry(b, o, t, n).prev = Len(log)
    BY DEF NextEntry
  <2> QED BY <1>0, <2>1, <2>2 DEF LinksOK, Ids
<1>2. CASE /\ Len(log) - f < Capacity
           /\ log' = Append(log, NextEntry(b, o, t, n))
           /\ freed' = f
  BY <1>0, <1>1, <1>2 DEF RingOK, log_store_used
<1>3. CASE /\ log' = Append(log, NextEntry(b, o, t, n))
           /\ freed' = f + 1
  BY <1>0, <1>1, <1>3 DEF RingOK, log_store_used
<1>4. CASE log' = log /\ freed' = f
  BY <1>0, <1>4 DEF RingOK, log_store_used, LinksOK, Ids
<1> QED BY <1>2, <1>3, <1>4 DEF Record

LEMMA RecordOwnLinks ==
    ASSUME DeviceTypeOK, born = 0, LinksOK, RingOK,
           NEW cmd, NEW f \in freed .. Len(log), RecordOwn(cmd, f)
    PROVE  LinksOK' /\ RingOK'
<1>1. CASE cmd \in Audited
  <2>1. Record(f, FALSE, TRUE, cmd = "authenticate_session", tick, boots)
    BY <1>1 DEF RecordOwn
  <2> QED BY <2>1, RecordLinks
<1>2. CASE cmd \notin Audited
  <2>1. freed' = f /\ log' = log
    BY <1>2 DEF RecordOwn
  <2>2. Len(log) \in Nat /\ freed \in Nat /\ Capacity \in Nat
    BY DeviceAssumption DEF DeviceTypeOK
  <2> QED BY <2>1, <2>2 DEF RingOK, log_store_used, LinksOK, Ids
<1> QED BY <1>1, <1>2

LEMMA DeviceLinks ==
    ASSUME MaxResets = 0, DeviceTypeOK, born = 0, LinksOK, RingOK, DeviceNext
    PROVE  LinksOK' /\ RingOK'
<1>0. freed \in freed .. Len(log) /\ freed \in Nat /\ Len(log) \in Nat
  BY DEF DeviceTypeOK
<1>1. CASE AppOp
  BY <1>0, <1>1, RecordLinks DEF AppOp
<1>2. CASE Reboot
  BY <1>0, <1>2, RecordLinks DEF Reboot
<1>3. CASE OtherConsumer
  <2>1. freed' \in Buffer /\ log' = log
    BY <1>3 DEF OtherConsumer
  <2>2. Capacity \in Nat
    BY DeviceAssumption
  <2> QED BY <1>0, <2>1, <2>2 DEF RingOK, log_store_used, LinksOK, Ids, Buffer
<1>4. CASE Reset
  BY <1>4 DEF Reset, DeviceTypeOK
<1> QED BY <1>1, <1>2, <1>3, <1>4 DEF DeviceNext

(* is_newer() is false of the older of two entries less than half apart.   *)
LEMMA OlderInWindow ==
    ASSUME DeviceTypeOK, ItemsInOrder, NEW c \in Ids, NEW e \in Ids, e <= c, c - e < Half
    PROVE  ~is_newer(log[e].item, log[c].item)
<1>1. c - e < ItemMod /\ c - e \in Nat
  BY HalfAssumption DEF Ids, ItemMod, DeviceTypeOK
<1>2. wrapping_sub(log[c].item, log[e].item) = c - e
  BY <1>1 DEF ItemsInOrder
<1>3. log[c] \in LogEntry /\ log[e] \in LogEntry
  BY DEF DeviceTypeOK, Ids
<1>4. log[c].item \in Items /\ log[e].item \in Items
  BY <1>3 DEF LogEntry
<1> DEFINE a == log[c].item  b == log[e].item
<1> HIDE DEF a, b
<1>5. a \in Int /\ b \in Int
  BY <1>4 DEF Items, a, b
<1>6. wrapping_sub(a, b) = c - e
  BY <1>2 DEF a, b
<1>7. b # a => wrapping_sub(b, a) >= Half
  BY <1>1, <1>5, <1>6, HalfAssumption DEF wrapping_sub, ItemMod
<1>8. wrapping_sub(b, a) \in Int
  BY <1>5, HalfAssumption DEF wrapping_sub, ItemMod
<1> QED BY <1>7, <1>8, HalfAssumption DEF is_newer, a, b

(* select_new() takes from a read everything after the cursor and nothing  *)
(* else, as a cursor the read reaches back to lies within it.              *)
LEMMA SelectAfterCursor ==
    ASSUME TypeOK, ItemsInOrder, CursorOK(state), state.last_item # None,
           state.last_digest # None => Len(log) - state.last_digest < Half,
           NEW e \in entries
    PROVE  /\ state.last_digest < e => e \in select_new(log, entries, state)
           /\ /\ e <= state.last_digest
              /\ state.last_digest - e < Half
              => e \notin select_new(log, entries, state)
<1> DEFINE c == state.last_digest
<1>1. c \in Ids /\ state.last_item = log[c].item
  BY DEF CursorOK
<1>2. c # None /\ e \in Ids /\ Len(log) \in Nat
  BY <1>1, NoneAssumption DEF Ids, TypeOK, DeviceTypeOK
<1>3. ASSUME c < e PROVE e \in select_new(log, entries, state)
  <2>1. e - c < Half /\ c # e
    BY <1>1, <1>2, <1>3, HalfAssumption DEF Ids
  <2>2. is_newer(log[e].item, log[c].item)
    BY <1>1, <1>2, <1>3, <2>1, NewerInWindow DEF TypeOK
  <2> QED BY <1>1, <2>1, <2>2 DEF select_new
<1>4. ASSUME e <= c, c - e < Half PROVE e \notin select_new(log, entries, state)
  <2>1. ~is_newer(log[e].item, log[c].item)
    BY <1>1, <1>2, <1>4, OlderInWindow DEF TypeOK
  <2> QED BY <1>1, <2>1 DEF select_new
<1> QED BY <1>3, <1>4

(* The verdicts of transform(): within a read the new entries follow each  *)
(* other, and the oldest is only checked against the cursor it follows.    *)
LEMMA TransformVerdicts ==
    ASSUME Capacity <= Half, TypeOK, PollInvariant, LinksOK, ReadOK, pc = "enrich",
           state.last_digest # None => Len(log) - state.last_digest < Half,
           UNCHANGED <<log, emitted, entries>>, transformed' = transform(log, entries, state)
    PROVE  VerdictsOK' /\ (entries \subseteq transformed.new_entries \union Delivered)'
<1> DEFINE c == state.last_digest
           new == select_new(log, entries, state)
<1>0. /\ ItemsInOrder /\ CursorOK(state) /\ Len(log) \in Nat /\ Capacity \in Nat
      /\ entries \subseteq Ids /\ new \subseteq entries /\ Ids \subseteq Int
  BY DeviceAssumption, SelectNewSubset DEF PollInvariant, TypeOK, DeviceTypeOK, Ids
<1>1. transformed'.new_entries = new
      /\ transformed'.events = {entry_event(log, new, state, e) : e \in new}
  BY DEF transform
<1>2. ASSUME state.last_item # None
      PROVE  /\ c \in Ids /\ c # None /\ c \in Delivered /\ state.last_item = log[c].item
             /\ \A e \in entries : e \in new <=> c < e
             /\ \A e \in entries : e <= c => e \in Delivered
  <2>1. c \in Ids /\ c # None /\ c \in Delivered /\ state.last_item = log[c].item
    BY <1>0, <1>2, NoneAssumption DEF CursorOK
  <2>2. ASSUME NEW e \in entries PROVE e \in new <=> c < e
    <3>0. c \in Int /\ e \in Int
      BY <1>0, <2>1, <2>2
    <3>1. CASE c < e
      BY <1>0, <1>2, <3>1, SelectAfterCursor
    <3>2. CASE e <= c
      <4>1. c \in entries
        BY <2>1, <3>2 DEF ReadOK
      <4>2. c - e < Capacity
        BY <2>2, <4>1 DEF ReadOK
      <4> HIDE DEF c
      <4>3. c - e < Half
        BY <1>0, <3>0, <4>2, HalfAssumption
      <4>4. e \notin new
        BY <1>0, <1>2, <3>2, <4>3, SelectAfterCursor DEF c
      <4> QED BY <3>0, <3>2, <4>4
    <3> HIDE DEF new, c
    <3> QED BY <3>0, <3>1, <3>2
  <2>3. \A e \in entries : e <= c => e \in Delivered
    BY <2>1 DEF ReadOK
  <2> QED BY <2>1, <2>2, <2>3
<1>3. state.last_item = None => new = entries
  BY DEF select_new
<1> HIDE DEF new, c
<1>4. ASSUME NEW x \in new, NEW y \in new, x < y, \A z \in new : ~(x < z /\ z < y)
      PROVE  log[y].prev = x
  <2>1. x \in entries /\ y \in entries /\ x \in Int /\ y \in Int /\ x .. y \subseteq entries
    BY <1>0, <1>4 DEF ReadOK
  <2>2. y - 1 \in entries
    BY <1>4, <2>1
  <2>3. y - 1 \in new
    <3>1. CASE state.last_item # None
      <4>1. c \in Int /\ c < x
        BY <1>0, <1>2, <1>4, <2>1, <3>1
      <4>2. c < y - 1
        BY <1>4, <2>1, <4>1
      <4> QED BY <1>2, <2>2, <3>1, <4>2
    <3> QED BY <1>3, <2>2, <3>1
  <2>4. y - 1 = x
    BY <1>4, <2>1, <2>3
  <2> QED BY <1>0, <2>1, <2>4 DEF LinksOK
<1>5. ASSUME c # None, state.last_item # None, new # {},
             log[Min(new)].item = wrapping_add(state.last_item, 1)
      PROVE  log[Min(new)].prev = c
  <2> DEFINE m == Min(new)
  <2>1. m \in new
    BY <1>0, <1>5, MinFact DEF Ids
  <2> HIDE DEF m
  <2>2. /\ m \in Ids /\ c \in Ids /\ c < m
        /\ m \in Int /\ c \in Int /\ m <= Len(log) /\ Len(log) - c < Half
    BY <1>0, <1>2, <1>5, <2>1 DEF Ids, c
  <2>3. wrapping_sub(log[m].item, log[c].item) = m - c
    <3>1. c <= m /\ m - c < ItemMod
      BY <1>0, <2>2, HalfAssumption DEF ItemMod
    <3> QED BY <1>0, <2>2, <3>1 DEF ItemsInOrder
  <2>4. log[c].item \in Items
    <3>1. log[c] \in LogEntry
      BY <2>2 DEF TypeOK, DeviceTypeOK, Ids
    <3> QED BY <3>1 DEF LogEntry
  <2>5. wrapping_sub(wrapping_add(log[c].item, 1), log[c].item) = 1
    <3>1. wrapping_sub(log[c].item, log[c].item) = 0 /\ 0 < ItemMod - 1
      BY <2>4, WrappingSelf, HalfAssumption DEF ItemMod
    <3> QED BY <2>4, <3>1, WrappingSucc
  <2>6. m - c = 1
    BY <1>2, <1>5, <2>3, <2>5 DEF m
  <2>7. log[m].prev = m - 1
    BY <2>2 DEF LinksOK
  <2>8. m - 1 = c
    BY <2>2, <2>6
  <2> QED BY <2>7, <2>8 DEF m
<1>6. ASSUME NEW e \in new
      PROVE  /\ chain_status(log, new, state, e) # "mismatch"
             /\ chain_status(log, new, state, e) = "ok" =>
                    log[e].prev \in Delivered \union {u \in new : u < e}
  <2>1. new \subseteq 1 .. Len(log) /\ new # {}
    BY <1>0, <1>6 DEF Ids
  <2>2. Anchored(log, new, state)
    BY <1>5, <2>1 DEF Anchored, c
  <2>3. Linked(log, new)
    BY <1>4 DEF Linked
  <2>4. /\ chain_status(log, new, state, e) # "mismatch"
        /\ chain_status(log, new, state, e) = "ok" =>
              \/ log[e].prev \in new /\ log[e].prev < e
              \/ log[e].prev = state.last_digest /\ state.last_digest # None
                 /\ state.last_item # None
    BY <1>0, <1>6, <2>1, <2>2, <2>3, VerdictFact
  <2> QED BY <1>2, <2>4 DEF c
<1>7. Delivered' = Delivered
  BY DEF Delivered
<1>8. entries \subseteq new \union Delivered
  <2>1. ASSUME state.last_item # None, NEW e \in entries
        PROVE  e \in new \union Delivered
    <3>1. c \in Int /\ e \in Int
      BY <1>0, <1>2, <2>1
    <3> QED BY <1>2, <2>1, <3>1
  <2> QED BY <1>3, <2>1
<1>9. VerdictsOK'
  <2> SUFFICES ASSUME NEW e \in new,
                      NEW v, v = entry_event(log, new, state, e)
               PROVE  /\ v.chain_status # "mismatch"
                      /\ v.chain_status = "ok" =>
                            log[v.id].prev \in Delivered \union {u \in new : u < v.id}
    BY <1>1, <1>7 DEF VerdictsOK
  <2>1. /\ v.id = e
        /\ v.chain_status = IF verify_chain THEN chain_status(log, new, state, e) ELSE None
    BY DEF entry_event
  <2> QED BY <1>6, <2>1, NoneAssumption
<1> QED BY <1>1, <1>7, <1>8, <1>9

(* Nothing new is emitted, and the events at hand stay or are dropped: the *)
(* verdicts stay right while the log grows and more is delivered.          *)
LEMMA VerdictsStay ==
    ASSUME TypeOK, VerdictInvariant, LogGrows, UNCHANGED emitted,
           transformed' \in {transformed, NothingTransformed}
    PROVE  VerdictsOK' /\ ChainSound' /\ NoFalseMismatch'
<1>1. /\ \A v \in emitted : v.id \in Ids
      /\ \A v \in transformed.events : v.id \in Ids
  BY DEF TypeOK, Events
<1>2. \A e \in Ids : log'[e] = log[e]
  BY DEF LogGrows, Ids
<1>3. Delivered' = Delivered
  BY DEF Delivered
<1>4. CASE transformed' = transformed
  BY <1>1, <1>2, <1>3, <1>4 DEF VerdictInvariant, VerdictsOK, ChainSound, NoFalseMismatch
<1>5. CASE transformed' = NothingTransformed
  BY <1>1, <1>2, <1>3, <1>5 DEF NothingTransformed, VerdictInvariant, VerdictsOK, ChainSound,
     NoFalseMismatch
<1> QED BY <1>4, <1>5

(* A poll at a step before the log is read, or after the cursor moved.     *)
LEMMA OtherPhase ==
    ASSUME pc' \notin {"enrich", "emit", "set_log_index", "commit"}
    PROVE  ReadOK' /\ SelectedOK' /\ ReadIsDelivered'
BY DEF ReadOK, SelectedOK, ReadIsDelivered

(* A poll that stays at its step with what it read.                        *)
LEMMA SamePhase ==
    ASSUME ReadOK, SelectedOK, ReadIsDelivered, UNCHANGED <<pc, entries, transformed, emitted>>,
           pc = "enrich" => UNCHANGED state
    PROVE  ReadOK' /\ SelectedOK' /\ ReadIsDelivered'
<1>1. Delivered' = Delivered
  BY DEF Delivered
<1>2. ReadOK'
  BY <1>1 DEF ReadOK
<1> QED BY <1>1, <1>2 DEF SelectedOK, ReadIsDelivered

(* A poll that reaches its end.                                            *)
LEMMA EndPollVerdicts ==
    ASSUME TypeOK, VerdictInvariant, EndPoll, UNCHANGED <<deviceVars, emitted>>
    PROVE  VerdictInvariant'
<1>1. LogGrows /\ UNCHANGED <<log, freed>>
  BY DEF deviceVars, LogGrows, TypeOK, DeviceTypeOK
<1>2. VerdictsOK' /\ ChainSound' /\ NoFalseMismatch'
  BY <1>1, VerdictsStay DEF EndPoll
<1>3. ReadOK' /\ SelectedOK' /\ ReadIsDelivered'
  BY OtherPhase DEF EndPoll
<1>4. LinksOK' /\ RingOK'
  BY <1>1 DEF VerdictInvariant, LinksOK, RingOK, Ids, log_store_used
<1> QED BY <1>2, <1>3, <1>4 DEF VerdictInvariant

LEMMA VerdictInvariantInit == Init => VerdictInvariant
<1> SUFFICES ASSUME Init PROVE VerdictInvariant
  OBVIOUS
<1>1. LinksOK /\ RingOK
  BY DeviceAssumption DEF Init, DeviceInit, LinksOK, RingOK, Ids, log_store_used
<1>2. ReadOK /\ SelectedOK /\ ReadIsDelivered
  BY DEF Init, ReadOK, SelectedOK, ReadIsDelivered
<1>3. VerdictsOK /\ ChainSound /\ NoFalseMismatch
  BY DEF Init, NothingTransformed, VerdictsOK, ChainSound, NoFalseMismatch
<1> QED BY <1>1, <1>2, <1>3 DEF VerdictInvariant

LEMMA VerdictInvariantNext ==
    ASSUME MaxResets = 0, Capacity <= Half, TypeOK, InWindow, PollInvariant,
           VerdictInvariant, [Next]_vars
    PROVE  VerdictInvariant'
<1> USE DEF sinkVars
<1>0. /\ DeviceTypeOK /\ born = 0 /\ ItemsInOrder /\ NothingLost /\ SavedCursorsOK /\ EventsOK
      /\ LinksOK /\ RingOK /\ ReadOK /\ SelectedOK /\ ReadIsDelivered
      /\ VerdictsOK /\ ChainSound /\ NoFalseMismatch
      /\ freed \in freed .. Len(log) /\ freed \in Nat /\ Len(log) \in Nat
      /\ disk \in older
  BY DEF TypeOK, DeviceTypeOK, PollInvariant, OneLife, VerdictInvariant
(* A step that leaves the device alone, and one that issues an audited     *)
(* command.                                                                *)
<1>same. ASSUME UNCHANGED <<log, freed>>
         PROVE  LinksOK' /\ RingOK' /\ LogGrows
  BY <1>0, <1>same DEF LinksOK, RingOK, Ids, log_store_used, LogGrows, DeviceTypeOK
<1>own. ASSUME NEW cmd, NEW f \in freed .. Len(log), RecordOwn(cmd, f),
               UNCHANGED <<born, tick, boots, serial, resets, shared>>
        PROVE  LinksOK' /\ RingOK' /\ LogGrows
  <2>1. LinksOK' /\ RingOK'
    BY <1>0, <1>own, RecordOwnLinks
  <2> QED BY <1>0, <1>own, <2>1, RecordOwnType
<1>1. CASE Poll \/ Skip \/ SaveRemove
  <2>1. /\ UNCHANGED <<log, freed, emitted, transformed>>
        /\ pc' \notin {"enrich", "emit", "set_log_index", "commit"}
    BY <1>1 DEF Poll, Skip, SaveRemove, deviceVars
  <2> QED BY <1>0, <1>same, <2>1, OtherPhase, VerdictsStay DEF VerdictInvariant
<1>2. CASE CreateSession \/ AuthenticateSession \/ GetDeviceInfo
  <2>1. UNCHANGED <<emitted, transformed, born, tick, boots, serial, resets, shared>>
    BY <1>2 DEF CreateSession, AuthenticateSession, GetDeviceInfo
  <2>2. LinksOK' /\ RingOK' /\ LogGrows
    BY <1>0, <1>2, <1>own, <2>1 DEF CreateSession, AuthenticateSession, GetDeviceInfo
  <2>3. pc' \notin {"enrich", "emit", "set_log_index", "commit"}
    BY <1>2 DEF CreateSession, AuthenticateSession, GetDeviceInfo
  <2> QED BY <1>0, <2>1, <2>2, <2>3, OtherPhase, VerdictsStay DEF VerdictInvariant
<1>3. CASE GetLogEntries
  <2>1. /\ UNCHANGED <<emitted, transformed>> /\ RecordOwn("get_log_entries", freed)
        /\ UNCHANGED <<born, tick, boots, serial, resets, shared>>
        /\ pc' = "enrich" /\ entries' = Buffer /\ state' = disk
    BY <1>3 DEF GetLogEntries
  <2>2. CursorOK(disk)
    BY <1>0 DEF SavedCursorsOK
  <2>3. ASSUME NEW x \in Buffer, NEW y \in Buffer
        PROVE  x .. y \subseteq Buffer /\ y - x < Capacity
    <3>1. Len(log) - freed <= Capacity /\ Capacity \in Nat
      BY <1>0, DeviceAssumption DEF RingOK, log_store_used
    <3> QED BY <1>0, <2>3, <3>1 DEF Buffer
  <2>4. ASSUME NEW x \in Buffer, disk.last_digest # None, x <= disk.last_digest
        PROVE  disk.last_digest \in Buffer /\ x \in Delivered
    <3>1. disk.last_digest \in Ids /\ 1 .. disk.last_digest \subseteq Done
      BY <2>2, <2>4 DEF CursorOK
    <3>2. disk.last_digest \in Buffer /\ x \in 1 .. disk.last_digest
      BY <1>0, <2>4, <3>1 DEF Buffer, Ids
    <3>3. x \notin gone
      BY <1>0, <2>4 DEF DeviceTypeOK, Buffer
    <3> QED BY <3>1, <3>2, <3>3 DEF Done
  <2>5. Delivered' = Delivered
    BY <2>1 DEF Delivered
  <2>6. ReadOK'
    BY <2>1, <2>3, <2>4, <2>5 DEF ReadOK
  <2>7. SelectedOK' /\ ReadIsDelivered'
    BY <2>1 DEF SelectedOK, ReadIsDelivered
  <2> QED BY <1>0, <1>own, <2>1, <2>6, <2>7, VerdictsStay DEF VerdictInvariant
<1>4. CASE Enrich
  <2>1. UNCHANGED <<pc, state, entries, transformed, emitted>>
    BY <1>4 DEF Enrich
  <2>2. LinksOK' /\ RingOK' /\ LogGrows
    BY <1>0, <1>4, <1>own, <1>same DEF Enrich
  <2> QED BY <1>0, <2>1, <2>2, SamePhase, VerdictsStay DEF VerdictInvariant
<1>5. CASE Transform
  <2>1. /\ pc = "enrich" /\ pc' = "emit" /\ UNCHANGED <<log, freed, emitted, entries>>
        /\ transformed' = transform(log, entries, state)
    BY <1>5 DEF Transform, deviceVars
  <2>2. state.last_digest # None => Len(log) - state.last_digest < Half
    BY DEF InWindow
  <2>3. VerdictsOK' /\ (entries \subseteq transformed.new_entries \union Delivered)'
    BY <1>0, <2>1, <2>2, TransformVerdicts
  <2>4. ReadOK' /\ SelectedOK' /\ ReadIsDelivered'
    BY <2>1, <2>3 DEF ReadOK, SelectedOK, ReadIsDelivered
  <2>5. ChainSound' /\ NoFalseMismatch'
    BY <1>0, <2>1 DEF ChainSound, NoFalseMismatch, Delivered
  <2> QED BY <1>same, <2>1, <2>3, <2>4, <2>5 DEF VerdictInvariant
<1>6. CASE Emit
  <2>1. /\ pc = "emit" /\ pc' = "set_log_index" /\ UNCHANGED <<log, freed, entries, transformed>>
        /\ emitted' = emitted \union transformed.events
    BY <1>6 DEF Emit, deviceVars
  <2>2. Delivered' = Delivered \union transformed.new_entries
    BY <1>0, <2>1 DEF Delivered, EventsOK
  <2>3. ReadOK' /\ SelectedOK' /\ ReadIsDelivered'
    BY <1>0, <2>1, <2>2 DEF ReadOK, SelectedOK, ReadIsDelivered
  <2>4. VerdictsOK' /\ ChainSound' /\ NoFalseMismatch'
    BY <1>0, <2>1, <2>2 DEF VerdictsOK, ChainSound, NoFalseMismatch
  <2> QED BY <1>same, <2>1, <2>3, <2>4 DEF VerdictInvariant
<1>7. CASE EmitFails
  <2>1. PICK upTo \in transformed.new_entries :
          emitted' = emitted \union {v \in transformed.events : v.id <= upTo}
    BY <1>7 DEF EmitFails
  <2>2. pc' = "idle" /\ transformed' = NothingTransformed /\ UNCHANGED <<log, freed>>
    BY <1>7 DEF EmitFails, EndPoll, deviceVars
  <2>3. Delivered' = Delivered \union {u \in transformed.new_entries : u <= upTo}
    BY <1>0, <2>1 DEF Delivered, EventsOK
  <2>4. transformed.new_entries \subseteq Int /\ upTo \in Int
    BY DEF TypeOK, Ids
  <2>5. ChainSound'
    <3> SUFFICES ASSUME NEW v \in emitted', v.chain_status = "ok"
                 PROVE  log[v.id].prev \in Delivered'
      BY <2>2 DEF ChainSound
    <3>1. CASE v \in emitted
      BY <1>0, <2>3, <3>1 DEF ChainSound
    <3>2. CASE v \in transformed.events /\ v.id <= upTo
      <4>1. log[v.id].prev \in Delivered \union {u \in transformed.new_entries : u < v.id}
        BY <1>0, <3>2 DEF VerdictsOK
      <4>2. v.id \in Int
        BY <3>2 DEF TypeOK, Events, Ids
      <4> QED BY <2>3, <2>4, <3>2, <4>1, <4>2
    <3> QED BY <2>1, <3>1, <3>2
  <2>6. NoFalseMismatch'
    BY <1>0, <2>1 DEF VerdictsOK, NoFalseMismatch
  <2>7. VerdictsOK'
    BY <2>2 DEF VerdictsOK, NothingTransformed
  <2> QED BY <1>same, <2>2, <2>5, <2>6, <2>7, OtherPhase DEF VerdictInvariant
<1>8. CASE SetLogIndex
  <2> DEFINE last == Max(transformed.new_entries)
  <2>1. /\ pc = "set_log_index" /\ pc' = "commit"
        /\ UNCHANGED <<emitted, entries, transformed>>
    BY <1>8 DEF SetLogIndex
  <2>2. LinksOK' /\ RingOK' /\ LogGrows
    <3>1. CASE advance_log_index
      <4>1. RecordOwn("set_log_index", FreedBy(log[last].item))
        BY <1>8, <3>1 DEF SetLogIndex
      <4>2. FreedBy(log[last].item) \in freed .. Len(log)
        BY <1>0, FreedByType
      <4> QED BY <1>8, <1>own, <4>1, <4>2 DEF SetLogIndex
    <3>2. CASE ~advance_log_index
      BY <1>8, <1>same, <3>2 DEF SetLogIndex
    <3> QED BY <3>1, <3>2
  <2>3. ReadOK' /\ SelectedOK' /\ ReadIsDelivered'
    BY <1>0, <2>1 DEF ReadOK, SelectedOK, ReadIsDelivered, Delivered
  <2> QED BY <1>0, <2>1, <2>2, <2>3, VerdictsStay DEF VerdictInvariant
<1>9. CASE NothingToAcknowledge
  <2>1. /\ pc = "set_log_index" /\ pc' = "commit"
        /\ UNCHANGED <<log, freed, emitted, entries, transformed>>
    BY <1>9 DEF NothingToAcknowledge, deviceVars
  <2>2. ReadOK' /\ SelectedOK' /\ ReadIsDelivered'
    BY <1>0, <2>1 DEF ReadOK, SelectedOK, ReadIsDelivered, Delivered
  <2> QED BY <1>0, <1>same, <2>1, <2>2, VerdictsStay DEF VerdictInvariant
<1>10. CASE Commit
  <2>1. pc' = "save" /\ UNCHANGED <<log, freed, emitted, entries, transformed>>
    BY <1>10 DEF Commit, deviceVars
  <2> QED BY <1>0, <1>same, <2>1, OtherPhase, VerdictsStay DEF VerdictInvariant
<1>11. CASE DryRunEnds \/ SaveRename \/ Abort \/ PowerFailure
  <2>1. EndPoll /\ UNCHANGED <<deviceVars, emitted>>
    BY <1>11 DEF DryRunEnds, SaveRename, Abort, PowerFailure
  <2> QED BY <2>1, EndPollVerdicts
<1>12. CASE WriteBack \/ UNCHANGED vars
  <2>1. UNCHANGED <<log, freed, pc, state, entries, transformed, emitted>>
    BY <1>12 DEF WriteBack, vars, pollVars, deviceVars
  <2> QED BY <1>0, <1>same, <2>1, SamePhase, VerdictsStay DEF VerdictInvariant
<1>13. CASE Environment
  <2>1. UNCHANGED <<pc, state, entries, transformed, emitted>> /\ DeviceNext
    BY <1>13 DEF Environment, pollVars
  <2>2. LinksOK' /\ RingOK'
    BY <1>0, <2>1, DeviceLinks
  <2>3. LogGrows
    BY <1>0, <2>1, DeviceNextType
  <2> QED BY <1>0, <2>1, <2>2, <2>3, SamePhase, VerdictsStay DEF VerdictInvariant
<1> QED
  BY <1>1, <1>2, <1>3, <1>4, <1>5, <1>6, <1>7, <1>8, <1>9, <1>10, <1>11, <1>12, <1>13
  DEF Next, PollStep

(* VerdictInvariant holds throughout, however polls fail and the machine   *)
(* stops, on a device that is not reset and whose buffer holds no more     *)
(* entries than half the range of the item number (62 to 32768 there).     *)
THEOREM VerdictInvariantHolds ==
    ASSUME MaxResets = 0, Capacity <= Half
    PROVE  Spec /\ []InWindow => []VerdictInvariant
<1>1. TypeOK /\ InWindow /\ PollInvariant /\ VerdictInvariant /\ [Next]_vars => VerdictInvariant'
  BY VerdictInvariantNext
<1> QED BY <1>1, VerdictInvariantInit, PollInvariantHolds, TypeCorrect, PTL DEF Spec

(* When poll_device() tells the device what it may drop, all that it read  *)
(* is in the sink: select_new() leaves out nothing but what earlier polls  *)
(* delivered.                                                              *)
THEOREM ReadsAreDelivered ==
    ASSUME MaxResets = 0, Capacity <= Half
    PROVE  Spec /\ []InWindow => []ReadIsDelivered
<1>1. VerdictInvariant => ReadIsDelivered
  BY DEF VerdictInvariant
<1> QED BY <1>1, VerdictInvariantHolds, PTL

(* chain_status "ok" never vouches for a link across an entry that is not  *)
(* in the sink.                                                            *)
THEOREM ChainIsSound ==
    ASSUME MaxResets = 0, Capacity <= Half
    PROVE  Spec /\ []InWindow => []ChainSound
<1>1. VerdictInvariant => ChainSound
  BY DEF VerdictInvariant
<1> QED BY <1>1, VerdictInvariantHolds, PTL

(* transform() never reports "mismatch" for a log nobody tampered with.    *)
THEOREM NoMismatchIsFalse ==
    ASSUME MaxResets = 0, Capacity <= Half
    PROVE  Spec /\ []InWindow => []NoFalseMismatch
<1>1. VerdictInvariant => NoFalseMismatch
  BY DEF VerdictInvariant
<1> QED BY <1>1, VerdictInvariantHolds, PTL

(* select_new() leaves out every entry up to the cursor it is given: those *)
(* of one read are less than half the range of the item number apart.      *)
LEMMA SelectsAfterCursor ==
    ASSUME Capacity <= Half, TypeOK, PollInvariant, ReadOK, pc = "enrich",
           state.last_digest # None => Len(log) - state.last_digest < Half,
           state.last_digest # None,
           NEW e \in select_new(log, entries, state)
    PROVE  e > state.last_digest
<1>1. e \in entries /\ e \in Nat
  <2>1. e \in entries
    BY SelectNewSubset, Zenon
  <2>2. entries \subseteq Ids
    BY DEF TypeOK
  <2>3. \A i \in Ids : i \in Nat
    BY DEF Ids
  <2> QED BY <2>1, <2>2, <2>3, Zenon
<1>2. /\ ItemsInOrder /\ CursorOK(state)
      /\ state.last_digest \in Ids /\ state.last_digest \in Nat
      /\ state.last_item = log[state.last_digest].item
  BY DEF PollInvariant, CursorOK, Ids
<1>3. state.last_item # None
  <2>1. log[state.last_digest] \in LogEntry
    BY <1>2 DEF TypeOK, DeviceTypeOK, Ids
  <2>2. state.last_item \in Items
    BY <1>2, <2>1 DEF LogEntry
  <2> QED BY <2>2, NoneAssumption DEF Items
<1>4. ASSUME e <= state.last_digest PROVE FALSE
  <2>1. state.last_digest \in entries
    BY <1>1, <1>4 DEF ReadOK
  <2>2. state.last_digest - e < Capacity
    BY <1>1, <2>1 DEF ReadOK
  <2>3. state.last_digest - e < Half
    <3>1. Capacity \in Nat /\ Half \in Nat
      BY DeviceAssumption, HalfAssumption
    <3> QED BY <1>1, <1>2, <2>2, <3>1
  <2> QED BY <1>1, <1>2, <1>3, <1>4, <2>3, SelectAfterCursor
<1> QED BY <1>1, <1>2, <1>4

LEMMA SentInvariantNext ==
    ASSUME Capacity <= Half, TypeOK, InWindow, PollInvariant, VerdictInvariant, SentInvariant,
           [Next]_vars
    PROVE  SentInvariant'
<1>1. CASE pc' \notin {"enrich", "emit"}
  BY <1>1 DEF SentInvariant, NothingSentTwice
<1>2. CASE GetLogEntries
  <2>1. pc' = "enrich" /\ state' = disk /\ UNCHANGED disk
    BY <1>2 DEF GetLogEntries, fileVars
  <2> QED BY <2>1 DEF SentInvariant, NothingSentTwice
<1>3. CASE Transform
  <2>1. /\ pc = "enrich" /\ pc' = "emit" /\ UNCHANGED <<state, disk>>
        /\ transformed' = transform(log, entries, state)
    BY <1>3 DEF Transform, fileVars
  <2>2. state = disk /\ transformed'.new_entries = select_new(log, entries, state)
    BY <2>1 DEF SentInvariant, transform
  <2>3. ReadOK /\ (state.last_digest # None => Len(log) - state.last_digest < Half)
    BY DEF VerdictInvariant, InWindow
  <2>4. disk.last_digest # None => \A e \in transformed'.new_entries : e > disk.last_digest
    BY <2>1, <2>2, <2>3, SelectsAfterCursor
  <2> QED BY <2>1, <2>2, <2>4 DEF SentInvariant, NothingSentTwice
<1>4. CASE Enrich \/ WriteBack \/ Environment \/ UNCHANGED vars
  <2>1. UNCHANGED <<pc, state, disk, transformed>>
    BY <1>4, ZenonT(30) DEF Enrich, WriteBack, Environment, vars, pollVars, fileVars
  <2> QED BY <2>1 DEF SentInvariant, NothingSentTwice
<1>5. CASE Poll
  <2>1. pc' \in {"skip", "create_session"}
    BY <1>5 DEF Poll
  <2> QED BY <1>1, <2>1
<1>6. CASE CreateSession \/ AuthenticateSession \/ GetDeviceInfo
  <2>1. pc' \in {"authenticate_session", "device_info", "get_log_entries"}
    BY <1>6 DEF CreateSession, AuthenticateSession, GetDeviceInfo
  <2> QED BY <1>1, <2>1
<1>7. CASE Emit \/ SetLogIndex \/ NothingToAcknowledge \/ Skip \/ Commit \/ SaveRemove
  <2>1. CASE Emit
    <3>1. pc' \in {"set_log_index", "commit"}
      BY <2>1 DEF Emit
    <3> QED BY <1>1, <3>1
  <2>2. CASE SetLogIndex
    <3>1. pc' = "commit"
      BY <2>2 DEF SetLogIndex
    <3> QED BY <1>1, <3>1
  <2>3. CASE NothingToAcknowledge \/ Skip
    <3>1. pc' \in {"commit", "save"}
      BY <2>3 DEF NothingToAcknowledge, Skip
    <3> QED BY <1>1, <3>1
  <2>4. CASE Commit
    <3>1. pc' = "save"
      BY <2>4 DEF Commit
    <3> QED BY <1>1, <3>1
  <2>5. CASE SaveRemove
    <3>1. pc' = "rename"
      BY <2>5 DEF SaveRemove
    <3> QED BY <1>1, <3>1
  <2> QED BY <1>7, <2>1, <2>2, <2>3, <2>4, <2>5
<1>8. CASE EmitFails \/ DryRunEnds \/ SaveRename \/ Abort \/ PowerFailure
  <2>1. pc' = "idle"
    BY <1>8 DEF EmitFails, DryRunEnds, SaveRename, Abort, PowerFailure, EndPoll
  <2> QED BY <1>1, <2>1
<1> QED BY <1>2, <1>3, <1>4, <1>5, <1>6, <1>7, <1>8 DEF Next, PollStep

(* The cursor is never ignored: as long as no cursor falls half the item   *)
(* range behind, and on a device that is not reset, no poll sends what the *)
(* saved cursor covers, in particular where the device is never told to    *)
(* free anything and every read starts with entries sent long ago.         *)
THEOREM SavedIsNotRepeated ==
    ASSUME MaxResets = 0, Capacity <= Half
    PROVE  Spec /\ []InWindow => []NothingSentTwice
<1>1. Init => SentInvariant
  BY DEF Init, SentInvariant, NothingSentTwice
<1>2. TypeOK /\ InWindow /\ PollInvariant /\ VerdictInvariant /\ SentInvariant /\ [Next]_vars
      => SentInvariant'
  BY SentInvariantNext
<1>3. SentInvariant => NothingSentTwice
  BY DEF SentInvariant
<1> QED BY <1>1, <1>2, <1>3, TypeCorrect, PollInvariantHolds, VerdictInvariantHolds, PTL DEF Spec

-----------------------------------------------------------------------------
(* The numbers of the events: OrderInvariant is inductive where nobody but *)
(* the collector takes entries from the device, and there keeps every      *)
(* cursor within half the range of the item number, too.                   *)

(* The reboots up to an entry are those up to an earlier one, and those    *)
(* after it.                                                               *)
LEMMA RebootsSplit ==
    ASSUME NEW lg, NEW c \in Nat, NEW e \in Nat, c <= e
    PROVE  /\ Reboots(lg, c) \in Nat
           /\ Reboots(lg, e) =
                Reboots(lg, c) + Cardinality({k \in (c + 1) .. e : k >= 2 /\ ShowsReboot(lg, k)})
<1> DEFINE S == {k \in 2 .. c : ShowsReboot(lg, k)}
           T == {k \in (c + 1) .. e : k >= 2 /\ ShowsReboot(lg, k)}
           U == {k \in 2 .. e : ShowsReboot(lg, k)}
<1>1. U = S \union T /\ S \cap T = {}
  OBVIOUS
<1>2. S \subseteq 1 .. e /\ T \subseteq 1 .. e
  OBVIOUS
<1>3. Cardinality(S) \in Nat /\ Cardinality(T) \in Nat
  BY <1>2, CountType
<1>4. IsFiniteSet(1 .. e)
  BY FS_Interval
<1> HIDE DEF S, T, U
<1>5. IsFiniteSet(S) /\ IsFiniteSet(T)
  BY <1>2, <1>4, FS_Subset
<1>6. Cardinality(S \cap T) = 0
  BY <1>1, FS_EmptySet
<1>7. Cardinality(U) = Cardinality(S) + Cardinality(T) - Cardinality(S \cap T)
  BY <1>1, <1>5, FS_Union
<1>8. Cardinality(U) = Cardinality(S) + Cardinality(T)
  BY <1>3, <1>6, <1>7
<1>9. Reboots(lg, c) = Cardinality(S) /\ Reboots(lg, e) = Cardinality(U)
  BY DEF Reboots, S, U
<1> QED BY <1>3, <1>8, <1>9 DEF T

(* A stretch of the log has as many entries as the ids are apart.          *)
LEMMA StretchCount ==
    ASSUME NEW c \in Nat, NEW m \in Nat, c <= m
    PROVE  Cardinality((c + 1) .. m) = m - c
<1>1. c + 1 \in Int /\ m \in Int
  OBVIOUS
<1>2. Cardinality((c + 1) .. m) = IF c + 1 > m THEN 0 ELSE m - (c + 1) + 1
  BY <1>1, FS_Interval
<1>3. CASE c + 1 > m
  BY <1>2, <1>3
<1>4. CASE ~(c + 1 > m)
  BY <1>2, <1>4
<1> QED BY <1>3, <1>4

(* What comes just before an entry of a stretch is the entry before it.    *)
LEMMA BeforeInStretch ==
    ASSUME NEW c \in Nat, NEW m \in Nat, NEW e \in (c + 1) .. m
    PROVE  /\ Before((c + 1) .. m, e) = {} <=> e = c + 1
           /\ e # c + 1 => Max(Before((c + 1) .. m, e)) = e - 1
<1> DEFINE B == Before((c + 1) .. m, e)
<1>1. B = (c + 1) .. (e - 1)
  BY DEF Before
<1>2. B = {} <=> e = c + 1
  <2>1. ASSUME e # c + 1 PROVE e - 1 \in B
    BY <1>1, <2>1
  <2>2. ASSUME e = c + 1, NEW x \in B PROVE FALSE
    BY <1>1, <2>2
  <2> HIDE DEF B
  <2> QED BY <2>1, <2>2
<1>3. ASSUME e # c + 1 PROVE Max(B) = e - 1
  <2>1. B # {} /\ B \subseteq 1 .. m
    <3>1. B # {}
      BY <1>2, <1>3
    <3>2. B \subseteq 1 .. m
      BY <1>1
    <3> HIDE DEF B
    <3> QED BY <3>1, <3>2
  <2> HIDE DEF B
  <2>2. PICK x : x = Max(B)
    OBVIOUS
  <2>3. x \in B /\ \A y \in B : y <= x
    BY <2>1, <2>2, MaxFact
  <2>4. e - 1 \in B
    BY <1>1, <1>3
  <2>5. x <= e - 1 /\ e - 1 <= x /\ x \in Int
    BY <1>1, <2>3, <2>4
  <2>6. x = e - 1
    BY <2>5
  <2> QED BY <2>2, <2>6
<1> QED BY <1>2, <1>3

(* A batch that continues where the cursor ended, and a cursor that has    *)
(* counted all up to it, leave nothing uncounted and count nothing twice.  *)
LEMMA TransformNumbers ==
    ASSUME NEW lg, NEW n \in Nat, \A k \in 1 .. n : lg[k].tick \in Nat,
           NEW st, st.last_digest \in (1 .. n) \union {None}, CountsOK(lg, st), TickOK(lg, st),
           NEW read, NEW m \in Cursor(st) .. n,
           select_new(lg, read, st) = (Cursor(st) + 1) .. m
    PROVE  /\ transform(lg, read, st).sequence = m
           /\ transform(lg, read, st).boot_session = Reboots(lg, m)
           /\ NumberedOK(lg, transform(lg, read, st).events)
<1>0. PICK c : c = Cursor(st)
  OBVIOUS
<1> DEFINE new == select_new(lg, read, st)
           counted == counted_reboots(lg, new, st)
<1>1. /\ c \in Nat /\ m \in Nat /\ c <= m /\ m <= n /\ new = (c + 1) .. m
      /\ st.sequence = c /\ st.boot_session = Reboots(lg, c)
  <2>1. c \in 0 .. n
    BY <1>0 DEF Cursor
  <2> QED BY <1>0, <2>1 DEF CountsOK
<1>2. transform(lg, read, st) =
        [new_entries |-> new, events |-> {entry_event(lg, new, st, e) : e \in new},
         sequence |-> st.sequence + Cardinality(new),
         boot_session |-> st.boot_session + Cardinality(counted)]
  BY DEF transform
<1> HIDE DEF new
<1>3. ASSUME NEW e \in new
      PROVE  e \in counted <=> e >= 2 /\ ShowsReboot(lg, e)
  <2>1. e \in (c + 1) .. m /\ e \in 1 .. n
    BY <1>1, <1>3
  <2>2. /\ Before(new, e) = {} <=> e = c + 1
        /\ e # c + 1 => Max(Before(new, e)) = e - 1
    BY <1>1, <2>1, BeforeInStretch
  <2>3. CASE e # c + 1
    <3>1. e - 1 \in 1 .. n /\ e >= 2
      BY <1>1, <2>1, <2>3
    <3>2. lg[e - 1].tick # None
      BY <3>1, NoneAssumption
    <3>3. rebooted(lg, new, st, e) <=> ShowsReboot(lg, e)
      BY <2>2, <2>3, <3>2 DEF rebooted, ShowsReboot
    <3>4. e \in counted <=> rebooted(lg, new, st, e)
      BY <2>2, <2>3 DEF counted_reboots
    <3> QED BY <3>1, <3>3, <3>4
  <2>4. CASE e = c + 1 /\ st.last_digest = None
    <3>1. c = 0 /\ st.last_tick = None
      BY <1>0, <2>4 DEF Cursor, TickOK
    <3>2. e \notin counted
      BY <2>2, <2>4, <3>1 DEF counted_reboots
    <3> QED BY <2>4, <3>1, <3>2
  <2>5. CASE e = c + 1 /\ st.last_digest # None
    <3>1. c = st.last_digest /\ st.last_tick = lg[c].tick /\ c \in 1 .. n
      BY <1>0, <2>5 DEF Cursor, TickOK
    <3>2. lg[c].tick # None /\ e >= 2 /\ e - 1 = c
      BY <1>1, <2>5, <3>1, NoneAssumption
    <3>3. rebooted(lg, new, st, e) <=> ShowsReboot(lg, e)
      BY <2>2, <2>5, <3>1, <3>2 DEF rebooted, ShowsReboot
    <3>4. e \in counted <=> rebooted(lg, new, st, e)
      BY <1>3, <3>1, <3>2 DEF counted_reboots
    <3> QED BY <3>2, <3>3, <3>4
  <2> QED BY <2>3, <2>4, <2>5
<1>4. counted \subseteq new
  BY DEF counted_reboots
<1> HIDE DEF counted
<1>5. ASSUME NEW e \in c .. m
      PROVE  Reboots(lg, e) = Reboots(lg, c) + Cardinality({p \in counted : p <= e})
  <2>1. ASSUME NEW p
        PROVE  p \in counted /\ p <= e
                 <=> p \in (c + 1) .. e /\ p >= 2 /\ ShowsReboot(lg, p)
    <3>1. CASE p \in new
      <4>1. p \in Int /\ p >= c + 1 /\ c + 1 \in Int /\ e \in Int
        BY <1>1, <1>5, <3>1
      <4> QED BY <1>3, <3>1, <4>1
    <3>2. CASE p \notin new
      <4>1. p \notin counted
        BY <1>4, <3>2
      <4>2. (c + 1) .. e \subseteq (c + 1) .. m
        BY <1>1, <1>5
      <4> QED BY <1>1, <3>2, <4>1, <4>2
    <3> QED BY <3>1, <3>2
  <2>2. {p \in counted : p <= e} = {k \in (c + 1) .. e : k >= 2 /\ ShowsReboot(lg, k)}
    BY <2>1
  <2> QED BY <1>1, <1>5, <2>2, RebootsSplit
<1>6. counted = {p \in counted : p <= m}
  <2>1. ASSUME NEW p \in counted PROVE p <= m
    BY <1>1, <1>4
  <2> QED BY <2>1
<1>7. Cardinality(new) = m - c
  BY <1>1, StretchCount
<1>8. ASSUME NEW e \in new
      PROVE  /\ entry_event(lg, new, st, e).id = e
             /\ entry_event(lg, new, st, e).sequence = e
             /\ entry_event(lg, new, st, e).boot_session = Reboots(lg, e)
  <2>1. e \in c .. m /\ c <= e /\ e \in Nat
    BY <1>1, <1>8
  <2>2. {p \in new : p <= e} = (c + 1) .. e
    BY <1>1, <2>1
  <2>3. Cardinality({p \in new : p <= e}) = e - c
    BY <1>1, <2>1, <2>2, StretchCount
  <2>4. c + (e - c) = e
    BY <1>1, <2>1
  <2> QED BY <1>1, <1>5, <2>1, <2>3, <2>4 DEF entry_event, counted
<1>9. /\ transform(lg, read, st).events = {entry_event(lg, new, st, e) : e \in new}
      /\ transform(lg, read, st).sequence = c + (m - c)
      /\ transform(lg, read, st).boot_session = Reboots(lg, c) + Cardinality(counted)
  BY <1>1, <1>2, <1>7
<1>10. NumberedOK(lg, transform(lg, read, st).events)
  BY <1>8, <1>9 DEF NumberedOK
<1>11. m \in c .. m /\ c + (m - c) = m
  BY <1>1
<1> QED BY <1>5, <1>6, <1>9, <1>10, <1>11

(* What was counted stays counted when the log grows.                      *)
LEMMA CountsStay ==
    ASSUME NEW lg, NEW lg2, NEW n \in Nat, \A i \in 1 .. n : lg2[i] = lg[i]
    PROVE  /\ \A e \in 0 .. n : Reboots(lg2, e) = Reboots(lg, e)
           /\ \A st : st.last_digest \in (1 .. n) \union {None} =>
                /\ CountsOK(lg, st) => CountsOK(lg2, st)
                /\ TickOK(lg, st) => TickOK(lg2, st)
           /\ \A events : (\A v \in events : v.id \in 1 .. n) /\ NumberedOK(lg, events) =>
                NumberedOK(lg2, events)
<1>1. ASSUME NEW e \in 0 .. n PROVE Reboots(lg2, e) = Reboots(lg, e)
  <2>1. ASSUME NEW k \in 2 .. e PROVE ShowsReboot(lg2, k) <=> ShowsReboot(lg, k)
    <3>1. k \in 1 .. n /\ k - 1 \in 1 .. n
      BY <1>1, <2>1
    <3> QED BY <3>1 DEF ShowsReboot
  <2>2. {k \in 2 .. e : ShowsReboot(lg2, k)} = {k \in 2 .. e : ShowsReboot(lg, k)}
    BY <2>1
  <2> QED BY <2>2 DEF Reboots
<1>2. ASSUME NEW st, st.last_digest \in (1 .. n) \union {None}
      PROVE  /\ CountsOK(lg, st) => CountsOK(lg2, st)
             /\ TickOK(lg, st) => TickOK(lg2, st)
  <2>1. Cursor(st) \in 0 .. n
    BY <1>2 DEF Cursor
  <2> QED BY <1>1, <1>2, <2>1 DEF CountsOK, TickOK
<1>3. ASSUME NEW events, \A v \in events : v.id \in 1 .. n, NumberedOK(lg, events)
      PROVE  NumberedOK(lg2, events)
  <2>1. \A v \in events : v.id \in 0 .. n
    BY <1>3
  <2> QED BY <1>1, <1>3, <2>1 DEF NumberedOK
<1> QED BY <1>1, <1>2, <1>3

(* A cursor that names no entry has counted nothing.                       *)
LEMMA DefaultCounts ==
    ASSUME NEW lg
    PROVE  /\ CountsOK(lg, DefaultState) /\ TickOK(lg, DefaultState)
           /\ Cursor(DefaultState) = 0 /\ DefaultState.last_digest = None
<1>1. {k \in 2 .. 0 : ShowsReboot(lg, k)} = {}
  OBVIOUS
<1>2. Reboots(lg, 0) = 0
  BY <1>1, FS_EmptySet DEF Reboots
<1> QED BY <1>2 DEF DefaultState, CountsOK, TickOK, Cursor

(* What a device records is in order; under force-audit it never           *)
(* overwrites.                                                             *)
LEMMA RecordInOrder ==
    ASSUME DeviceTypeOK, ErasOK, FallsOK,
           NEW f, NEW b \in BOOLEAN, NEW o, NEW c, NEW t \in Nat, NEW n \in Nat,
           Record(f, b, o, c, t, n), boots' = n, tick' \in Nat,
           \/ b = FALSE /\ n = boots /\ tick <= t /\ tick' = t
           \/ b = TRUE /\ n = boots + 1 /\ tick' = 0
    PROVE  ErasOK' /\ FallsOK' /\ (ForceAudit => freed' = f)
<1>0. /\ Len(log) \in Nat /\ boots \in Nat /\ tick \in Nat /\ Ids = 1 .. Len(log)
      /\ \A i \in Ids : log[i].tick \in Nat /\ log[i].era \in Nat
  <2>1. \A i \in Ids : log[i] \in LogEntry
    BY DEF DeviceTypeOK, Ids
  <2>2. \A i \in Ids : log[i].tick \in Nat /\ log[i].era \in Nat
    BY <2>1 DEF LogEntry
  <2> QED BY <2>2 DEF DeviceTypeOK, Ids
<1>1. /\ ForceAudit => freed' = f
      /\ log' = log \/ log' = Append(log, NextEntry(b, o, t, n))
  BY DEF Record
<1>2. CASE log' = log
  <2>1. Ids' = Ids /\ (\A i : Sentinel(i)' <=> Sentinel(i))
    BY <1>2 DEF Ids, Sentinel
  <2>2. ErasOK'
    BY <1>0, <1>2, <2>1 DEF ErasOK
  <2>3. FallsOK'
    BY <1>2, <2>1 DEF FallsOK
  <2> QED BY <1>1, <2>2, <2>3
<1>3. CASE log' = Append(log, NextEntry(b, o, t, n))
  <2>m. PICK m : m = Len(log)
    OBVIOUS
  <2>1. /\ Ids' = 1 .. (m + 1) /\ m \in Nat
        /\ \A i \in 1 .. m : log'[i] = log[i]
        /\ log'[m + 1] = NextEntry(b, o, t, n)
    BY <1>0, <1>3, <2>m DEF Ids, DeviceTypeOK
  <2>2. log'[m + 1].boot = b /\ log'[m + 1].tick = t /\ log'[m + 1].era = n
    BY <2>1 DEF NextEntry
  <2>3. /\ \A i \in 1 .. m : Sentinel(i)' <=> Sentinel(i)
        /\ Sentinel(m + 1)' <=> b /\ t > 0
    BY <2>1, <2>2 DEF Sentinel
  <2>4. Ids = 1 .. m
    BY <1>0, <2>m
  <2>5. ASSUME NEW i \in Ids'
        PROVE  log'[i].era <= boots' /\ (log'[i].era = boots' /\ ~Sentinel(i)' => log'[i].tick <= tick')
    <3>1. CASE i = m + 1
      BY <1>0, <2>1, <2>2, <2>3, <3>1
    <3>2. CASE i # m + 1
      <4>1. i \in 1 .. m /\ i \in Ids /\ log'[i] = log[i]
        BY <2>1, <2>4, <3>2
      <4>2. log[i].era <= boots /\ (log[i].era = boots /\ ~Sentinel(i) => log[i].tick <= tick)
        BY <4>1 DEF ErasOK
      <4> QED BY <1>0, <2>3, <4>1, <4>2
    <3> QED BY <3>1, <3>2
  <2>6. ASSUME NEW i \in Ids', NEW j \in Ids', i < j
        PROVE  /\ log'[i].era <= log'[j].era
               /\ log'[i].era = log'[j].era =>
                     ~is_boot_entry(log'[j]) /\ (~Sentinel(i)' => log'[i].tick <= log'[j].tick)
    <3>1. i \in 1 .. m /\ i \in Ids /\ log'[i] = log[i]
      BY <2>1, <2>4, <2>6
    <3>2. CASE j = m + 1
      <4>1. log[i].era <= boots /\ (log[i].era = boots /\ ~Sentinel(i) => log[i].tick <= tick)
        BY <3>1 DEF ErasOK
      <4> QED BY <1>0, <2>2, <2>3, <3>1, <3>2, <4>1 DEF is_boot_entry
    <3>3. CASE j # m + 1
      <4>1. j \in Ids /\ log'[j] = log[j]
        BY <2>1, <2>4, <3>3
      <4> QED BY <2>3, <2>6, <3>1, <4>1 DEF ErasOK
    <3> QED BY <3>2, <3>3
  <2>7. ErasOK'
    BY <2>5, <2>6 DEF ErasOK
  <2>8. ASSUME NEW k \in 2 .. m, ShowsReboot(log, k)
        PROVE  ShowsReboot(log', k)
    <3>1. k \in 1 .. m /\ k - 1 \in 1 .. m
      BY <2>1, <2>8
    <3> QED BY <2>1, <2>8, <3>1 DEF ShowsReboot
  <2>9. ASSUME NEW i \in Ids', NEW j \in Ids', i < j, log'[j].tick < log'[i].tick
        PROVE  \E k \in (i + 1) .. j : ShowsReboot(log', k)
    <3>1. i \in 1 .. m /\ i \in Ids /\ log'[i] = log[i]
      BY <2>1, <2>4, <2>9
    <3>old. ASSUME NEW h \in Ids, i < h, log[h].tick < log[i].tick, h <= j
            PROVE  \E k \in (i + 1) .. j : ShowsReboot(log', k)
      <4>1. PICK k \in (i + 1) .. h : ShowsReboot(log, k)
        BY <3>1, <3>old DEF FallsOK
      <4>2. k \in 2 .. m /\ k \in (i + 1) .. j
        BY <2>1, <2>4, <3>1, <3>old
      <4> QED BY <2>8, <4>1, <4>2
    <3>2. CASE j \in Ids
      BY <2>1, <2>4, <2>9, <3>1, <3>2, <3>old
    <3>3. CASE j \notin Ids
      <4>1. j = m + 1 /\ j \in (i + 1) .. j /\ m \in Ids /\ j - 1 = m /\ log'[m] = log[m]
        BY <2>1, <2>4, <3>1, <3>3
      <4>2. CASE b \/ t < log[m].tick
        <5>1. ShowsReboot(log', j)
          BY <2>2, <4>1, <4>2 DEF ShowsReboot, is_boot_entry
        <5> QED BY <4>1, <5>1
      <4>3. CASE ~b /\ ~(t < log[m].tick)
        <5>1. log[m].tick < log[i].tick
          BY <1>0, <2>2, <2>9, <3>1, <4>1, <4>3
        <5>2. i < m /\ m <= j
          BY <1>0, <2>1, <3>1, <4>1, <5>1
        <5> QED BY <3>old, <4>1, <5>1, <5>2
      <4> QED BY <4>2, <4>3
    <3> QED BY <3>2, <3>3
  <2>10. FallsOK'
    BY <2>9 DEF FallsOK
  <2> QED BY <1>1, <2>7, <2>10
<1> QED BY <1>1, <1>2, <1>3

(* So does a command of the collector itself.                              *)
LEMMA RecordOwnInOrder ==
    ASSUME DeviceTypeOK, ErasOK, FallsOK,
           NEW cmd, NEW f, RecordOwn(cmd, f), UNCHANGED <<tick, boots>>
    PROVE  ErasOK' /\ FallsOK' /\ (ForceAudit => freed' = f)
<1>1. CASE cmd \in Audited
  <2>1. /\ Record(f, FALSE, TRUE, cmd = "authenticate_session", tick, boots)
        /\ tick \in Nat /\ boots \in Nat
    BY <1>1 DEF RecordOwn, DeviceTypeOK
  <2>2. tick <= tick /\ FALSE \in BOOLEAN
    BY <2>1
  <2> QED BY <2>1, <2>2, RecordInOrder
<1>2. CASE cmd \notin Audited
  <2>1. freed' = f /\ log' = log
    BY <1>2 DEF RecordOwn
  <2>2. Ids' = Ids /\ (\A i : Sentinel(i)' <=> Sentinel(i))
    BY <2>1 DEF Ids, Sentinel
  <2>3. ErasOK'
    BY <2>1, <2>2 DEF ErasOK
  <2>4. FallsOK'
    BY <2>1, <2>2 DEF FallsOK
  <2> QED BY <2>1, <2>3, <2>4
<1> QED BY <1>1, <1>2

(* And what happens to the device on its own, a reset included; where      *)
(* nobody else takes entries, none leaves the buffer.                      *)
LEMMA DeviceInOrder ==
    ASSUME DeviceTypeOK, ErasOK, FallsOK, DeviceNext
    PROVE  ErasOK' /\ FallsOK' /\ (Undisturbed => freed' = freed)
<1>0. /\ tick \in Nat /\ boots \in Nat /\ TickSteps \subseteq Nat /\ BootTicks \subseteq Nat
      /\ Undisturbed => ForceAudit /\ MaxShared = 0 /\ MaxResets = 0
  BY DeviceAssumption DEF Undisturbed, DeviceTypeOK
<1>1. CASE AppOp
  <2>1. PICK d \in TickSteps :
          /\ Record(freed, FALSE, FALSE, FALSE, tick + d, boots)
          /\ tick' = tick + d /\ boots' = boots
    BY <1>1 DEF AppOp
  <2>2. tick + d \in Nat /\ tick <= tick + d
    BY <1>0
  <2> QED BY <1>0, <2>1, <2>2, RecordInOrder
<1>2. CASE Reboot
  <2>1. PICK t \in BootTicks :
          Record(freed, TRUE, FALSE, TRUE, t, boots + 1) /\ tick' = 0 /\ boots' = boots + 1
    BY <1>2 DEF Reboot
  <2>2. t \in Nat /\ boots + 1 \in Nat
    BY <1>0
  <2> QED BY <1>0, <2>1, <2>2, RecordInOrder
<1>same. ASSUME log' = log PROVE FallsOK' /\ Ids' = Ids /\ (\A i : Sentinel(i)' <=> Sentinel(i))
  <2>1. Ids' = Ids
    BY <1>same DEF Ids
  <2> QED BY <1>same, <2>1 DEF FallsOK, Sentinel, ShowsReboot
<1>3. CASE OtherConsumer
  <2>1. log' = log /\ tick' = tick /\ boots' = boots /\ ~Undisturbed
    BY <1>0, <1>3 DEF OtherConsumer, DeviceTypeOK
  <2>2. ErasOK'
    BY <1>same, <2>1 DEF ErasOK
  <2> QED BY <1>same, <2>1, <2>2
<1>4. CASE Reset
  <2>1. log' = log /\ tick' = 0 /\ boots' = boots + 1 /\ ~Undisturbed
    BY <1>0, <1>4 DEF Reset, DeviceTypeOK
  <2>2. \A i \in Ids : log[i].era <= boots + 1 /\ log[i].era # boots + 1
    <3>1. \A i \in Ids : log[i].era <= boots /\ log[i].era \in Nat
      <4>1. \A i \in Ids : log[i] \in LogEntry
        BY DEF DeviceTypeOK, Ids
      <4> QED BY <4>1 DEF ErasOK, LogEntry
    <3> QED BY <1>0, <3>1
  <2>3. ErasOK'
    BY <1>same, <2>1, <2>2 DEF ErasOK
  <2> QED BY <1>same, <2>1, <2>3
<1> QED BY <1>1, <1>2, <1>3, <1>4 DEF DeviceNext

(* The cursors never fall behind by more than two buffers.                 *)
LEMMA OrderInWindow ==
    ASSUME 2 * Capacity < Half, TypeOK, RingOK, OrderInvariant, SavedCursorsOK, CursorOK(state)
    PROVE  InWindow
<1>0. /\ Len(log) \in Nat /\ freed \in Nat /\ Capacity \in Nat /\ Half \in Nat
      /\ Len(log) - freed <= Capacity
      /\ older = {disk} /\ LoadedOK /\ FreedOK /\ LagOK /\ CursorOK(disk)
      /\ transformed.new_entries \subseteq Ids
  BY HalfAssumption, DeviceAssumption
  DEF TypeOK, DeviceTypeOK, RingOK, log_store_used, OrderInvariant, SavedCursorsOK
<1>1. ASSUME disk.last_digest # None PROVE Len(log) - disk.last_digest < Half
  <2>1. disk.last_digest \in Nat
    BY <1>0, <1>1 DEF CursorOK, Ids
  <2> QED BY <1>0, <1>1, <2>1 DEF LagOK
<1>2. ASSUME state.last_digest # None PROVE Len(log) - state.last_digest < Half
  <2>1. state.last_digest \in Nat
    BY <1>0, <1>2 DEF CursorOK, Ids
  <2>2. CASE pc \in {"commit", "save", "rename"}
    <3>1. freed <= state.last_digest
      BY <1>0, <1>2, <2>2 DEF FreedOK, Cursor
    <3> QED BY <1>0, <2>1, <3>1
  <2>3. CASE pc \notin {"commit", "save", "rename"}
    <3>1. state = disk
      BY <1>0, <1>2, <2>3 DEF LoadedOK, DefaultState
    <3> QED BY <1>1, <1>2, <3>1
  <2> QED BY <2>2, <2>3
<1>3. ASSUME NEW e \in transformed.new_entries PROVE Len(log) - e < Half
  <2>1. e \in Nat /\ freed <= e + Capacity
    BY <1>0, <1>3 DEF LagOK, Ids
  <2> QED BY <1>0, <2>1
<1> QED BY <1>0, <1>1, <1>2, <1>3 DEF InWindow

(* A batch ends within the log.                                            *)
LEMMA BatchEnds ==
    ASSUME TypeOK, OrderInvariant, CursorOK(state), pc \in {"emit", "set_log_index", "commit"}
    PROVE  transformed.sequence \in 0 .. Len(log)
<1>1. /\ transformed.sequence \in Nat /\ transformed.new_entries \subseteq 1 .. Len(log)
      /\ Len(log) \in Nat /\ NextBatchOK
  BY DEF TypeOK, DeviceTypeOK, OrderInvariant, Ids
<1>2. Cursor(state) \in 0 .. Len(log)
  BY <1>1 DEF CursorOK, Cursor, Ids
<1>3. CASE pc = "commit"
  BY <1>1, <1>2, <1>3 DEF NextBatchOK
<1>4. CASE pc \in {"emit", "set_log_index"}
  <2>1. PICK c, m : c = Cursor(state) /\ m = transformed.sequence
    OBVIOUS
  <2>2. c <= m /\ transformed.new_entries = (c + 1) .. m /\ c \in 0 .. Len(log) /\ m \in Nat
    BY <1>1, <1>2, <1>4, <2>1 DEF NextBatchOK
  <2>3. CASE c = m
    BY <2>1, <2>2, <2>3
  <2>4. CASE c # m
    <3>1. m \in (c + 1) .. m
      BY <2>2, <2>4
    <3> QED BY <1>1, <2>1, <2>2, <3>1
  <2> QED BY <2>3, <2>4
<1> QED BY <1>3, <1>4

(* All that a read and a cursor are worth, once more entries are recorded. *)
LEMMA NumbersStay ==
    ASSUME TypeOK, OrderInvariant, SavedCursorsOK, CursorOK(state), LogGrows
    PROVE  /\ CountsOK(log', disk) /\ TickOK(log', disk)
           /\ pc # "commit" => CountsOK(log', state)
           /\ TickOK(log', state)
           /\ NumberedOK(log', emitted) /\ NumberedOK(log', transformed.events)
           /\ pc \in {"emit", "set_log_index", "commit"} =>
                 transformed.boot_session = Reboots(log', transformed.sequence)
<1>1. Len(log) \in Nat /\ \A i \in 1 .. Len(log) : log'[i] = log[i]
  BY DEF LogGrows, TypeOK, DeviceTypeOK
<1>2. /\ disk.last_digest \in (1 .. Len(log)) \union {None}
      /\ state.last_digest \in (1 .. Len(log)) \union {None}
  BY DEF SavedCursorsOK, CursorOK, TypeOK, Ids
<1>3. /\ \A v \in emitted : v.id \in 1 .. Len(log)
      /\ \A v \in transformed.events : v.id \in 1 .. Len(log)
  BY DEF TypeOK, Events, Ids
<1>4. /\ CountsOK(log', disk) /\ TickOK(log', disk)
      /\ pc # "commit" => CountsOK(log', state)
      /\ TickOK(log', state)
  BY <1>1, <1>2, CountsStay DEF OrderInvariant
<1>5. NumberedOK(log', emitted) /\ NumberedOK(log', transformed.events)
  BY <1>1, <1>3, CountsStay DEF OrderInvariant
<1>6. ASSUME pc \in {"emit", "set_log_index", "commit"}
      PROVE  transformed.boot_session = Reboots(log', transformed.sequence)
  <2>1. transformed.sequence \in 0 .. Len(log)
    BY <1>6, BatchEnds
  <2>2. transformed.boot_session = Reboots(log, transformed.sequence)
    BY <1>6 DEF OrderInvariant, NextBatchOK
  <2> QED BY <1>1, <2>1, <2>2, CountsStay
<1> QED BY <1>4, <1>5, <1>6

(* The steps that leave a poll where it is.                                *)
LEMMA OrderStays ==
    ASSUME TypeOK, OrderInvariant, SavedCursorsOK, CursorOK(state),
           LogGrows, ErasOK', FallsOK', freed' = freed,
           UNCHANGED <<pc, fileVars, state, entries, transformed, emitted>>
    PROVE  OrderInvariant'
<1> USE DEF fileVars
<1>1. /\ CountsOK(log', disk)  /\ TickOK(log', disk)
      /\ pc # "commit" => CountsOK(log', state)
      /\ TickOK(log', state)
      /\ NumberedOK(log', emitted) /\ NumberedOK(log', transformed.events)
      /\ pc \in {"emit", "set_log_index", "commit"} =>
            transformed.boot_session = Reboots(log', transformed.sequence)
  BY NumbersStay
<1>2. LoadedOK' /\ FreedOK' /\ LagOK'
  BY DEF OrderInvariant, LoadedOK, FreedOK, LagOK, DefaultState
<1>3. NextReadOK'
  <2> SUFFICES ASSUME pc = "enrich"
               PROVE  \E n \in Cursor(state) .. Len(log') :
                        {e \in entries : e > Cursor(state)} = (Cursor(state) + 1) .. n
    BY DEF NextReadOK, Cursor
  <2>1. PICK n \in Cursor(state) .. Len(log) :
               {e \in entries : e > Cursor(state)} = (Cursor(state) + 1) .. n
    BY DEF OrderInvariant, NextReadOK
  <2>2. Cursor(state) \in Nat /\ Len(log) \in Nat
    BY DEF CursorOK, Cursor, Ids, TypeOK, DeviceTypeOK
  <2>3. n \in Cursor(state) .. Len(log')
    BY <2>2 DEF LogGrows
  <2> QED BY <2>1, <2>3
<1>4. NextBatchOK'
  BY <1>1 DEF OrderInvariant, NextBatchOK
<1> QED BY <1>1, <1>2, <1>3, <1>4 DEF OrderInvariant

(* The steps of a poll that has not read the log, and those that end one   *)
(* which has not moved its cursor.                                         *)
LEMMA OrderAtRest ==
    ASSUME TypeOK, OrderInvariant, SavedCursorsOK, CursorOK(state),
           LogGrows, ErasOK', FallsOK', freed' = freed, UNCHANGED fileVars,
           pc \notin {"commit", "save", "rename"},
           pc' \in {"idle", "skip", "create_session", "authenticate_session", "device_info",
                   "get_log_entries"},
           state' = IF pc' = "skip" THEN disk ELSE DefaultState,
           transformed' \in {transformed, NothingTransformed},
           NumberedOK(log', emitted')
    PROVE  OrderInvariant'
<1> USE DEF fileVars
<1>1. /\ CountsOK(log', disk)  /\ TickOK(log', disk) /\ NumberedOK(log', transformed.events)
      /\ CountsOK(log', DefaultState) /\ TickOK(log', DefaultState)
  BY NumbersStay, DefaultCounts
<1>2. NumberedOK(log', transformed'.events)
  <2>1. NumberedOK(log', NothingTransformed.events)
    BY DEF NothingTransformed, NumberedOK
  <2> QED BY <1>1, <2>1
<1>3. CountsOK(log', state') /\ TickOK(log', state')
  BY <1>1
<1>4. FreedOK'
  BY DEF OrderInvariant, FreedOK
<1>5. LagOK'
  BY DEF OrderInvariant, LagOK, NothingTransformed
<1>6. LoadedOK' /\ NextReadOK' /\ NextBatchOK'
  BY DEF LoadedOK, NextReadOK, NextBatchOK, DefaultState
<1> QED BY <1>1, <1>2, <1>3, <1>4, <1>5, <1>6 DEF OrderInvariant

LEMMA OrderInvariantInit == Init => OrderInvariant
<1> SUFFICES ASSUME Init PROVE OrderInvariant
  OBVIOUS
<1>1. ErasOK /\ FallsOK
  BY DEF Init, DeviceInit, ErasOK, FallsOK, Ids
<1>2. /\ CountsOK(log, disk) /\ TickOK(log, disk)
      /\ CountsOK(log, state) /\ TickOK(log, state)
  BY DefaultCounts DEF Init
<1>3. LoadedOK /\ FreedOK /\ LagOK
  BY DefaultCounts DEF Init, DeviceInit, LoadedOK, FreedOK, LagOK, NothingTransformed
<1>4. NextReadOK /\ NextBatchOK
  BY DEF Init, NextReadOK, NextBatchOK
<1>5. NumberedOK(log, transformed.events) /\ NumberedOK(log, emitted)
  BY DEF Init, NothingTransformed, NumberedOK
<1> QED BY <1>1, <1>2, <1>3, <1>4, <1>5 DEF OrderInvariant, Init

(* A cursor names an item exactly when it names an entry.                  *)
LEMMA CursorItem ==
    ASSUME DeviceTypeOK, NEW st, CursorOK(st)
    PROVE  st.last_item = None <=> st.last_digest = None
<1>1. CASE st.last_item = None /\ st.last_digest = None
  BY <1>1
<1>2. CASE st.last_digest \in Ids /\ st.last_item = log[st.last_digest].item
  <2>1. log[st.last_digest] \in LogEntry
    BY <1>2 DEF Ids, DeviceTypeOK
  <2>2. st.last_item \in Int /\ st.last_digest \in Int
    BY <1>2, <2>1 DEF LogEntry, Items, Ids
  <2> QED BY <2>2, NoneAssumption
<1> QED BY <1>1, <1>2 DEF CursorOK

LEMMA OrderInvariantNext ==
    ASSUME Undisturbed, 2 * Capacity < Half,
           TypeOK, InWindow, PollInvariant, VerdictInvariant, OrderInvariant, [Next]_vars
    PROVE  OrderInvariant'
<1> USE DEF fileVars
<1>0. /\ DeviceTypeOK /\ ItemsInOrder /\ SavedCursorsOK /\ CursorOK(state) /\ CursorOK(disk)
      /\ ErasOK /\ FallsOK /\ RingOK /\ ReadOK
      /\ Len(log) \in Nat /\ freed \in Nat /\ freed <= Len(log) /\ freed \in freed .. Len(log)
      /\ Capacity \in Nat /\ Half \in Nat /\ Len(log) - freed <= Capacity
      /\ ForceAudit /\ ~PowerMayFail
      /\ Cursor(state) \in 0 .. Len(log) /\ Cursor(disk) \in 0 .. Len(log)
  <2>1. /\ DeviceTypeOK /\ ItemsInOrder /\ SavedCursorsOK /\ CursorOK(state) /\ disk \in older
        /\ ErasOK /\ FallsOK /\ RingOK /\ ReadOK /\ ForceAudit /\ ~PowerMayFail
        /\ Capacity \in Nat /\ Half \in Nat
    BY DeviceAssumption, HalfAssumption
    DEF TypeOK, PollInvariant, VerdictInvariant, OrderInvariant, Undisturbed
  <2>2. CursorOK(disk)
    BY <2>1 DEF SavedCursorsOK
  <2> QED BY <2>1, <2>2 DEF RingOK, log_store_used, DeviceTypeOK, CursorOK, Cursor, Ids
(* The device stays as it is, or records what the collector does to it.    *)
<1>same. ASSUME UNCHANGED deviceVars
         PROVE  LogGrows /\ ErasOK' /\ FallsOK' /\ UNCHANGED <<log, freed>>
  <2>1. UNCHANGED <<log, freed, tick, boots>> /\ Ids' = Ids
    BY <1>same DEF deviceVars, Ids
  <2>2. LogGrows
    BY <1>0, <2>1 DEF LogGrows
  <2>3. ErasOK'
    BY <1>0, <2>1 DEF ErasOK, Sentinel
  <2>4. FallsOK'
    BY <1>0, <2>1 DEF FallsOK
  <2> QED BY <2>1, <2>2, <2>3, <2>4
<1>own. ASSUME NEW cmd, NEW f \in freed .. Len(log), RecordOwn(cmd, f),
               UNCHANGED <<born, tick, boots, serial, resets, shared>>
        PROVE  LogGrows /\ ErasOK' /\ FallsOK' /\ freed' = f
  <2>1. LogGrows
    BY <1>0, <1>own, RecordOwnType
  <2> QED BY <1>0, <1>own, <2>1, RecordOwnInOrder
<1>1. CASE Poll
  <2>1. /\ UNCHANGED <<deviceVars, transformed, fileVars, emitted>> /\ pc = "idle"
        /\ \/ pc' = "skip" /\ state' = disk
           \/ pc' = "create_session" /\ state' = state
    BY <1>1 DEF Poll, sinkVars
  <2>2. state = DefaultState
    BY <2>1 DEF OrderInvariant, LoadedOK
  <2>3. NumberedOK(log', emitted')
    BY <1>0, <1>same, <2>1, NumbersStay
  <2> QED BY <1>0, <1>same, <2>1, <2>2, <2>3, OrderAtRest
<1>2. CASE Skip
  <2>1. /\ UNCHANGED <<deviceVars, entries, transformed, fileVars, emitted>>
        /\ pc = "skip" /\ pc' = "save" /\ state' = [state EXCEPT !.polls_skipped = @ + 1]
    BY <1>2 DEF Skip, sinkVars
  <2>2. state = disk /\ state \in DeviceStates
    BY <2>1 DEF OrderInvariant, LoadedOK, TypeOK
  <2>3. /\ state'.last_digest = disk.last_digest /\ state'.last_tick = disk.last_tick
        /\ state'.sequence = disk.sequence /\ state'.boot_session = disk.boot_session
    BY <2>1, <2>2 DEF DeviceStates
  <2>4. Cursor(state') = Cursor(disk)
    BY <2>3 DEF Cursor
  <2>5. CountsOK(log', state') /\ TickOK(log', state')
    BY <1>same, <2>1, <2>3, <2>4 DEF OrderInvariant, CountsOK, TickOK
  <2>6. FreedOK' /\ LagOK' /\ LoadedOK' /\ NextReadOK' /\ NextBatchOK'
    BY <1>same, <2>1, <2>4
    DEF OrderInvariant, FreedOK, LagOK, LoadedOK, NextReadOK, NextBatchOK
  <2> QED BY <1>same, <2>1, <2>5, <2>6 DEF OrderInvariant
<1>3. CASE CreateSession \/ AuthenticateSession \/ GetDeviceInfo
  <2>1. /\ UNCHANGED <<born, tick, boots, serial, resets, shared, state, transformed, fileVars,
                       emitted>>
        /\ pc \in {"create_session", "authenticate_session", "device_info"}
        /\ pc' \in {"authenticate_session", "device_info", "get_log_entries"}
    BY <1>3 DEF CreateSession, AuthenticateSession, GetDeviceInfo, sinkVars
  <2>2. LogGrows /\ ErasOK' /\ FallsOK' /\ freed' = freed
    BY <1>0, <1>3, <1>own, <2>1 DEF CreateSession, AuthenticateSession, GetDeviceInfo
  <2>3. state = DefaultState
    BY <2>1 DEF OrderInvariant, LoadedOK
  <2>4. NumberedOK(log', emitted')
    BY <1>0, <2>1, <2>2, NumbersStay
  <2> QED BY <1>0, <2>1, <2>2, <2>3, <2>4, OrderAtRest
<1>4. CASE GetLogEntries
  <2>1. /\ UNCHANGED <<born, tick, boots, serial, resets, shared, transformed, fileVars, emitted>>
        /\ RecordOwn("get_log_entries", freed)
        /\ pc = "get_log_entries" /\ pc' = "enrich" /\ entries' = Buffer /\ state' = disk
    BY <1>4 DEF GetLogEntries, sinkVars
  <2>2. LogGrows /\ ErasOK' /\ FallsOK' /\ freed' = freed
    BY <1>0, <1>own, <2>1
  <2>3. /\ CountsOK(log', disk) /\ TickOK(log', disk)
        /\ NumberedOK(log', emitted) /\ NumberedOK(log', transformed.events)
    BY <1>0, <2>2, NumbersStay
  <2>4. freed <= Cursor(disk)
    BY <2>1 DEF OrderInvariant, FreedOK
  <2>5. {e \in Buffer : e > Cursor(disk)} = (Cursor(disk) + 1) .. Len(log)
    BY <1>0, <2>4 DEF Buffer
  <2>6. Len(log) \in Cursor(disk) .. Len(log')
    BY <1>0, <2>2 DEF LogGrows
  <2>7. NextReadOK'
    BY <2>1, <2>5, <2>6 DEF NextReadOK, Cursor
  <2>8. FreedOK' /\ LagOK' /\ LoadedOK' /\ NextBatchOK'
    BY <2>1, <2>2 DEF OrderInvariant, FreedOK, LagOK, LoadedOK, NextBatchOK
  <2> QED BY <2>1, <2>2, <2>3, <2>7, <2>8 DEF OrderInvariant
<1>5. CASE Enrich
  <2>1. UNCHANGED <<pc, fileVars, state, entries, transformed, emitted>>
    BY <1>5 DEF Enrich, sinkVars
  <2>2. UNCHANGED <<born, tick, boots, serial, resets, shared>>
    BY <1>5 DEF Enrich
  <2>3. CASE UNCHANGED <<log, freed, gone, unlogged>>
    <3>1. UNCHANGED deviceVars
      BY <2>2, <2>3 DEF deviceVars
    <3> QED BY <1>0, <1>same, <2>1, <3>1, OrderStays
  <2>4. CASE RecordOwn("list_objects", freed)
    BY <1>0, <1>own, <2>1, <2>2, <2>4, OrderStays
  <2> QED BY <1>5, <2>3, <2>4 DEF Enrich
<1>6. CASE Transform
  <2>1. /\ pc = "enrich" /\ pc' = "emit" /\ transformed' = transform(log, entries, state)
        /\ UNCHANGED <<deviceVars, state, entries, fileVars, emitted>>
    BY <1>6 DEF Transform, sinkVars
  <2>2. PICK c : c = Cursor(state)
    OBVIOUS
  <2>3. PICK n \in c .. Len(log) : {e \in entries : e > c} = (c + 1) .. n
    BY <2>1, <2>2 DEF OrderInvariant, NextReadOK
  <2>4. select_new(log, entries, state) = {e \in entries : e > c}
    <3>1. entries \subseteq Ids
      BY DEF TypeOK
    <3>2. CASE state.last_item = None
      <4>1. c = 0
        BY <1>0, <2>2, <3>2, NoneAssumption, CursorItem DEF Cursor
      <4>2. \A e \in entries : e > c
        BY <1>0, <3>1, <4>1 DEF Ids
      <4>3. {e \in entries : e > c} = entries
        BY <4>2
      <4> QED BY <3>2, <4>3 DEF select_new
    <3>3. CASE state.last_item # None
      <4>1. c \in Ids /\ state.last_digest = c /\ c # None /\ c \in Nat
        BY <1>0, <2>2, <3>3, NoneAssumption DEF CursorOK, Cursor, Ids
      <4>2. ASSUME NEW e \in entries
            PROVE  e \in select_new(log, entries, state) <=> e > c
        <5>1. e \in Nat
          BY <3>1 DEF Ids
        <5>2. ASSUME e <= c PROVE c - e < Half
          <6>1. c \in entries /\ c - e < Capacity
            BY <2>1, <4>1, <4>2, <5>2 DEF OrderInvariant, VerdictInvariant, ReadOK
          <6> QED BY <1>0, <4>1, <5>1, <6>1
        <5>3. state.last_digest # None => Len(log) - state.last_digest < Half
          BY DEF InWindow
        <5> QED BY <1>0, <3>3, <4>1, <4>2, <5>1, <5>2, <5>3, SelectAfterCursor
      <4>3. select_new(log, entries, state) \subseteq entries
        BY SelectNewSubset
      <4> QED BY <4>2, <4>3
    <3> QED BY <3>2, <3>3
  <2>5. /\ transform(log, entries, state).sequence = n
        /\ transform(log, entries, state).boot_session = Reboots(log, n)
        /\ NumberedOK(log, transform(log, entries, state).events)
    <3>1. \A k \in 1 .. Len(log) : log[k].tick \in Nat
      <4>1. \A k \in 1 .. Len(log) : log[k] \in LogEntry
        BY <1>0 DEF DeviceTypeOK
      <4> QED BY <4>1 DEF LogEntry
    <3>2. state.last_digest \in (1 .. Len(log)) \union {None}
      BY <1>0 DEF CursorOK, Ids
    <3>3. CountsOK(log, state) /\ TickOK(log, state)
      BY <2>1 DEF OrderInvariant
    <3> QED BY <1>0, <2>2, <2>3, <2>4, <3>1, <3>2, <3>3, TransformNumbers
  <2>6. transform(log, entries, state).new_entries = (c + 1) .. n
    BY <2>3, <2>4 DEF transform
  <2>7. /\ transformed'.new_entries = (c + 1) .. n /\ transformed'.sequence = n /\ c <= n
        /\ transformed'.boot_session = Reboots(log, n) /\ NumberedOK(log, transformed'.events)
    BY <1>0, <2>1, <2>2, <2>3, <2>5, <2>6
  <2>8. LoadedOK' /\ FreedOK' /\ NextReadOK'
    BY <1>same, <2>1 DEF OrderInvariant, LoadedOK, FreedOK, NextReadOK
  <2>9. LagOK'
    <3>1. freed <= c /\ c \in Nat
      BY <1>0, <2>1, <2>2 DEF OrderInvariant, LoadedOK, FreedOK
    <3>2. \A e \in (c + 1) .. n : freed <= e + Capacity
      BY <1>0, <3>1
    <3> QED BY <1>same, <2>1, <2>7, <3>2 DEF OrderInvariant, LagOK
  <2>10. NextBatchOK'
    BY <1>same, <2>1, <2>2, <2>7 DEF NextBatchOK, Cursor
  <2> QED BY <1>same, <2>1, <2>7, <2>8, <2>9, <2>10 DEF OrderInvariant
<1>7. CASE Emit
  <2>1. /\ pc = "emit" /\ pc' = "set_log_index" /\ emitted' = emitted \union transformed.events
        /\ UNCHANGED <<deviceVars, state, entries, fileVars, transformed>>
    BY <1>7 DEF Emit
  <2>2. NumberedOK(log, emitted')
    BY <2>1 DEF OrderInvariant, NumberedOK
  <2>3. LoadedOK' /\ FreedOK' /\ LagOK' /\ NextReadOK' /\ NextBatchOK'
    BY <1>same, <2>1 DEF OrderInvariant, LoadedOK, FreedOK, LagOK, NextReadOK, NextBatchOK
  <2> QED BY <1>same, <2>1, <2>2, <2>3 DEF OrderInvariant
<1>8. CASE EmitFails
  <2>1. PICK upTo \in transformed.new_entries :
          emitted' = emitted \union {v \in transformed.events : v.id <= upTo}
    BY <1>8 DEF EmitFails
  <2>2. /\ pc = "emit" /\ pc' = "idle" /\ state' = DefaultState /\ transformed' = NothingTransformed
        /\ UNCHANGED <<deviceVars, fileVars>>
    BY <1>8 DEF EmitFails, EndPoll
  <2>3. NumberedOK(log, emitted')
    BY <2>1 DEF OrderInvariant, NumberedOK
  <2> QED BY <1>0, <1>same, <2>2, <2>3, OrderAtRest
<1>9. CASE SetLogIndex
  <2>1. PICK last : last = Max(transformed.new_entries)
    OBVIOUS
  <2>2. /\ pc = "set_log_index" /\ pc' = "commit" /\ transformed.new_entries # {}
        /\ IF advance_log_index
           THEN RecordOwn("set_log_index", FreedBy(log[last].item))
           ELSE UNCHANGED <<log, freed, gone, unlogged>>
        /\ state' = [state EXCEPT !.last_item = log[last].item, !.last_digest = last,
                                  !.last_tick = log[last].tick]
        /\ UNCHANGED <<born, tick, boots, serial, resets, shared, transformed, fileVars, emitted>>
    BY <1>9, <2>1 DEF SetLogIndex, sinkVars
  <2>3. PICK c, m : c = Cursor(state) /\ m = transformed.sequence
    OBVIOUS
  <2>4. c <= m /\ transformed.new_entries = (c + 1) .. m /\ c \in Nat /\ m \in Nat
    BY <1>0, <2>2, <2>3 DEF OrderInvariant, NextBatchOK, TypeOK
  <2>5. last = m /\ last \in Ids /\ c < last /\ last # None /\ last \in transformed.new_entries
    <3>1. transformed.new_entries \subseteq 1 .. Len(log)
      BY DEF TypeOK, Ids
    <3>2. last \in transformed.new_entries /\ \A y \in transformed.new_entries : y <= last
      BY <1>0, <2>1, <2>2, <3>1, MaxFact
    <3>3. m \in (c + 1) .. m
      BY <2>4, <3>2
    <3> QED BY <2>4, <3>1, <3>2, <3>3, NoneAssumption DEF Ids
  <2>6. /\ state'.last_digest = last /\ state'.last_tick = log[last].tick
        /\ Cursor(state') = last
    <3>1. state \in DeviceStates
      BY DEF TypeOK
    <3>2. state'.last_digest = last /\ state'.last_tick = log[last].tick
      BY <2>2, <3>1 DEF DeviceStates
    <3> QED BY <2>5, <3>2 DEF Cursor
  <2>7. state = disk /\ freed <= c
    BY <2>2, <2>3 DEF OrderInvariant, LoadedOK, FreedOK
  <2>8. LogGrows /\ ErasOK' /\ FallsOK' /\ freed' <= last /\ freed' <= freed + Capacity
    <3>1. CASE advance_log_index
      <4>1. FreedBy(log[last].item) \in freed .. Len(log)
        BY <1>0, FreedByType
      <4>2. FreedBy(log[last].item) <= last \/ FreedBy(log[last].item) = freed
        <5>1. Len(log) - last < Half
          BY <2>5 DEF InWindow
        <5> QED BY <1>0, <2>5, <5>1, FreesUpTo
      <4>3. LogGrows /\ ErasOK' /\ FallsOK' /\ freed' = FreedBy(log[last].item)
        BY <1>own, <2>2, <3>1, <4>1
      <4> QED BY <1>0, <2>4, <2>5, <2>7, <4>1, <4>2, <4>3
    <3>2. CASE ~advance_log_index
      <4>1. UNCHANGED deviceVars
        BY <2>2, <3>2 DEF deviceVars
      <4> QED BY <1>0, <1>same, <2>4, <2>5, <2>7, <4>1
    <3> QED BY <3>1, <3>2
  <2>9. /\ CountsOK(log', disk) /\ TickOK(log', disk)
        /\ NumberedOK(log', emitted) /\ NumberedOK(log', transformed.events)
        /\ transformed.boot_session = Reboots(log', transformed.sequence)
    BY <1>0, <2>2, <2>8, NumbersStay
  <2>10. TickOK(log', state')
    BY <2>5, <2>6, <2>8 DEF TickOK, LogGrows, Ids
  <2>11. freed' \in Nat
    BY <2>8, NextType DEF TypeOK, DeviceTypeOK
  <2>12. LagOK'
    <3>1. disk.last_digest # None => freed' <= disk.last_digest + Capacity
      BY <1>0, <2>3, <2>4, <2>7, <2>8, <2>11 DEF Cursor
    <3>2. \A e \in (c + 1) .. m : freed' <= e + Capacity
      BY <1>0, <2>4, <2>7, <2>8, <2>11
    <3> QED BY <2>2, <2>4, <3>1, <3>2 DEF LagOK
  <2>13. FreedOK' /\ LoadedOK' /\ NextReadOK'
    BY <2>2, <2>6, <2>8 DEF FreedOK, LoadedOK, NextReadOK
  <2>14. NextBatchOK'
    BY <2>2, <2>3, <2>5, <2>6, <2>9 DEF NextBatchOK
  <2> QED BY <2>2, <2>8, <2>9, <2>10, <2>12, <2>13, <2>14 DEF OrderInvariant
<1>10. CASE NothingToAcknowledge
  <2>1. /\ pc = "set_log_index" /\ pc' = "commit" /\ transformed.new_entries = {}
        /\ UNCHANGED <<deviceVars, state, transformed, fileVars, emitted>>
    BY <1>10 DEF NothingToAcknowledge, sinkVars
  <2>2. PICK c, m : c = Cursor(state) /\ m = transformed.sequence
    OBVIOUS
  <2>3. c <= m /\ (c + 1) .. m = {} /\ c \in Nat /\ m \in Nat
    BY <1>0, <2>1, <2>2 DEF OrderInvariant, NextBatchOK, TypeOK
  <2>4. c = m
    <3>1. ASSUME c # m PROVE FALSE
      <4>1. m \in (c + 1) .. m
        BY <2>3, <3>1
      <4> QED BY <2>3, <4>1
    <3> QED BY <3>1
  <2>5. state = disk
    BY <2>1 DEF OrderInvariant, LoadedOK
  <2>6. LoadedOK' /\ FreedOK' /\ LagOK' /\ NextReadOK'
    BY <1>same, <2>1, <2>5 DEF OrderInvariant, LoadedOK, FreedOK, LagOK, NextReadOK
  <2>7. NextBatchOK'
    BY <1>same, <2>1, <2>2, <2>4 DEF OrderInvariant, NextBatchOK
  <2> QED BY <1>same, <2>1, <2>6, <2>7 DEF OrderInvariant
<1>11. CASE Commit
  <2>1. PICK used \in Baselines :
          state' = [state EXCEPT
                      !.last_log_store_used = used,
                      !.polls_skipped = IF fast_path_enabled THEN 0 ELSE @,
                      !.serial = IF snapshot # None THEN snapshot ELSE @,
                      !.sequence = transformed.sequence,
                      !.boot_session = transformed.boot_session]
    BY <1>11 DEF Commit
  <2>2. /\ pc = "commit" /\ pc' = "save"
        /\ UNCHANGED <<deviceVars, transformed, fileVars, emitted>>
    BY <1>11 DEF Commit, sinkVars
  <2>3. /\ state'.last_digest = state.last_digest /\ state'.last_tick = state.last_tick
        /\ state'.sequence = transformed.sequence
        /\ state'.boot_session = transformed.boot_session
    <3>1. state \in DeviceStates
      BY DEF TypeOK
    <3> QED BY <2>1, <3>1 DEF DeviceStates
  <2>4. Cursor(state') = Cursor(state)
    BY <2>3 DEF Cursor
  <2>5. CountsOK(log, state')
    BY <2>2, <2>3, <2>4 DEF OrderInvariant, NextBatchOK, CountsOK
  <2>6. TickOK(log, state')
    BY <2>3 DEF OrderInvariant, TickOK
  <2>7. LoadedOK' /\ FreedOK' /\ LagOK' /\ NextReadOK' /\ NextBatchOK'
    BY <1>same, <2>2, <2>4
    DEF OrderInvariant, LoadedOK, FreedOK, LagOK, NextReadOK, NextBatchOK
  <2> QED BY <1>same, <2>2, <2>5, <2>6, <2>7 DEF OrderInvariant
<1>12. CASE SaveRemove
  <2>1. /\ pc = "save" /\ pc' = "rename" /\ disk' = DefaultState /\ older' = {DefaultState}
        /\ UNCHANGED <<deviceVars, state, transformed, emitted>>
    BY <1>0, <1>12 DEF SaveRemove, ChangeDisk, sinkVars
  <2>2. CountsOK(log, disk') /\ TickOK(log, disk') /\ disk'.last_digest = None
    BY <2>1, DefaultCounts
  <2>3. LoadedOK' /\ FreedOK' /\ LagOK' /\ NextReadOK' /\ NextBatchOK'
    BY <1>same, <2>1, <2>2
    DEF OrderInvariant, LoadedOK, FreedOK, LagOK, NextReadOK, NextBatchOK
  <2> QED BY <1>same, <2>1, <2>2, <2>3 DEF OrderInvariant
<1>13. CASE SaveRename
  <2>1. /\ pc = "rename" /\ pc' = "idle" /\ disk' = state /\ older' = {state}
        /\ state' = DefaultState /\ transformed' = NothingTransformed
        /\ UNCHANGED <<deviceVars, emitted>>
    BY <1>0, <1>13 DEF SaveRename, ChangeDisk, EndPoll, sinkVars
  <2>2. CountsOK(log, state') /\ TickOK(log, state')
    BY <2>1, DefaultCounts
  <2>3. freed <= Cursor(state)
    BY <2>1 DEF OrderInvariant, FreedOK
  <2>4. FreedOK'
    BY <1>same, <2>1, <2>3 DEF FreedOK
  <2>5. LagOK'
    <3>1. state.last_digest # None => freed <= state.last_digest + Capacity
      BY <1>0, <2>3 DEF Cursor
    <3> QED BY <1>same, <2>1, <3>1 DEF LagOK, NothingTransformed
  <2>6. LoadedOK' /\ NextReadOK' /\ NextBatchOK' /\ NumberedOK(log, transformed'.events)
    BY <2>1
    DEF LoadedOK, NextReadOK, NextBatchOK, NumberedOK, NothingTransformed, DefaultState
  <2> QED BY <1>same, <2>1, <2>2, <2>4, <2>5, <2>6 DEF OrderInvariant
<1>14. CASE DryRunEnds \/ Abort
  <2>1. /\ pc \notin {"commit", "save", "rename"}
        /\ pc' = "idle" /\ state' = DefaultState /\ transformed' = NothingTransformed
        /\ UNCHANGED <<deviceVars, fileVars, emitted>>
    BY <1>14 DEF DryRunEnds, Abort, EndPoll, sinkVars, Undisturbed
  <2>2. NumberedOK(log', emitted')
    BY <1>same, <2>1 DEF OrderInvariant
  <2> QED BY <1>0, <1>same, <2>1, <2>2, OrderAtRest
<1>15. CASE WriteBack \/ PowerFailure
  BY <1>0, <1>15 DEF WriteBack, PowerFailure
<1>16. CASE UNCHANGED vars
  <2>1. UNCHANGED <<deviceVars, pc, fileVars, state, entries, transformed, emitted>>
    BY <1>16 DEF vars, pollVars, sinkVars
  <2> QED BY <1>0, <1>same, <2>1, OrderStays
<1>17. CASE Environment
  <2>1. DeviceNext /\ UNCHANGED <<pc, fileVars, state, entries, transformed, emitted>>
    BY <1>17 DEF Environment, pollVars, sinkVars
  <2>2. LogGrows
    BY <1>0, <2>1, DeviceNextType
  <2>3. ErasOK' /\ FallsOK' /\ freed' = freed
    BY <1>0, <2>1, DeviceInOrder
  <2> QED BY <1>0, <2>1, <2>2, <2>3, OrderStays
<1> QED
  BY <1>1, <1>2, <1>3, <1>4, <1>5, <1>6, <1>7, <1>8, <1>9, <1>10, <1>11, <1>12, <1>13, <1>14,
     <1>15, <1>16, <1>17
  DEF Next, PollStep

(* Two ring buffers are less than half the range of the item number: 124   *)
(* and 32768 on the device.                                                *)
OrderPremises ==
    /\ Undisturbed
    /\ 2 * Capacity < Half

(* On a force-audit device without other clients, polled by a collector    *)
(* that is not interrupted between acknowledging and saving, the numbers   *)
(* of every event can be read off the log: sequence is the position of its *)
(* entry, boot_session the count of reboots that show up to it.            *)
THEOREM OrderInvariantHolds ==
    ASSUME OrderPremises
    PROVE  Spec => []OrderInvariant /\ []InWindow
<1> DEFINE I == TypeOK /\ PollInvariant /\ VerdictInvariant /\ OrderInvariant
<1>1. Init => I
  BY InitType, PollInvariantInit, VerdictInvariantInit, OrderInvariantInit
<1>2. I => InWindow
  BY OrderInWindow DEF OrderPremises, PollInvariant, VerdictInvariant
<1>3. I /\ [Next]_vars => I'
  <2> SUFFICES ASSUME I, [Next]_vars PROVE I'
    OBVIOUS
  <2>1. /\ Undisturbed /\ MaxResets = 0 /\ Capacity <= Half /\ 2 * Capacity < Half
        /\ TypeOK /\ InWindow /\ PollInvariant /\ VerdictInvariant /\ OrderInvariant
    BY <1>2, DeviceAssumption, HalfAssumption DEF OrderPremises, Undisturbed
  <2>2. TypeOK'
    BY NextType
  <2>3. PollInvariant'
    BY <2>1, PollInvariantNext
  <2>4. VerdictInvariant'
    BY <2>1, VerdictInvariantNext
  <2>5. OrderInvariant'
    BY <2>1, OrderInvariantNext
  <2> QED BY <2>2, <2>3, <2>4, <2>5
<1> HIDE DEF I
<1>4. I => OrderInvariant
  BY DEF I
<1> QED BY <1>1, <1>2, <1>3, <1>4, PTL DEF Spec

(* sequence orders the events as the device recorded the entries, within a *)
(* poll and across polls.                                                  *)
THEOREM SequenceIsTotalOrder ==
    ASSUME OrderPremises
    PROVE  Spec => []SequenceTotalOrder
<1>1. OrderInvariant => SequenceTotalOrder
  BY DEF OrderInvariant, NumberedOK, SequenceTotalOrder
<1> QED BY <1>1, OrderInvariantHolds, PTL

(* boot_session is the same for all of a power cycle, and different where  *)
(* ticks cannot be compared.                                               *)
THEOREM BootSessionIsSound ==
    ASSUME OrderPremises
    PROVE  Spec => []BootSessionSound
<1>1. TypeOK /\ OrderInvariant => BootSessionSound
  <2> SUFFICES ASSUME TypeOK, OrderInvariant PROVE BootSessionSound
    OBVIOUS
  <2>0. /\ ErasOK /\ FallsOK /\ Len(log) \in Nat /\ Ids = 1 .. Len(log)
        /\ \A k \in Ids : log[k].tick \in Nat /\ log[k].era \in Nat
        /\ \A v \in emitted : v.id \in Ids /\ v.boot_session = Reboots(log, v.id)
    <3>1. \A k \in Ids : log[k] \in LogEntry
      BY DEF TypeOK, DeviceTypeOK, Ids
    <3>2. \A v \in emitted : v.id \in Ids
      BY DEF TypeOK, Events
    <3> QED BY <3>1, <3>2 DEF TypeOK, DeviceTypeOK, OrderInvariant, NumberedOK, Ids, LogEntry
  (* Within a power cycle no reboot shows. *)
  <2>1. ASSUME NEW i \in Ids, NEW j \in Ids, i < j, log[i].era = log[j].era, ~Sentinel(i)
        PROVE  Reboots(log, i) = Reboots(log, j)
    <3>1. ASSUME NEW k \in (i + 1) .. j PROVE ~ShowsReboot(log, k)
      <4>1. k \in Ids /\ i < k /\ k \in Nat /\ k - 1 \in Ids /\ k - 1 < k
        BY <2>0, <2>1, <3>1
      <4>2. log[i].era <= log[k].era /\ (k < j => log[k].era <= log[j].era)
        BY <2>0, <2>1, <4>1 DEF ErasOK
      <4>3. log[k].era = log[i].era
        BY <2>0, <2>1, <3>1, <4>1, <4>2
      <4>4. ~is_boot_entry(log[k])
        BY <2>0, <2>1, <4>1, <4>3 DEF ErasOK
      <4>5. log[k - 1].era = log[k].era /\ ~Sentinel(k - 1)
        <5>1. CASE k - 1 = i
          BY <2>1, <4>3, <5>1
        <5>2. CASE k - 1 # i
          <6>1. i < k - 1
            BY <2>0, <4>1, <5>2
          <6>2. log[i].era <= log[k - 1].era /\ log[k - 1].era <= log[k].era
            BY <2>0, <2>1, <4>1, <6>1 DEF ErasOK
          <6>3. log[k - 1].era = log[i].era
            BY <2>0, <2>1, <4>1, <4>3, <6>2
          <6>4. ~is_boot_entry(log[k - 1])
            BY <2>0, <2>1, <4>1, <6>1, <6>3 DEF ErasOK
          <6> QED BY <4>3, <6>3, <6>4 DEF Sentinel, is_boot_entry
        <5> QED BY <5>1, <5>2
      <4>6. log[k - 1].tick <= log[k].tick
        BY <2>0, <4>1, <4>5 DEF ErasOK
      <4> QED BY <2>0, <4>1, <4>4, <4>6 DEF ShowsReboot
    <3>2. {k \in 2 .. i : ShowsReboot(log, k)} = {k \in 2 .. j : ShowsReboot(log, k)}
      <4>1. \A k \in 2 .. j : ShowsReboot(log, k) => k \in 2 .. i
        BY <2>0, <2>1, <3>1
      <4>2. 2 .. i \subseteq 2 .. j
        BY <2>0, <2>1
      <4> QED BY <4>1, <4>2
    <3> QED BY <3>2 DEF Reboots
  (* Where ticks fall, one more reboot is counted. *)
  <2>2. ASSUME NEW i \in Ids, NEW j \in Ids, i < j, Reboots(log, i) = Reboots(log, j)
        PROVE  log[i].tick <= log[j].tick
    <3> DEFINE S == {k \in 2 .. i : ShowsReboot(log, k)}
               T == {k \in 2 .. j : ShowsReboot(log, k)}
    <3>1. 2 .. i \subseteq 2 .. j /\ IsFiniteSet(2 .. j)
      <4>1. i \in Int /\ j \in Int /\ 2 \in Int
        BY <2>0
      <4>2. IsFiniteSet(2 .. j)
        BY <4>1, FS_Interval
      <4> QED BY <2>2, <4>1, <4>2
    <3>2. S \in SUBSET T /\ T \in SUBSET (2 .. j)
      BY <3>1
    <3>3. Cardinality(S) = Cardinality(T)
      BY <2>2 DEF Reboots
    <3> HIDE DEF S, T
    <3>4. IsFiniteSet(T)
      BY <3>1, <3>2, FS_Subset
    <3>5. S = T
      BY <3>2, <3>3, <3>4, FS_Subset
    <3>6. ASSUME log[j].tick < log[i].tick PROVE FALSE
      <4>1. PICK k \in (i + 1) .. j : ShowsReboot(log, k)
        BY <2>0, <2>2, <3>6 DEF FallsOK
      <4>2. k \in 2 .. j /\ k \notin 2 .. i
        BY <2>0, <2>2, <4>1
      <4>3. k \in T /\ k \notin S
        BY <4>1, <4>2 DEF S, T
      <4> QED BY <3>5, <4>3
    <3> QED BY <2>0, <3>6
  <2>3. ASSUME NEW v \in emitted, NEW w \in emitted,
               log[v.id].era = log[w.id].era, ~Sentinel(v.id), ~Sentinel(w.id)
        PROVE  v.boot_session = w.boot_session
    <3>1. v.id \in Ids /\ w.id \in Ids /\ (v.id < w.id \/ w.id < v.id \/ v.id = w.id)
      BY <2>0
    <3> QED BY <2>0, <2>1, <2>3, <3>1
  <2>4. ASSUME NEW v \in emitted, NEW w \in emitted, v.id < w.id,
               v.boot_session = w.boot_session
        PROVE  log[v.id].tick <= log[w.id].tick
    BY <2>0, <2>2, <2>4
  <2> QED BY <2>3, <2>4 DEF BootSessionSound
<1> QED BY <1>1, OrderInvariantHolds, TypeCorrect, PTL

(* There nothing else needs to be assumed for what is said above of losses *)
(* and verdicts: no cursor falls behind by half the range.                 *)
THEOREM UndisturbedIsSafe ==
    ASSUME OrderPremises
    PROVE  Spec => [](/\ NothingLost /\ CursorCovered /\ ReadIsDelivered
                      /\ ChainSound /\ NoFalseMismatch /\ NothingSentTwice)
<1>1. MaxResets = 0 /\ Capacity <= Half
  BY DeviceAssumption, HalfAssumption DEF OrderPremises, Undisturbed
<1>2. /\ Spec => []InWindow
      /\ Spec /\ []InWindow => []NothingLost
      /\ Spec /\ []InWindow => []CursorCovered
      /\ Spec /\ []InWindow => []ReadIsDelivered
      /\ Spec /\ []InWindow => []ChainSound
      /\ Spec /\ []InWindow => []NoFalseMismatch
      /\ Spec /\ []InWindow => []NothingSentTwice
  BY <1>1, OrderInvariantHolds, NothingIsLost, CursorIsCovered, ReadsAreDelivered, ChainIsSound,
     NoMismatchIsFalse, SavedIsNotRepeated, PTL
<1> QED BY <1>2, PTL

(* The log is never longer than its bound.                                 *)
LogFits == Len(log) <= MaxEntries

LEMMA LogFitsNext ==
    ASSUME TypeOK, LogFits, [Next]_vars
    PROVE  LogFits'
<1> USE DEF LogFits
<1>0. log \in Seq(LogEntry) /\ Len(log) \in Nat /\ MaxEntries \in Nat
  BY DeviceAssumption DEF TypeOK, DeviceTypeOK
<1>rec. ASSUME NEW f, NEW b, NEW o, NEW c, NEW t, NEW n, Record(f, b, o, c, t, n)
        PROVE  Len(log') <= MaxEntries
  <2>1. CASE Len(log) < MaxEntries /\ log' = Append(log, NextEntry(b, o, t, n))
    <3>1. Len(log') = Len(log) + 1
      BY <1>0, <2>1
    <3> QED BY <1>0, <2>1, <3>1
  <2>2. CASE UNCHANGED log
    BY <2>2
  <2> QED BY <1>rec, <2>1, <2>2 DEF Record
<1>own. ASSUME NEW cmd, NEW f, RecordOwn(cmd, f)
        PROVE  Len(log') <= MaxEntries
  BY <1>own, <1>rec DEF RecordOwn
<1>1. CASE Poll \/ Skip \/ Transform \/ Emit \/ EmitFails \/ NothingToAcknowledge \/ DryRunEnds
           \/ Commit \/ SaveRemove \/ SaveRename \/ Abort \/ WriteBack \/ PowerFailure
  <2>1. UNCHANGED deviceVars
    BY <1>1, ZenonT(30) DEF Poll, Skip, Transform, Emit, EmitFails, NothingToAcknowledge,
       DryRunEnds, Commit, SaveRemove, SaveRename, Abort, WriteBack, PowerFailure
  <2> QED BY <2>1 DEF deviceVars
<1>2. CASE CreateSession \/ AuthenticateSession \/ GetDeviceInfo \/ GetLogEntries
  BY <1>2, <1>own DEF CreateSession, AuthenticateSession, GetDeviceInfo, GetLogEntries
<1>3. CASE Enrich
  <2>1. RecordOwn("list_objects", freed) \/ UNCHANGED log
    BY <1>3 DEF Enrich
  <2> QED BY <1>own, <2>1
<1>4. CASE SetLogIndex
  <2>1. \/ RecordOwn("set_log_index", FreedBy(log[Max(transformed.new_entries)].item))
        \/ UNCHANGED log
    BY <1>4 DEF SetLogIndex
  <2> QED BY <1>own, <2>1
<1>5. CASE Environment
  <2>1. DeviceNext
    BY <1>5 DEF Environment
  <2>2. UNCHANGED log \/ \E f, b, o, c, t, n : Record(f, b, o, c, t, n)
    BY <2>1 DEF DeviceNext, AppOp, Reboot, OtherConsumer, Reset
  <2> QED BY <1>rec, <2>2
<1>6. CASE UNCHANGED vars
  BY <1>6 DEF vars, deviceVars
<1> QED BY <1>1, <1>2, <1>3, <1>4, <1>5, <1>6 DEF Next, PollStep

(* While fewer entries were recorded than half the range of the item       *)
(* number (32768), nothing needs to be assumed of how far cursors fall     *)
(* behind: however polls fail, whoever else reads the device and whether   *)
(* or not it overwrites, as long as it is not reset.                       *)
THEOREM ShortLogIsSafe ==
    ASSUME MaxResets = 0, MaxEntries < Half, Capacity <= Half
    PROVE  /\ Spec => [](/\ NothingLost /\ CursorCovered /\ ReadIsDelivered
                         /\ ChainSound /\ NoFalseMismatch /\ NothingSentTwice)
           /\ Spec => KeepsPromise
<1>1. Init => LogFits
  BY DeviceAssumption DEF Init, DeviceInit, LogFits
<1>2. TypeOK /\ LogFits /\ [Next]_vars => LogFits'
  BY LogFitsNext
<1>3. TypeOK /\ LogFits => InWindow
  <2> SUFFICES ASSUME TypeOK, LogFits PROVE InWindow
    OBVIOUS
  <2>0. Len(log) \in Nat /\ MaxEntries \in Nat /\ Half \in Nat
    BY DeviceAssumption, HalfAssumption DEF TypeOK, DeviceTypeOK
  <2>1. Len(log) \in Nat /\ Half \in Nat /\ Len(log) < Half
    BY <2>0 DEF LogFits
  <2>2. ASSUME NEW st \in older \union {state}, st.last_digest # None
        PROVE  Len(log) - st.last_digest < Half
    <3>1. st.last_digest \in Nat
      BY <2>2 DEF TypeOK, DeviceStates
    <3> QED BY <2>1, <3>1
  <2>3. ASSUME NEW e \in transformed.new_entries PROVE Len(log) - e < Half
    <3>1. e \in Nat
      BY <2>1, <2>3 DEF TypeOK, Ids
    <3> QED BY <2>1, <3>1
  <2> QED BY <2>2, <2>3 DEF InWindow
<1>4. Spec => []InWindow
  BY <1>1, <1>2, <1>3, TypeCorrect, PTL DEF Spec
<1>5. /\ Spec /\ []InWindow => []NothingLost
      /\ Spec /\ []InWindow => []CursorCovered
      /\ Spec /\ []InWindow => []ReadIsDelivered
      /\ Spec /\ []InWindow => []ChainSound
      /\ Spec /\ []InWindow => []NoFalseMismatch
      /\ Spec /\ []InWindow => []NothingSentTwice
      /\ Spec /\ []InWindow => KeepsPromise
  BY NothingIsLost, CursorIsCovered, ReadsAreDelivered, ChainIsSound, NoMismatchIsFalse,
     SavedIsNotRepeated, PromiseIsKept
<1> QED BY <1>4, <1>5, PTL

-----------------------------------------------------------------------------
(* The times of the events.                                                *)

(* Whatever happens to the device and to the polls, power cycles follow    *)
(* each other in the log.                                                  *)
LEMMA ErasNext ==
    ASSUME TypeOK, ErasOK, FallsOK, [Next]_vars
    PROVE  ErasOK' /\ FallsOK'
<1>0. DeviceTypeOK
  BY DEF TypeOK
<1>same. ASSUME UNCHANGED <<log, tick, boots>>
         PROVE  ErasOK' /\ FallsOK'
  <2>1. Ids' = Ids /\ (\A i : Sentinel(i)' <=> Sentinel(i))
    BY <1>same DEF Ids, Sentinel
  <2>2. ErasOK'
    BY <1>same, <2>1 DEF ErasOK
  <2>3. FallsOK'
    BY <1>same, <2>1 DEF FallsOK
  <2> QED BY <2>2, <2>3
<1>own. ASSUME NEW cmd, NEW f, RecordOwn(cmd, f), UNCHANGED <<tick, boots>>
        PROVE  ErasOK' /\ FallsOK'
  BY <1>0, <1>own, RecordOwnInOrder
<1>1. CASE Poll \/ Skip \/ Transform \/ Emit \/ EmitFails \/ NothingToAcknowledge \/ DryRunEnds
           \/ Commit \/ SaveRemove \/ SaveRename \/ Abort \/ WriteBack \/ PowerFailure
  <2>1. UNCHANGED deviceVars
    BY <1>1, ZenonT(30) DEF Poll, Skip, Transform, Emit, EmitFails, NothingToAcknowledge,
       DryRunEnds, Commit, SaveRemove, SaveRename, Abort, WriteBack, PowerFailure
  <2>2. UNCHANGED <<log, tick, boots>>
    BY <2>1 DEF deviceVars
  <2> QED BY <2>2, <1>same
<1>2. CASE CreateSession \/ AuthenticateSession \/ GetDeviceInfo \/ GetLogEntries
  BY <1>2, <1>own DEF CreateSession, AuthenticateSession, GetDeviceInfo, GetLogEntries
<1>3. CASE Enrich
  <2>1. UNCHANGED <<tick, boots>> /\ (RecordOwn("list_objects", freed) \/ UNCHANGED log)
    BY <1>3 DEF Enrich
  <2> QED BY <1>own, <1>same, <2>1
<1>4. CASE SetLogIndex
  <2>1. /\ UNCHANGED <<tick, boots>>
        /\ \/ RecordOwn("set_log_index", FreedBy(log[Max(transformed.new_entries)].item))
           \/ UNCHANGED log
    BY <1>4 DEF SetLogIndex
  <2> QED BY <1>own, <1>same, <2>1
<1>5. CASE Environment
  <2>1. DeviceNext
    BY <1>5 DEF Environment
  <2> QED BY <1>0, <2>1, DeviceInOrder
<1>6. CASE UNCHANGED vars
  <2>1. UNCHANGED <<log, tick, boots>>
    BY <1>6 DEF vars, deviceVars
  <2> QED BY <2>1, <1>same
<1> QED BY <1>1, <1>2, <1>3, <1>4, <1>5, <1>6 DEF Next, PollStep

(* The ground truth of boot sessions and times: whatever happens, a boot   *)
(* entry opens a power cycle, ticks do not fall inside one, and where they *)
(* fall a reboot shows.                                                    *)
THEOREM ErasInOrder == Spec => [](ErasOK /\ FallsOK)
<1>1. Init => ErasOK /\ FallsOK
  <2> SUFFICES ASSUME Init PROVE ErasOK /\ FallsOK
    OBVIOUS
  <2>1. Ids = {}
    BY DEF Init, DeviceInit, Ids
  <2> QED BY <2>1 DEF ErasOK, FallsOK
<1>2. TypeOK /\ ErasOK /\ FallsOK /\ [Next]_vars => ErasOK' /\ FallsOK'
  BY ErasNext
<1> QED BY <1>1, <1>2, TypeCorrect, PTL DEF Spec

(* Between two entries of a power cycle no group opens.                    *)
LEMMA OneGroupPerEra ==
    ASSUME TypeOK, ErasOK, NEW new, new \subseteq Ids, NEW st,
           NEW e \in new, NEW f \in new, e < f, log[e].era = log[f].era, ~Sentinel(e)
    PROVE  \A r \in group_starts(log, new, st) : ~(e < r /\ r <= f)
<1> SUFFICES ASSUME NEW r \in group_starts(log, new, st), e < r, r <= f
             PROVE  FALSE
  OBVIOUS
<1>0. /\ Len(log) \in Nat /\ Ids = 1 .. Len(log) /\ new \subseteq 1 .. Len(log)
      /\ \A i \in Ids : i \in Nat /\ log[i].tick \in Nat /\ log[i].era \in Nat
  <2>1. \A i \in Ids : log[i] \in LogEntry
    BY DEF TypeOK, DeviceTypeOK, Ids
  <2>2. \A i \in Ids : log[i].tick \in Nat /\ log[i].era \in Nat
    BY <2>1 DEF LogEntry
  <2>3. Len(log) \in Nat /\ Ids = 1 .. Len(log)
    BY DEF TypeOK, DeviceTypeOK, Ids
  <2> QED BY <2>2, <2>3
<1>1. r \in new /\ r \in Ids /\ e \in Ids /\ f \in Ids /\ r \in Nat /\ e \in Nat /\ f \in Nat
  BY <1>0 DEF group_starts
<1>2. ASSUME NEW k \in Ids, e <= k, k <= f
      PROVE  log[k].era = log[e].era /\ ~Sentinel(k) /\ (k # e => ~is_boot_entry(log[k]))
  <2>0. k \in Nat /\ log[k].era \in Nat /\ log[e].era \in Nat
    BY <1>0, <1>1
  <2>1. CASE k = e
    BY <2>1
  <2>2. CASE k # e
    <3>1. e < k /\ (k < f \/ k = f)
      BY <1>1, <1>2, <2>0, <2>2
    <3>2. log[e].era <= log[k].era /\ log[k].era <= log[f].era
      <4>1. log[e].era <= log[k].era
        BY <1>1, <3>1 DEF ErasOK
      <4>2. CASE k = f
        BY <2>0, <4>1, <4>2
      <4>3. CASE k < f
        BY <1>1, <4>1, <4>3 DEF ErasOK
      <4> QED BY <3>1, <4>2, <4>3
    <3>3. log[k].era = log[e].era
      BY <2>0, <3>2
    <3>4. ~is_boot_entry(log[k])
      BY <1>1, <3>1, <3>3 DEF ErasOK
    <3> QED BY <3>3, <3>4 DEF Sentinel, is_boot_entry
  <2> QED BY <2>1, <2>2
<1>3. PICK p : p = Max(Before(new, r))
  OBVIOUS
<1>4. p \in Ids /\ p \in Nat /\ e <= p /\ p < r /\ Before(new, r) # {}
  <2>1. e \in Before(new, r) /\ Before(new, r) \subseteq 1 .. Len(log)
    BY <1>0, <1>1 DEF Before
  <2>2. p \in Before(new, r) /\ e <= p
    BY <1>0, <1>3, <2>1, MaxFact
  <2> QED BY <1>0, <2>1, <2>2 DEF Before
<1>5. rebooted(log, new, st, r)
  BY <1>4 DEF group_starts
<1>6. ~is_boot_entry(log[r]) /\ log[r].era = log[e].era
  <2>1. r # e /\ e <= r
    BY <1>1
  <2> QED BY <1>1, <1>2, <2>1
<1>7. log[p].era = log[e].era /\ ~Sentinel(p)
  <2>1. p <= f
    BY <1>1, <1>4
  <2> QED BY <1>2, <1>4, <2>1
<1>8. log[p].tick <= log[r].tick
  BY <1>1, <1>4, <1>6, <1>7 DEF ErasOK
<1>9. log[r].tick < log[p].tick
  BY <1>3, <1>4, <1>5, <1>6 DEF rebooted
<1>10. log[r].tick \in Nat /\ log[p].tick \in Nat
  BY <1>0, <1>1, <1>4
<1> QED BY <1>8, <1>9, <1>10

(* The times of a batch are sound, for every read, every cursor and every  *)
(* sequence of reboots, resets and aborted polls before it.                *)
THEOREM TimesAreSound == Spec => []TimesSound
<1>1. TypeOK /\ ErasOK => TimesSound
  <2> DEFINE new  == transformed.new_entries
             time == event_times(log, new, state, 0)
             A    == build_anchors(log, new, state, 0)
  <2> SUFFICES ASSUME TypeOK, ErasOK
               PROVE  /\ new # {} => time[Max(new)] = 0
                      /\ \A e, f \in new : e < f =>
                            /\ time[e] <= time[f]
                            /\ log[e].era = log[f].era /\ ~Sentinel(e) =>
                                  time[f] - time[e] = log[f].tick - log[e].tick
    BY DEF TimesSound
  <2>1. new \subseteq Ids /\ Len(log) \in Nat /\ Ids = 1 .. Len(log)
    BY DEF TypeOK, DeviceTypeOK, Ids
  <2>2. Reckoned(Len(log), log, new, state, 0, A, time)
    <3>1. \A i \in 1 .. Len(log) : log[i] \in LogEntry
      BY DEF TypeOK, DeviceTypeOK
    <3>2. Ticks(Len(log), log)
      BY <3>1 DEF Ticks, LogEntry
    <3> QED BY <2>1, <3>2 DEF Reckoned
  <2> HIDE DEF new, time, A
  <2>3. new # {} => time[Max(new)] = 0
    BY <2>2, NewestTime
  <2>4. ASSUME NEW e \in new, NEW f \in new, e < f
        PROVE  time[e] <= time[f]
    <3>1. e <= f
      BY <2>1, <2>4
    <3> QED BY <2>2, <3>1, TimesRise
  <2>5. ASSUME NEW e \in new, NEW f \in new, e < f, log[e].era = log[f].era, ~Sentinel(e)
        PROVE  time[f] - time[e] = log[f].tick - log[e].tick
    <3>1. \A r \in group_starts(log, new, state) : ~(e < r /\ r <= f)
      BY <2>1, <2>5, OneGroupPerEra
    <3>2. e <= f
      BY <2>1, <2>5
    <3>3. GroupOf(log, new, state, e) = GroupOf(log, new, state, f)
      BY <2>2, <3>1, <3>2, SameGroup
    <3> QED BY <2>2, <3>3, TimesInGroup
  <2> QED BY <2>3, <2>4, <2>5
<1> QED BY <1>1, TypeCorrect, ErasInOrder, PTL

-----------------------------------------------------------------------------
(* The frames of ProbeFrame: what parse() reads from them.                 *)

(* A sequence is another followed by a third.                              *)
Joined(f, s, t) == f = s \o t

(* Where the elements of two sequences are in their concatenation.         *)
LEMMA ConcatAt ==
    ASSUME NEW s \in Seq(Nat), NEW t \in Seq(Nat), NEW f, Joined(f, s, t)
    PROVE  /\ f \in Seq(Nat) /\ Len(s) \in Nat /\ Len(t) \in Nat
           /\ Len(f) = Len(s) + Len(t)
           /\ \A i \in 1 .. Len(s) : f[i] = s[i]
           /\ \A i \in 1 .. Len(t) : f[Len(s) + i] = t[i]
<1>1. Len(s) \in Nat /\ Len(t) \in Nat
  OBVIOUS
<1>2. /\ f \in Seq(Nat) /\ Len(f) = Len(s) + Len(t)
      /\ \A i \in 1 .. Len(s) + Len(t) : f[i] = IF i <= Len(s) THEN s[i] ELSE t[i - Len(s)]
  BY ConcatProperties DEF Joined
<1>3. ASSUME NEW i \in 1 .. Len(t) PROVE f[Len(s) + i] = t[i]
  <2>1. PICK j : j = Len(s) + i
    OBVIOUS
  <2>2. j \in 1 .. Len(s) + Len(t) /\ ~(j <= Len(s)) /\ j - Len(s) = i
    BY <1>1, <2>1
  <2>3. f[j] = IF j <= Len(s) THEN s[j] ELSE t[j - Len(s)]
    BY <1>2, <2>2, Zenon
  <2> QED BY <2>1, <2>2, <2>3, Zenon
<1>4. ASSUME NEW i \in 1 .. Len(s) PROVE f[i] = s[i]
  <2>1. i \in 1 .. Len(s) + Len(t) /\ i <= Len(s)
    BY <1>1
  <2> QED BY <1>2, <2>1, Zenon
<1> QED BY <1>1, <1>2, <1>3, <1>4

(* g is the stretch of n elements of f that follows the first k.           *)
Stretch(g, f, k, n) == k + n <= Len(f) /\ g = SubSeq(f, k + 1, k + n)

(* The elements of a stretch of a sequence.                                *)
LEMMA SubSeqAt ==
    ASSUME NEW f \in Seq(Nat), NEW k \in Nat, NEW n \in Nat, NEW g, Stretch(g, f, k, n)
    PROVE  /\ g \in Seq(Nat) /\ Len(g) = n
           /\ \A i \in 1 .. n : g[i] = f[k + i]
<1>0. k + n <= Len(f) /\ g = SubSeq(f, k + 1, k + n)
  BY DEF Stretch
<1>1. CASE n = 0
  BY <1>0, <1>1
<1>2. CASE n # 0
  <2>1. k + 1 \in 1 .. Len(f) /\ k + n \in k + 1 .. Len(f)
    BY <1>0, <1>2
  <2>2. g \in Seq(Nat) /\ Len(g) = k + n - (k + 1) + 1 /\ \A i \in 1 .. Len(g) : g[i] = f[k + 1 + i - 1]
    BY <1>0, <2>1, SMT
  <2>3. k + n - (k + 1) + 1 = n /\ \A i \in 1 .. n : k + 1 + i - 1 = k + i
    OBVIOUS
  <2>4. g \in Seq(Nat) /\ Len(g) = n
    BY <2>2, <2>3
  <2>5. ASSUME NEW i \in 1 .. n PROVE g[i] = f[k + i]
    <3>1. g[i] = f[k + 1 + i - 1]
      BY <2>2, <2>4
    <3> QED BY <2>3, <3>1
  <2> QED BY <2>4, <2>5
<1> QED BY <1>1, <1>2

(* A number is its high part and its low byte.                             *)
LEMMA Quotient ==
    ASSUME NEW n \in Nat
    PROVE  /\ n \div 256 \in Nat /\ n % 256 \in Nat
           /\ 256 * (n \div 256) + (n % 256) = n
<1>1. n \div 256 \in Nat
  BY SMT
<1>2. n % 256 \in Nat
  BY SMT
<1>3. 256 * (n \div 256) + (n % 256) = n
  BY SMT
<1> QED BY <1>1, <1>2, <1>3

(* Two bytes, high byte first, are the number they were made from.         *)
LEMMA Halves ==
    ASSUME NEW n \in Nat, NEW b, b = u16_bytes(n)
    PROVE  b \in Seq(Nat) /\ Len(b) = 2 /\ u16_from_be_bytes(b[1], b[2]) = n
BY Quotient DEF u16_bytes, u16_from_be_bytes

(* And so are four.                                                        *)
LEMMA Quarters ==
    ASSUME NEW n \in Nat, NEW b, b = u32_bytes(n)
    PROVE  b \in Seq(Nat) /\ Len(b) = 4 /\ u32_from_be_bytes(b[1], b[2], b[3], b[4]) = n
<1>1. PICK p : p = n \div 65536
  OBVIOUS
<1>2. PICK q : q = n % 65536
  OBVIOUS
<1>3. p \in Nat
  BY <1>1, SMT
<1>4. q \in Nat
  BY <1>2, SMT
<1>5. 65536 * p + q = n
  <2>1. 65536 * (n \div 65536) + (n % 65536) = n
    BY SMT
  <2> QED BY <1>1, <1>2, <2>1
<1>6. PICK p1, p2, q1, q2 : p1 = p \div 256 /\ p2 = p % 256 /\ q1 = q \div 256 /\ q2 = q % 256
  OBVIOUS
<1>7. /\ p1 \in Nat /\ p2 \in Nat /\ 256 * p1 + p2 = p
      /\ q1 \in Nat /\ q2 \in Nat /\ 256 * q1 + q2 = q
  BY <1>3, <1>4, <1>6, Quotient
<1>8. b = <<p1, p2, q1, q2>>
  BY <1>1, <1>2, <1>6 DEF u32_bytes
<1>9. 256 * (256 * (256 * p1 + p2) + q1) + q2 = n
  BY <1>3, <1>4, <1>5, <1>7
<1> QED BY <1>7, <1>8, <1>9 DEF u32_from_be_bytes

(* What is where in a frame, whatever follows it.                          *)
IsFrame(f, code, length, body, behind) ==
    /\ code \in Nat /\ length \in Nat /\ body \in Seq(Nat) /\ behind \in Seq(Nat)
    /\ f = Frame(code, length, body) \o behind

LEMMA FrameFact ==
    ASSUME NEW code, NEW length, NEW body, NEW behind,
           NEW f, IsFrame(f, code, length, body, behind)
    PROVE  /\ f \in Seq(Nat) /\ Len(body) \in Nat /\ Len(behind) \in Nat
           /\ Len(f) = 3 + Len(body) + Len(behind)
           /\ f[1] = code
           /\ u16_from_be_bytes(f[2], f[3]) = length
           /\ \A i \in 1 .. Len(body) : f[3 + i] = body[i]
<1>t. code \in Nat /\ length \in Nat /\ body \in Seq(Nat) /\ behind \in Seq(Nat)
  BY DEF IsFrame
<1>1. PICK l : l = u16_bytes(length)
  OBVIOUS
<1>2. l \in Seq(Nat) /\ Len(l) = 2 /\ u16_from_be_bytes(l[1], l[2]) = length
  BY <1>t, <1>1, Halves
<1>c. PICK c : c = <<code>>
  OBVIOUS
<1>3. PICK h : h = c \o l
  OBVIOUS
<1>4. PICK g : g = h \o body
  OBVIOUS
<1>5. Joined(h, c, l) /\ Joined(g, h, body) /\ Joined(f, g, behind)
  BY <1>1, <1>c, <1>3, <1>4 DEF Frame, IsFrame, Joined
<1>l. l \in Seq(Nat)
  BY <1>2
<1>d. c \in Seq(Nat)
  BY <1>t, <1>c
<1>6. /\ h \in Seq(Nat) /\ Len(h) = Len(c) + Len(l)
      /\ \A i \in 1 .. Len(c) : h[i] = c[i]
      /\ \A i \in 1 .. Len(l) : h[Len(c) + i] = l[i]
  BY <1>5, <1>l, <1>d, ConcatAt, SMT
<1>h. h \in Seq(Nat)
  BY <1>6
<1>7. /\ g \in Seq(Nat) /\ Len(g) = Len(h) + Len(body) /\ Len(body) \in Nat
      /\ \A i \in 1 .. Len(h) : g[i] = h[i]
      /\ \A i \in 1 .. Len(body) : g[Len(h) + i] = body[i]
  BY <1>t, <1>5, <1>h, ConcatAt, SMT
<1>g. g \in Seq(Nat)
  BY <1>7
<1>8. /\ f \in Seq(Nat) /\ Len(f) = Len(g) + Len(behind) /\ Len(behind) \in Nat
      /\ \A i \in 1 .. Len(g) : f[i] = g[i]
  BY <1>t, <1>5, <1>g, ConcatAt, SMT
<1>9. Len(c) = 1 /\ c[1] = code /\ Len(l) = 2
  BY <1>t, <1>2, <1>c
<1>10. Len(h) = 3
  BY <1>6, <1>9
<1>11. Len(g) = 3 + Len(body) /\ Len(body) \in Nat /\ Len(behind) \in Nat
  BY <1>7, <1>8, <1>10
<1>12. Len(f) = 3 + Len(body) + Len(behind)
  BY <1>8, <1>11
<1>13. \A i \in 1 .. 3 + Len(body) : f[i] = g[i]
  BY <1>8, <1>11, Zenon
<1>14. \A i \in 1 .. 3 : g[i] = h[i]
  BY <1>7, <1>10, Zenon
<1>15. \A i \in 1 .. Len(body) : g[3 + i] = body[i]
  BY <1>7, <1>10, Zenon
<1>16. ASSUME NEW i \in 1 .. Len(body) PROVE f[3 + i] = body[i]
  <2>1. 3 + i \in 1 .. 3 + Len(body)
    BY <1>11
  <2> QED BY <1>13, <1>15, <2>1, Zenon
<1>17. f[1] = h[1] /\ f[2] = h[2] /\ f[3] = h[3]
  <2>1. /\ 1 \in 1 .. 3 + Len(body) /\ 2 \in 1 .. 3 + Len(body) /\ 3 \in 1 .. 3 + Len(body)
        /\ 1 \in 1 .. 3 /\ 2 \in 1 .. 3 /\ 3 \in 1 .. 3
    BY <1>11
  <2>2. f[1] = g[1] /\ f[2] = g[2] /\ f[3] = g[3]
    BY <1>13, <2>1, SMT
  <2>3. g[1] = h[1] /\ g[2] = h[2] /\ g[3] = h[3]
    BY <1>14, <2>1, SMT
  <2> QED BY <2>2, <2>3, Zenon
<1>18. h[1] = code /\ h[2] = l[1] /\ h[3] = l[2]
  <2>1. \A i \in 1 .. 1 : h[i] = c[i]
    BY <1>6, <1>9, Zenon
  <2>2. \A i \in 1 .. 2 : h[1 + i] = l[i]
    BY <1>6, <1>9, Zenon
  <2>3. h[1 + 1] = l[1] /\ h[1 + 2] = l[2] /\ h[1] = c[1]
    BY <2>1, <2>2
  <2> QED BY <1>9, <2>3
<1>19. u16_from_be_bytes(f[2], f[3]) = length
  BY <1>2, <1>17, <1>18, Zenon
<1>20. f[1] = code
  BY <1>17, <1>18, Zenon
<1> QED BY <1>8, <1>11, <1>12, <1>16, <1>19, <1>20, Zenon

(* A frame with a body of the declared length is read from that body.      *)
LEMMA ReadsBody ==
    ASSUME NEW body, Len(body) >= MIN_BODY_LEN, NEW behind,
           NEW f, IsFrame(f, RSP_DEVICE_INFO, Len(body), body, behind)
    PROVE  parse(f) = DeviceInfoOf(body)
<1>1. body \in Seq(Nat) /\ Len(body) \in Nat /\ RSP_DEVICE_INFO \in Nat /\ Len(body) >= 9
  BY DEF IsFrame, RSP_DEVICE_INFO, CMD_DEVICE_INFO, MIN_BODY_LEN
<1>2. /\ f \in Seq(Nat) /\ Len(behind) \in Nat
      /\ Len(f) = 3 + Len(body) + Len(behind)
      /\ f[1] = RSP_DEVICE_INFO
      /\ u16_from_be_bytes(f[2], f[3]) = Len(body)
      /\ \A i \in 1 .. Len(body) : f[3 + i] = body[i]
  BY <1>1, FrameFact, SMTT(30)
<1>3. f \in Seq(Nat) /\ Len(f) = 3 + Len(body) + Len(behind) /\ Len(behind) \in Nat
  BY <1>2, Zenon
<1>4. ~(Len(f) < 3) /\ 3 + Len(body) <= Len(f)
  <2>1. \A m, n, k \in Nat : m = 3 + n + k => ~(m < 3) /\ 3 + n <= m
    OBVIOUS
  <2>2. Len(f) \in Nat
    BY <1>3
  <2> QED BY <1>1, <1>3, <2>1, <2>2, Zenon
<1>5. PICK g : g = SubSeq(f, 3 + 1, 3 + Len(body))
  OBVIOUS
<1>6. Len(g) = Len(body) /\ \A i \in 1 .. Len(body) : g[i] = f[3 + i]
  <2>1. 3 \in Nat /\ Stretch(g, f, 3, Len(body))
    BY <1>4, <1>5, Zenon DEF Stretch
  <2>2. f \in Seq(Nat) /\ Len(body) \in Nat
    BY <1>1, <1>3, Zenon
  <2>3. \A k \in Nat, n \in Nat :
          Stretch(g, f, k, n) => Len(g) = n /\ \A i \in 1 .. n : g[i] = f[k + i]
    BY <2>2, SubSeqAt, SMT
  <2>4. Stretch(g, f, 3, Len(body))
        => Len(g) = Len(body) /\ \A i \in 1 .. Len(body) : g[i] = f[3 + i]
    BY <2>1, <2>2, <2>3, Zenon
  <2> QED BY <2>1, <2>4, Zenon
<1>7. \A i \in 1 .. 9 : g[i] = body[i]
  <2>1. ASSUME NEW i \in 1 .. 9 PROVE i \in 1 .. Len(body)
    BY <1>1
  <2> QED BY <1>2, <1>6, <2>1, Zenon
<1>8. DeviceInfoOf(g) = DeviceInfoOf(body)
  <2>1. /\ g[1] = body[1] /\ g[2] = body[2] /\ g[3] = body[3] /\ g[4] = body[4] /\ g[5] = body[5]
        /\ g[6] = body[6] /\ g[7] = body[7] /\ g[8] = body[8] /\ g[9] = body[9]
    BY <1>7
  <2> QED BY <2>1, Zenon DEF DeviceInfoOf
<1>9. g = SubSeq(f, 4, 3 + Len(body))
  BY <1>5
<1>10. Len(g) >= MIN_BODY_LEN
  BY <1>1, <1>6 DEF MIN_BODY_LEN
<1>11. f[1] = RSP_DEVICE_INFO /\ u16_from_be_bytes(f[2], f[3]) = Len(body)
  BY <1>2, Zenon
<1>12. parse(f) = DeviceInfoOf(g)
  BY <1>4, <1>9, <1>10, <1>11, Zenon DEF parse
<1> QED BY <1>8, <1>12, Zenon

(* A frame is rejected that declares more than there is, or less than the  *)
(* figures take, or is another message.                                    *)
LEMMA RejectsFrame ==
    ASSUME NEW code, NEW length, NEW body,
           NEW f, IsFrame(f, code, length, body, << >>),
           \/ code # RSP_DEVICE_INFO
           \/ length < MIN_BODY_LEN
           \/ length > Len(body)
    PROVE  parse(f) = Rejected
<1>1. << >> \in Seq(Nat) /\ Len(<< >>) = 0 /\ code \in Nat /\ length \in Nat /\ body \in Seq(Nat)
  BY DEF IsFrame
<1>2. /\ f \in Seq(Nat) /\ Len(body) \in Nat /\ Len(f) = 3 + Len(body) + Len(<< >>)
      /\ f[1] = code
      /\ u16_from_be_bytes(f[2], f[3]) = length
  BY <1>1, FrameFact, SMT
<1>3. /\ f \in Seq(Nat)
      /\ Len(f) = 3 + Len(body) /\ Len(body) \in Nat
      /\ f[1] = code
      /\ u16_from_be_bytes(f[2], f[3]) = length
  BY <1>1, <1>2
<1>4. PICK g : g = SubSeq(f, 3 + 1, 3 + length)
  OBVIOUS
<1>g. g = SubSeq(f, 4, 3 + length)
  BY <1>4
<1>5. CASE code = RSP_DEVICE_INFO /\ 3 + length <= Len(f)
  <2>1. length < 9
    BY <1>1, <1>3, <1>5 DEF MIN_BODY_LEN
  <2>2. Len(g) = length
    <3>1. 3 \in Nat /\ Stretch(g, f, 3, length)
      BY <1>4, <1>5, Zenon DEF Stretch
    <3> QED BY <1>1, <1>3, <3>1, SubSeqAt, SMT
  <2>3. ~(Len(g) >= MIN_BODY_LEN)
    BY <2>1, <2>2 DEF MIN_BODY_LEN
  <2> QED BY <1>3, <1>g, <2>3, Zenon DEF parse
<1>6. CASE ~(code = RSP_DEVICE_INFO /\ 3 + length <= Len(f))
  BY <1>3, <1>6, Zenon DEF parse
<1> QED BY <1>5, <1>6

(* And so is every frame that is cut off.                                  *)
LEMMA RejectsCut ==
    ASSUME NEW code, NEW body,
           NEW f, IsFrame(f, code, Len(body), body, << >>), NEW n \in 0 .. Len(f) - 1
    PROVE  parse(SubSeq(f, 1, n)) = Rejected
<1>0. << >> \in Seq(Nat) /\ Len(<< >>) = 0 /\ Len(body) \in Nat /\ body \in Seq(Nat)
  BY DEF IsFrame
<1>2. /\ f \in Seq(Nat) /\ Len(f) = 3 + Len(body) + Len(<< >>)
      /\ u16_from_be_bytes(f[2], f[3]) = Len(body)
  BY <1>0, FrameFact, SMT
<1>3. /\ f \in Seq(Nat)
      /\ Len(f) = 3 + Len(body)
      /\ u16_from_be_bytes(f[2], f[3]) = Len(body)
  BY <1>0, <1>2
<1>4. PICK g : g = SubSeq(f, 0 + 1, 0 + n)
  OBVIOUS
<1>g. g = SubSeq(f, 1, n)
  BY <1>4
<1>n. n \in Nat /\ 0 + n <= Len(f) /\ n < 3 + Len(body) /\ 0 \in Nat
  <2>1. Len(f) \in Nat
    BY <1>3
  <2>2. Len(f) = 3 + Len(body) /\ Len(body) \in Nat
    BY <1>0, <1>3, Zenon
  <2> QED BY <2>1, <2>2
<1>5. Len(g) = n /\ \A i \in 1 .. n : g[i] = f[0 + i]
  <2>1. Stretch(g, f, 0, n)
    BY <1>4, <1>n, Zenon DEF Stretch
  <2> QED BY <1>3, <1>n, <2>1, SubSeqAt, SMT
<1>6. CASE n < 3
  BY <1>g, <1>5, <1>6, Zenon DEF parse
<1>7. CASE n >= 3
  <2>1. g[2] = f[2] /\ g[3] = f[3]
    <3>1. g[2] = f[0 + 2] /\ g[3] = f[0 + 3]
      BY <1>n, <1>5, <1>7
    <3> QED BY <3>1
  <2>2. ~(3 + Len(body) <= Len(g))
    BY <1>0, <1>n, <1>5
  <2>3. u16_from_be_bytes(g[2], g[3]) = Len(body)
    BY <1>3, <2>1
  <2> QED BY <1>g, <2>2, <2>3, Zenon DEF parse
<1> QED BY <1>n, <1>6, <1>7

(* The figures a device may have, as numbers of any size.                  *)
DeviceFigures ==
    [version: {v \in Seq(Nat) : Len(v) = 3}, serial: Nat,
     log_store_capacity: Nat, log_store_used: Nat]

LEMMA BodyFact ==
    ASSUME NEW info \in DeviceFigures, NEW a \in Seq(Nat), NEW body, body = Body(info, a)
    PROVE  body \in Seq(Nat) /\ Len(a) \in Nat /\ Len(body) = 9 + Len(a) /\ DeviceInfoOf(body) = info
<1>1. PICK v : v = info.version
  OBVIOUS
<1>2. PICK s : s = u32_bytes(info.serial)
  OBVIOUS
<1>3. PICK u : u = <<info.log_store_capacity, info.log_store_used>>
  OBVIOUS
<1>i. /\ info.version \in Seq(Nat) /\ Len(info.version) = 3 /\ info.serial \in Nat
      /\ info.log_store_capacity \in Nat /\ info.log_store_used \in Nat
      /\ info = [version |-> info.version, serial |-> info.serial,
                 log_store_capacity |-> info.log_store_capacity,
                 log_store_used |-> info.log_store_used]
  BY DEF DeviceFigures
<1>v. v \in Seq(Nat) /\ Len(v) = 3
  BY <1>i, <1>1
<1>s. s \in Seq(Nat) /\ Len(s) = 4 /\ u32_from_be_bytes(s[1], s[2], s[3], s[4]) = info.serial
  BY <1>i, <1>2, Quarters
<1>u. u \in Seq(Nat) /\ Len(u) = 2 /\ u[1] = info.log_store_capacity /\ u[2] = info.log_store_used
  BY <1>i, <1>3
<1>4. PICK p : p = v \o s
  OBVIOUS
<1>5. PICK q : q = p \o u
  OBVIOUS
<1>6. Joined(p, v, s) /\ Joined(q, p, u) /\ Joined(body, q, a)
  BY <1>1, <1>2, <1>3, <1>4, <1>5 DEF Body, Joined
<1>7. v \in Seq(Nat) /\ s \in Seq(Nat) /\ u \in Seq(Nat)
  BY <1>v, <1>s, <1>u
<1>8. /\ p \in Seq(Nat) /\ Len(p) = Len(v) + Len(s)
      /\ \A i \in 1 .. Len(v) : p[i] = v[i]
      /\ \A i \in 1 .. Len(s) : p[Len(v) + i] = s[i]
  BY <1>6, <1>7, ConcatAt, SMT
<1>9. p \in Seq(Nat)
  BY <1>8, Zenon
<1>10. /\ q \in Seq(Nat) /\ Len(q) = Len(p) + Len(u)
       /\ \A i \in 1 .. Len(p) : q[i] = p[i]
       /\ \A i \in 1 .. Len(u) : q[Len(p) + i] = u[i]
  BY <1>6, <1>7, <1>9, ConcatAt, SMT
<1>11. q \in Seq(Nat)
  BY <1>10, Zenon
<1>12. /\ body \in Seq(Nat) /\ Len(a) \in Nat /\ Len(body) = Len(q) + Len(a)
       /\ \A i \in 1 .. Len(q) : body[i] = q[i]
  BY <1>6, <1>11, ConcatAt, SMT
<1>13. Len(v) = 3 /\ Len(s) = 4 /\ Len(u) = 2
  BY <1>v, <1>s, <1>u
<1>14. Len(p) = 7
  BY <1>8, <1>13
<1>15. Len(q) = 9
  BY <1>10, <1>13, <1>14
<1>16. Len(body) = 9 + Len(a) /\ Len(a) \in Nat
  BY <1>12, <1>15
<1>17. \A i \in 1 .. 9 : body[i] = q[i]
  BY <1>12, <1>15, Zenon
<1>18. (\A i \in 1 .. 7 : q[i] = p[i]) /\ \A i \in 1 .. 2 : q[7 + i] = u[i]
  BY <1>10, <1>13, <1>14, Zenon
<1>19. (\A i \in 1 .. 3 : p[i] = v[i]) /\ \A i \in 1 .. 4 : p[3 + i] = s[i]
  BY <1>8, <1>13, Zenon
<1>20. /\ body[1] = v[1] /\ body[2] = v[2] /\ body[3] = v[3]
       /\ body[4] = s[1] /\ body[5] = s[2] /\ body[6] = s[3] /\ body[7] = s[4]
       /\ body[8] = u[1] /\ body[9] = u[2]
  <2>1. /\ body[1] = q[1] /\ body[2] = q[2] /\ body[3] = q[3] /\ body[4] = q[4] /\ body[5] = q[5]
        /\ body[6] = q[6] /\ body[7] = q[7] /\ body[8] = q[8] /\ body[9] = q[9]
    BY <1>17, SMT
  <2>2. /\ q[1] = p[1] /\ q[2] = p[2] /\ q[3] = p[3] /\ q[4] = p[4] /\ q[5] = p[5]
        /\ q[6] = p[6] /\ q[7] = p[7]
    BY <1>18, SMT
  <2>3. q[7 + 1] = u[1] /\ q[7 + 2] = u[2]
    BY <1>18, SMT
  <2>4. p[1] = v[1] /\ p[2] = v[2] /\ p[3] = v[3]
    BY <1>19, SMT
  <2>5. p[3 + 1] = s[1] /\ p[3 + 2] = s[2] /\ p[3 + 3] = s[3] /\ p[3 + 4] = s[4]
    BY <1>19, SMT
  <2> QED BY <2>1, <2>2, <2>3, <2>4, <2>5, SMT
<1>21. <<v[1], v[2], v[3]>> = info.version
  <2>1. <<v[1], v[2], v[3]>> = v
    BY <1>v, SMTT(30)
  <2> QED BY <1>1, <2>1, Zenon
<1>22. DeviceInfoOf(body) = info
  BY <1>i, <1>s, <1>u, <1>20, <1>21, Zenon DEF DeviceInfoOf
<1> QED BY <1>12, <1>16, <1>22, Zenon

(* For all figures and algorithms a device may send, parse() returns the   *)
(* figures, and nothing for a frame that was damaged.                      *)
THEOREM FramesAreRead ==
    ASSUME NEW info \in DeviceFigures, NEW a \in Seq(Nat), Len(Body(info, a)) < MAX_LENGTH
    PROVE  /\ \A behind \in Seq(Nat) : parse(Encode(info, a) \o behind) = info
           /\ \A damaged \in Damaged(info, a) : parse(damaged) = Rejected
<1>1. PICK body : body = Body(info, a)
  OBVIOUS
<1>2. /\ body \in Seq(Nat) /\ Len(body) \in Nat /\ Len(body) >= 9 /\ Len(body) < MAX_LENGTH
      /\ DeviceInfoOf(body) = info
  <2>1. body \in Seq(Nat) /\ Len(body) = 9 + Len(a) /\ DeviceInfoOf(body) = info
    BY <1>1, BodyFact
  <2> QED BY <1>1, <2>1
<1>3. PICK f : f = Encode(info, a)
  OBVIOUS
<1>4. f = Frame(RSP_DEVICE_INFO, Len(body), body) /\ RSP_DEVICE_INFO \in Nat
  BY <1>1, <1>3 DEF Encode, RSP_DEVICE_INFO, CMD_DEVICE_INFO
<1>5. ASSUME NEW behind \in Seq(Nat) PROVE parse(f \o behind) = info
  <2>1. PICK h : h = f \o behind
    BY Zenon
  <2>2. IsFrame(h, RSP_DEVICE_INFO, Len(body), body, behind)
    BY <1>2, <1>4, <2>1, Zenon DEF IsFrame
  <2>3. Len(body) >= MIN_BODY_LEN
    BY <1>2 DEF MIN_BODY_LEN
  <2>4. parse(h) = DeviceInfoOf(body)
    BY <1>2, <2>2, <2>3, ReadsBody, SMT
  <2> QED BY <1>2, <2>1, <2>4, Zenon
<1>6. ASSUME NEW c \in Nat, NEW n \in Nat, NEW g, g = Frame(c, n, body)
      PROVE  IsFrame(g, c, n, body, << >>)
  <2>1. PICK l : l = u16_bytes(n)
    BY Zenon
  <2>2. l \in Seq(Nat)
    BY <2>1, Halves
  <2>3. g = <<c>> \o l \o body
    BY <1>6, <2>1, Zenon DEF Frame
  <2>4. g \in Seq(Nat)
    BY <1>2, <2>2, <2>3
  <2>5. g = g \o << >> /\ << >> \in Seq(Nat)
    BY <2>4
  <2> QED BY <1>2, <1>6, <2>5, Zenon DEF IsFrame
<1>7. ASSUME NEW n \in 0 .. Len(f) - 1 PROVE parse(SubSeq(f, 1, n)) = Rejected
  <2>1. IsFrame(f, RSP_DEVICE_INFO, Len(body), body, << >>)
    BY <1>2, <1>4, <1>6, Zenon
  <2> QED BY <1>2, <1>4, <2>1, RejectsCut, SMT
<1>8. ASSUME NEW c \in {CMD_DEVICE_INFO, RSP_ERROR, 0}
      PROVE  parse(Frame(c, Len(body), body)) = Rejected
  <2>1. c \in Nat /\ c # RSP_DEVICE_INFO
    BY DEF RSP_DEVICE_INFO, CMD_DEVICE_INFO, RSP_ERROR
  <2>2. PICK g : g = Frame(c, Len(body), body)
    BY Zenon
  <2>3. IsFrame(g, c, Len(body), body, << >>)
    BY <1>2, <1>6, <2>1, <2>2, Zenon
  <2>4. parse(g) = Rejected
    BY <1>2, <2>1, <2>3, RejectsFrame, SMT
  <2> QED BY <2>2, <2>4, Zenon
<1>9. ASSUME NEW n \in (0 .. MIN_BODY_LEN - 1) \union {Len(body) + 1, MAX_LENGTH}
      PROVE  parse(Frame(RSP_DEVICE_INFO, n, body)) = Rejected
  <2>1. n \in Nat /\ (n < MIN_BODY_LEN \/ n > Len(body))
    BY <1>2 DEF MIN_BODY_LEN, MAX_LENGTH
  <2>2. PICK g : g = Frame(RSP_DEVICE_INFO, n, body)
    BY Zenon
  <2>3. IsFrame(g, RSP_DEVICE_INFO, n, body, << >>)
    BY <1>4, <1>6, <2>1, <2>2, Zenon
  <2>4. parse(g) = Rejected
    BY <1>2, <1>4, <2>1, <2>3, RejectsFrame, SMT
  <2> QED BY <2>2, <2>4, Zenon
<1>10. ASSUME NEW damaged \in Damaged(info, a) PROVE parse(damaged) = Rejected
  <2>1. \/ \E n \in 0 .. Len(f) - 1 : damaged = SubSeq(f, 1, n)
        \/ \E c \in {CMD_DEVICE_INFO, RSP_ERROR, 0} : damaged = Frame(c, Len(body), body)
        \/ \E n \in (0 .. MIN_BODY_LEN - 1) \union {Len(body) + 1, MAX_LENGTH} :
              damaged = Frame(RSP_DEVICE_INFO, n, body)
    BY <1>1, <1>3, Zenon DEF Damaged
  <2> QED BY <1>7, <1>8, <1>9, <2>1, Zenon
<1> QED BY <1>3, <1>5, <1>10, Zenon

(* The figures the fast path compares are the ones the device sent, and no *)
(* damaged answer yields figures, whatever the log of the device holds.    *)
THEOREM ParseIsSound == Spec => []ParseSound
<1>1. ASSUME NEW a \in Algorithms PROVE a \in Seq(Nat) /\ Len(a) \in Nat /\ Len(a) <= 2
  <2>1. CASE a = << >>
    BY <2>1
  <2>2. CASE a = <<1>>
    BY <2>2
  <2>3. CASE a = <<9, 255>>
    BY <2>3
  <2> QED BY <2>1, <2>2, <2>3 DEF Algorithms
<1>2. \A behind \in {<< >>, <<7>>, <<7, 8>>} : behind \in Seq(Nat)
  <2>1. << >> \in Seq(Nat) /\ <<7>> \in Seq(Nat) /\ <<7, 8>> \in Seq(Nat)
    OBVIOUS
  <2> QED BY <2>1, Zenon
<1>3. TypeOK => \A info \in Figures : info \in DeviceFigures
  <2>1. TypeOK => log_store_used \in Nat
    BY DEF TypeOK, DeviceTypeOK, log_store_used
  <2>2. Capacity \in Nat /\ 255 \in Nat /\ <<2, 4, 0>> \in Seq(Nat) /\ Len(<<2, 4, 0>>) = 3
    BY DeviceAssumption
  <2>3. 66051 \in Nat /\ 2147418121 \in Nat
    BY SMT
  <2>4. ASSUME TypeOK, NEW info \in Figures PROVE info \in DeviceFigures
    <3>0. info = [version |-> info.version, serial |-> info.serial,
                  log_store_capacity |-> info.log_store_capacity,
                  log_store_used |-> info.log_store_used]
      BY SMT DEF Figures
    <3>1. /\ info.version = <<2, 4, 0>> /\ info.serial \in {66051, 2147418121}
          /\ info.log_store_capacity = Capacity /\ info.log_store_used \in {log_store_used, 255}
      BY SMT DEF Figures
    <3>2. info.version \in {v \in Seq(Nat) : Len(v) = 3}
      BY <2>2, <3>1, SMT
    <3>3. info.serial \in Nat /\ info.log_store_capacity \in Nat /\ info.log_store_used \in Nat
      BY <2>1, <2>2, <2>3, <2>4, <3>1, SMT
    <3>4. ASSUME NEW v \in {v \in Seq(Nat) : Len(v) = 3}, NEW s \in Nat, NEW c \in Nat, NEW u \in Nat
          PROVE  [version |-> v, serial |-> s, log_store_capacity |-> c, log_store_used |-> u]
                    \in DeviceFigures
      BY Zenon DEF DeviceFigures
    <3> QED BY <3>0, <3>2, <3>3, <3>4, Zenon
  <2> QED BY <2>4, Zenon
<1>4. ASSUME TypeOK, NEW info \in Figures, NEW a \in Algorithms
      PROVE  /\ \A behind \in {<< >>, <<7>>, <<7, 8>>} : parse(Encode(info, a) \o behind) = info
             /\ \A damaged \in Damaged(info, a) : parse(damaged) = Rejected
  <2>1. info \in DeviceFigures
    BY <1>3, <1>4, Zenon
  <2>2. PICK body : body = Body(info, a)
    BY Zenon
  <2>3. Len(body) < MAX_LENGTH
    <3>1. Len(body) = 9 + Len(a)
      BY <1>1, <2>1, <2>2, BodyFact, SMT
    <3> QED BY <1>1, <3>1, SMT DEF MAX_LENGTH
  <2>4. Len(Body(info, a)) < MAX_LENGTH
    BY <2>2, <2>3, Zenon
  <2> QED BY <1>1, <1>2, <2>1, <2>4, FramesAreRead, Zenon
<1>5. TypeOK => ParseSound
  BY <1>4, Zenon DEF ParseSound
<1> QED BY <1>5, TypeCorrect, PTL
============================================================================
