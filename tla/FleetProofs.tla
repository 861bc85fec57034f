---------------------------- MODULE FleetProofs -----------------------------
(***************************************************************************)
(* Several devices and two processes, for every configuration that gives   *)
(* each device a state file of its own, any number of devices and entries  *)
(* and wherever processes fail or die: as long as nothing held falls half  *)
(* the range of the item number behind, FleetInvariant is inductive, so    *)
(* that NothingLost, CursorCovered and ChainVerdicts hold, and the whole   *)
(* does what Delivery promises.                                            *)
(***************************************************************************)
EXTENDS Fleet, AuditLogProofs, SequenceTheorems

LEMMA DevicesFact ==
    ASSUME config \in Configs
    PROVE  /\ Len(config.devices) \in Nat
           /\ Devices = 1 .. Len(config.devices)
           /\ config.devices # << >> => Len(config.devices) >= 1
<1>1. config.devices \in Seq({config.devices[i] : i \in DOMAIN config.devices})
  BY FleetAssumption
<1>2. Len(config.devices) = 0 => config.devices = << >>
  BY <1>1, EmptySeq
<1> QED BY <1>1, <1>2 DEF Devices

LEMMA LogFact ==
    ASSUME SharedTypeOK
    PROVE  /\ Len(log) \in Nat /\ DOMAIN log = 1 .. Len(log)
           /\ \A e \in DOMAIN log : log[e] \in LogEntries
           /\ \A d : Recorded(d) \subseteq 1 .. Len(log)
           /\ \A d : Buffer(d) \subseteq Recorded(d)
<1>1. Len(log) \in Nat /\ DOMAIN log = 1 .. Len(log) /\ \A e \in DOMAIN log : log[e] \in LogEntries
  BY DEF SharedTypeOK
<1> QED BY <1>1 DEF Recorded, Buffer

(* Some entries of a log can be counted, and more of them are not less.    *)
LEMMA CountMore ==
    ASSUME NEW n \in Nat, NEW S, NEW T, S \subseteq T, T \subseteq 1 .. n
    PROVE  /\ Cardinality(S) \in Nat /\ Cardinality(T) \in Nat
           /\ Cardinality(S) <= Cardinality(T)
           /\ S # {} => Cardinality(S) >= 1
<1>0. IsFiniteSet(1 .. n)
  BY FS_Interval
<1>1. IsFiniteSet(T)
  BY <1>0, FS_Subset
<1>2. IsFiniteSet(S) /\ Cardinality(S) <= Cardinality(T)
  BY <1>1, FS_Subset
<1>3. S # {} => Cardinality(S) # 0
  BY <1>2, FS_EmptySet
<1> QED BY <1>1, <1>2, <1>3, FS_CardinalityType

-----------------------------------------------------------------------------
(* Item numbers within the window.                                         *)

LEMMA WindowDistance ==
    ASSUME SharedTypeOK, ItemsInOrder, NEW d, NEW e \in Recorded(d), NEW f \in Recorded(d),
           e < f, Behind(e) < Half
    PROVE  /\ log[e].item \in Items /\ log[f].item \in Items
           /\ wrapping_sub(log[f].item, log[e].item) \in 1 .. Half - 1
<1>1. /\ e \in DOMAIN log /\ f \in DOMAIN log /\ log[e].dev = d /\ log[f].dev = d
      /\ log[e].item \in Items /\ log[f].item \in Items
  BY LogFact DEF Recorded, LogEntries
<1>2. /\ Between(e, f) \subseteq {x \in Recorded(d) : x > e}
      /\ {x \in Recorded(d) : x > e} \subseteq 1 .. Len(log)
      /\ f \in Between(e, f)
  BY <1>1, LogFact DEF Between
<1>3. /\ Cardinality(Between(e, f)) \in Nat
      /\ Cardinality(Between(e, f)) >= 1
      /\ Cardinality(Between(e, f)) < Half
  BY <1>1, <1>2, LogFact, CountMore, HalfAssumption, CountType DEF Behind
<1>4. wrapping_sub(log[f].item, log[e].item) = Cardinality(Between(e, f))
  BY <1>1, <1>3 DEF ItemsInOrder
<1> QED BY <1>1, <1>3, <1>4, HalfAssumption

(* The later entry is the newer one, and not the other way round.          *)
LEMMA WindowNewer ==
    ASSUME SharedTypeOK, ItemsInOrder, NEW d, NEW e \in Recorded(d), NEW f \in Recorded(d),
           e < f, Behind(e) < Half
    PROVE  /\ log[e].item # log[f].item
           /\ is_newer(log[f].item, log[e].item)
           /\ ~is_newer(log[e].item, log[f].item)
BY WindowDistance, HalfAssumption DEF is_newer, wrapping_sub, Items, ItemMod

(* The entry numbered next was hashed over it.                             *)
LEMMA WindowPrev ==
    ASSUME SharedTypeOK, LinksOK, ItemsInOrder, NEW d, NEW e \in Recorded(d),
           NEW f \in Recorded(d), e < f, Behind(e) < Half,
           log[f].item = wrapping_add(log[e].item, 1)
    PROVE  log[f].prev = e
<1>1. e \in DOMAIN log /\ f \in DOMAIN log /\ log[e].dev = d /\ log[f].dev = d
  BY DEF Recorded
<1>2. e \in Earlier(f)
  BY <1>1 DEF Earlier
<1> DEFINE m == log[f].prev
<1>3. m \in Recorded(d) /\ e <= m /\ log[f].item = wrapping_add(log[m].item, 1)
  BY <1>1, <1>2 DEF LinksOK, Earlier
<1> HIDE DEF m
<1>4. e \in Int /\ m \in Int
  BY <1>3, LogFact
<1>5. CASE e < m
  <2>1. wrapping_sub(log[m].item, log[e].item) \in 1 .. Half - 1
        /\ log[e].item \in Items /\ log[m].item \in Items
    BY <1>3, <1>5, WindowDistance
  <2>2. log[e].item = log[m].item
    BY <1>3, <2>1, HalfAssumption DEF wrapping_add, Items, ItemMod
  <2> QED BY <2>1, <2>2, WrappingSelf
<1> QED BY <1>3, <1>4, <1>5 DEF m

-----------------------------------------------------------------------------
(* An entry is recorded.                                                   *)
LEMMA RecordFact ==
    ASSUME SharedTypeOK, NEW d \in Devices, Record(d), NEW n, n = Len(log) + 1
    PROVE  /\ log' \in Seq(LogEntries) /\ Len(log') = n /\ DOMAIN log' = DOMAIN log \union {n}
           /\ n \in Nat /\ n \notin DOMAIN log /\ \A e \in DOMAIN log : e < n /\ log'[e] = log[e]
           /\ log'[n].dev = d
           /\ Recorded(d) = {} => log'[n].prev = 0
           /\ Recorded(d) # {} => /\ log'[n].prev \in Recorded(d)
                                  /\ \A x \in Recorded(d) : x <= log'[n].prev
                                  /\ log'[n].item = wrapping_add(log[log'[n].prev].item, 1)
           /\ \A c : Recorded(c)' = IF c = d THEN Recorded(c) \union {n} ELSE Recorded(c)
           /\ UNCHANGED <<config, freed, files, racing, emitted, pollVars, onces>>
<1> DEFINE own == Recorded(d)
           entry == [dev |-> d,
                     item |-> IF own = {} THEN FirstItem ELSE wrapping_add(log[Max(own)].item, 1),
                     prev |-> IF own = {} THEN 0 ELSE Max(own),
                     boot |-> FALSE, tick |-> 0]
<1>1. log' = Append(log, entry) /\ UNCHANGED <<config, freed, files, racing, emitted, pollVars, onces>>
  BY DEF Record
<1>2. own # {} => Max(own) \in own /\ \A x \in own : x <= Max(own)
  BY LogFact, MaxFact
<1>3. entry \in LogEntries
  <2>1. own # {} => Max(own) \in Nat /\ log[Max(own)].item \in Items
    BY <1>2, LogFact DEF LogEntries, Recorded
  <2>2. FirstItem \in Items /\ 1 \in Items
    BY FleetAssumption, HalfAssumption DEF Items, ItemMod
  <2>3. own # {} => wrapping_add(log[Max(own)].item, 1) \in Items
    BY <2>1, <2>2, WrappingType
  <2> HIDE DEF own
  <2> QED BY <2>1, <2>2, <2>3 DEF LogEntries
<1> HIDE DEF entry
<1>4. /\ log' \in Seq(LogEntries) /\ Len(log') = n /\ DOMAIN log' = DOMAIN log \union {n}
      /\ n \in Nat /\ n \notin DOMAIN log /\ log'[n] = entry
      /\ \A e \in DOMAIN log : e < n /\ log'[e] = log[e]
  BY <1>1, <1>3, LogFact, AppendProperties DEF SharedTypeOK
<1>5. entry.dev = d /\ (own = {} => entry.prev = 0)
      /\ (own # {} => entry.prev = Max(own) /\ entry.item = wrapping_add(log[Max(own)].item, 1))
  BY DEF entry
<1>6. \A c : Recorded(c)' = IF c = d THEN Recorded(c) \union {n} ELSE Recorded(c)
  BY <1>4, <1>5 DEF Recorded
<1> QED BY <1>1, <1>2, <1>4, <1>5, <1>6

LEMMA RecordLinks ==
    ASSUME SharedTypeOK, LinksOK, NEW d \in Devices, Record(d)
    PROVE  LinksOK'
<1>n. PICK n : n = Len(log) + 1
  OBVIOUS
<1>1. /\ DOMAIN log' = DOMAIN log \union {n} /\ n \notin DOMAIN log
      /\ \A e \in DOMAIN log : e < n /\ log'[e] = log[e]
      /\ log'[n].dev = d
      /\ n \in Nat
  BY <1>n, RecordFact
<1>r. Recorded(d) # {} => /\ log'[n].prev \in Recorded(d)
                         /\ \A x \in Recorded(d) : x <= log'[n].prev
                         /\ log'[n].item = wrapping_add(log[log'[n].prev].item, 1)
  BY <1>n, RecordFact
<1>2. Earlier(n)' = Recorded(d) /\ \A e \in DOMAIN log : Earlier(e)' = Earlier(e)
  <2>1. \A e \in DOMAIN log : e \in Nat
    BY LogFact
  <2> QED BY <1>1, <2>1 DEF Earlier, Recorded
<1>3. ASSUME NEW e \in DOMAIN log', Earlier(e)' # {}
      PROVE  /\ log'[e].prev \in Earlier(e)'
             /\ \A x \in Earlier(e)' : x <= log'[e].prev
             /\ log'[e].item = wrapping_add(log'[log'[e].prev].item, 1)
  <2>1. CASE e = n
    <3>1. /\ log'[n].prev \in Recorded(d)
          /\ \A x \in Recorded(d) : x <= log'[n].prev
          /\ log'[n].item = wrapping_add(log[log'[n].prev].item, 1)
      BY <1>2, <1>3, <1>r, <2>1
    <3>2. log'[n].prev \in DOMAIN log
      BY <3>1 DEF Recorded
    <3> QED BY <1>1, <1>2, <2>1, <3>1, <3>2
  <2>2. CASE e \in DOMAIN log
    <3>1. /\ log[e].prev \in Earlier(e) /\ \A x \in Earlier(e) : x <= log[e].prev
          /\ log[e].item = wrapping_add(log[log[e].prev].item, 1)
      BY <1>2, <1>3, <2>2 DEF LinksOK
    <3>2. log[e].prev \in DOMAIN log
      BY <3>1 DEF Earlier, Recorded
    <3> QED BY <1>1, <1>2, <2>2, <3>1, <3>2
  <2> QED BY <1>1, <1>3, <2>1, <2>2
<1> QED BY <1>3 DEF LinksOK

LEMMA RecordItems ==
    ASSUME SharedTypeOK, ItemsInOrder, NEW d \in Devices, Record(d)
    PROVE  ItemsInOrder'
<1>n. PICK n : n = Len(log) + 1
  OBVIOUS
<1>1. /\ DOMAIN log' = DOMAIN log \union {n} /\ n \notin DOMAIN log
      /\ \A e \in DOMAIN log : e < n /\ log'[e] = log[e]
      /\ log'[n].dev = d
      /\ n \in Nat
  BY <1>n, RecordFact
<1>r. Recorded(d) # {} => /\ log'[n].prev \in Recorded(d)
                         /\ \A x \in Recorded(d) : x <= log'[n].prev
                         /\ log'[n].item = wrapping_add(log[log'[n].prev].item, 1)
  BY <1>n, RecordFact
<1>2. \A e \in DOMAIN log : e \in Nat /\ log[e].item \in Items
  BY LogFact DEF LogEntries
<1>3. ASSUME NEW e \in DOMAIN log', NEW f \in DOMAIN log', log'[e].dev = log'[f].dev, e < f,
             Cardinality(Between(e, f)') < Half
      PROVE  wrapping_sub(log'[f].item, log'[e].item) = Cardinality(Between(e, f)')
  <2>1. CASE f # n
    <3>1. e \in DOMAIN log /\ f \in DOMAIN log
      BY <1>1, <1>2, <1>3, <2>1
    <3>2. Between(e, f)' = Between(e, f)
      <4>1. f < n /\ f \in Nat /\ n \in Nat /\ log'[f].dev = log[f].dev
        BY <1>1, <1>2, <3>1
      <4> QED BY <1>1, <3>1, <4>1 DEF Between, Recorded
    <3> QED BY <1>1, <1>3, <3>1, <3>2 DEF ItemsInOrder
  <2>2. CASE f = n
    <3> DEFINE m == log'[n].prev
    <3>1. e \in DOMAIN log /\ e \in Recorded(d)
      BY <1>1, <1>3, <2>2 DEF Recorded
    <3>2. /\ m \in Recorded(d) /\ m \in DOMAIN log /\ m \in Nat /\ e <= m /\ e \in Nat
          /\ \A x \in Recorded(d) : x <= m /\ x \in Nat /\ x < n
          /\ log'[n].item = wrapping_add(log[m].item, 1) /\ log[m].dev = d
      <4>1. m \in Recorded(d) /\ e <= m /\ log'[n].item = wrapping_add(log[m].item, 1)
            /\ \A x \in Recorded(d) : x <= m
        BY <1>r, <3>1
      <4> HIDE DEF m
      <4> QED BY <1>1, <1>2, <3>1, <4>1 DEF Recorded
    <3> HIDE DEF m
    <3>3. Between(e, n)' = Between(e, m) \union {n} /\ n \notin Between(e, m)
      <4>1. \A x \in DOMAIN log : x \in Nat /\ (log[x].dev = d => x <= m)
        BY <1>2, <3>2 DEF Recorded
      <4> QED BY <1>1, <1>3, <2>2, <3>2, <4>1 DEF Between, Recorded
    <3>4. /\ Cardinality(Between(e, m)) \in Nat
          /\ Cardinality(Between(e, n)') = Cardinality(Between(e, m)) + 1
      <4>1. Between(e, m) \subseteq 1 .. Len(log) /\ Len(log) \in Nat
        BY LogFact DEF Between
      <4>2. IsFiniteSet(1 .. Len(log))
        BY <4>1, FS_Interval
      <4>3. IsFiniteSet(Between(e, m))
        BY <4>1, <4>2, FS_Subset
      <4> QED BY <3>3, <4>1, <4>3, FS_AddElement, CountType
    <3>5. wrapping_sub(log[m].item, log[e].item) = Cardinality(Between(e, m))
      <4>1. CASE e = m
        <5>1. Between(e, m) = {}
          BY <3>2, <4>1 DEF Between
        <5> QED BY <1>2, <3>1, <4>1, <5>1, WrappingSelf, FS_EmptySet
      <4>2. CASE e < m
        <5>1. log[e].dev = d
          BY <3>1 DEF Recorded
        <5>2. Cardinality(Between(e, m)) < Half
          BY <1>3, <2>2, <3>4, HalfAssumption
        <5> QED BY <3>1, <3>2, <4>2, <5>1, <5>2 DEF ItemsInOrder
      <4> QED BY <3>2, <4>1, <4>2
    <3>6. wrapping_sub(wrapping_add(log[m].item, 1), log[e].item) = Cardinality(Between(e, m)) + 1
      <4>1. Cardinality(Between(e, m)) < ItemMod - 1
        BY <1>3, <2>2, <3>4, HalfAssumption DEF ItemMod
      <4> QED BY <1>2, <3>1, <3>2, <3>5, <4>1, WrappingSucc
    <3> QED BY <1>1, <2>2, <3>1, <3>2, <3>4, <3>6
  <2> QED BY <2>1, <2>2
<1> QED BY <1>3 DEF ItemsInOrder

(* A new entry is in the way of no cursor and of no batch.                 *)
LEMMA RecordKeepsProcess ==
    ASSUME SharedTypeOK, ProcessTypeOK, NEW d \in Devices, Record(d), NEW p \in Processes,
           ProcessOK(p)
    PROVE  ProcessOK(p)'
<1>n. PICK n : n = Len(log) + 1
  OBVIOUS
<1>1. /\ \A e \in DOMAIN log : e < n /\ log'[e] = log[e]
      /\ \A c : Recorded(c)' = IF c = d THEN Recorded(c) \union {n} ELSE Recorded(c)
      /\ n \in Nat /\ Len(log) \in Nat
      /\ UNCHANGED <<config, emitted, pc, turn, state, entries, transformed>>
  BY <1>n, RecordFact, LogFact DEF pollVars
<1>2. UNCHANGED <<Delivered, Devices>>
  BY <1>1 DEF Delivered, Devices
<1>3. \A c : Recorded(c) \subseteq Recorded(c)' /\ \A x \in Recorded(c) : x < n /\ x \in DOMAIN log
  BY <1>1 DEF Recorded
<1>4. \A x \in DOMAIN log : \A c : \A y \in Recorded(c)' : y <= x => y \in Recorded(c)
  BY <1>1, LogFact
<1>5. TurnOK(p)'
  BY <1>1, <1>2 DEF ProcessOK, TurnOK
<1>6. CursorOK(turn[p], state[p])'
  BY <1>1, <1>2, <1>3, <1>4 DEF ProcessOK, CursorOK
<1>7. BatchOK(p)'
  <2>1. entries[p] \subseteq DOMAIN log
    BY DEF ProcessTypeOK
  <2> QED BY <1>1, <1>2, <1>3, <1>4, <2>1 DEF ProcessOK, BatchOK
<1>8. NewOK(p)'
  <2>1. transformed[p].new_entries \subseteq DOMAIN log
    BY DEF ProcessTypeOK, Transformed
  <2> QED BY <1>1, <1>2, <1>3, <1>4, <2>1 DEF ProcessOK, NewOK
<1>9. VerdictsOK(p)'
  <2>1. \A v \in transformed[p].events : v.id \in DOMAIN log
    BY DEF ProcessTypeOK, Transformed, Events
  <2> QED BY <1>1, <1>2, <2>1 DEF ProcessOK, VerdictsOK
<1> QED BY <1>5, <1>6, <1>7, <1>8, <1>9 DEF ProcessOK

LEMMA RecordKeeps ==
    ASSUME FleetInvariant, NEW d \in Devices, Record(d)
    PROVE  FleetInvariant'
<1>0. /\ SharedTypeOK /\ ProcessTypeOK /\ LinksOK /\ ItemsInOrder /\ NothingLost /\ CursorsOK
      /\ \A p \in Processes : ProcessOK(p)
      /\ ChainVerdicts
  BY DEF FleetInvariant
<1>n. PICK n : n = Len(log) + 1
  OBVIOUS
<1>1. /\ log' \in Seq(LogEntries) /\ Len(log') = n /\ DOMAIN log' = DOMAIN log \union {n}
      /\ \A e \in DOMAIN log : e < n /\ log'[e] = log[e]
      /\ log'[n].dev = d
      /\ \A c : Recorded(c)' = IF c = d THEN Recorded(c) \union {n} ELSE Recorded(c)
      /\ UNCHANGED <<config, freed, files, racing, emitted, pollVars, onces>>
      /\ n \in Nat /\ Len(log) \in Nat
  BY <1>0, <1>n, RecordFact, LogFact
<1>2. UNCHANGED <<Devices, Delivered>> /\ \A c : File(c)' = File(c)
  BY <1>1 DEF Devices, Delivered, File
<1>3. SharedTypeOK'
  <2>1. LogEntries' = LogEntries /\ Events \subseteq Events'
    BY <1>1, <1>2 DEF LogEntries, Events
  <2>2. freed \in [Devices -> 0 .. n]
    BY <1>0, <1>1 DEF SharedTypeOK
  <2>3. {File(c) : c \in Devices}' = {File(c) : c \in Devices}
    BY <1>1, <1>2 DEF File
  <2> QED BY <1>0, <1>1, <1>2, <2>1, <2>2, <2>3 DEF SharedTypeOK
<1>4. ProcessTypeOK'
  <2>1. SUBSET DOMAIN log \subseteq SUBSET DOMAIN log' /\ Events \subseteq Events'
    BY <1>1 DEF Events
  <2>2. Transformed \subseteq Transformed'
    BY <2>1 DEF Transformed
  <2>3. UNCHANGED <<pc, turn, dry_run, state, entries, transformed>>
    BY <1>1 DEF pollVars
  <2> QED BY <1>0, <2>1, <2>2, <2>3 DEF ProcessTypeOK
<1>5. NothingLost'
  <2>1. freed[d] <= Len(log) /\ freed[d] \in Nat
    BY <1>0, <1>1 DEF SharedTypeOK
  <2> QED BY <1>0, <1>1, <1>2, <2>1 DEF NothingLost
<1>6. CursorsOK'
  <2>1. \A c : \A x \in Recorded(c) : x \in DOMAIN log
    BY DEF Recorded
  <2> QED BY <1>0, <1>1, <1>2, <2>1 DEF CursorsOK, CursorOK
<1>7. ChainVerdicts'
  <2>1. \A v \in emitted : v.id \in DOMAIN log
    BY <1>0 DEF SharedTypeOK, Events
  <2> QED BY <1>0, <1>1, <1>2, <2>1 DEF ChainVerdicts
<1>8. \A p \in Processes : ProcessOK(p)'
  BY <1>0, RecordKeepsProcess
<1>9. LinksOK' /\ ItemsInOrder'
  BY <1>0, RecordLinks, RecordItems
<1> QED BY <1>3, <1>4, <1>5, <1>6, <1>7, <1>8, <1>9 DEF FleetInvariant

-----------------------------------------------------------------------------
(* Steps of the processes: the log and the configuration stay, and what is *)
(* in the sink stays there.                                                *)
Quiet == UNCHANGED <<config, log>> /\ emitted \subseteq emitted'

(* All of process q stays as it is.                                        *)
Same(q) == /\ pc'[q] = pc[q] /\ turn'[q] = turn[q] /\ state'[q] = state[q]
           /\ entries'[q] = entries[q] /\ transformed'[q] = transformed[q]

LEMMA QuietFact ==
    ASSUME Quiet
    PROVE  /\ UNCHANGED <<Devices, LogEntries, Events, Transformed>>
           /\ \A d : File(d)' = File(d) /\ Recorded(d)' = Recorded(d)
           /\ Delivered \subseteq Delivered'
           /\ LinksOK => LinksOK'
           /\ ItemsInOrder => ItemsInOrder'
           /\ \A d, st : CursorOK(d, st) => CursorOK(d, st)'
<1>1. /\ UNCHANGED <<Devices, LogEntries, Events, Transformed>>
      /\ \A d : File(d)' = File(d) /\ Recorded(d)' = Recorded(d)
      /\ Delivered \subseteq Delivered'
  BY DEF Quiet, Devices, LogEntries, Events, Transformed, File, Recorded, Delivered
<1>2. (LinksOK => LinksOK') /\ (ItemsInOrder => ItemsInOrder')
  BY DEF Quiet, LinksOK, Earlier, ItemsInOrder, Between, Recorded
<1>3. \A d, st : CursorOK(d, st) => CursorOK(d, st)'
  BY <1>1 DEF CursorOK, Quiet
<1> QED BY <1>1, <1>2, <1>3

LEMMA SameStays ==
    ASSUME Quiet, NEW q, Same(q), ProcessOK(q)
    PROVE  ProcessOK(q)'
<1>1. TurnOK(q)'
  BY QuietFact DEF ProcessOK, TurnOK, Same, Quiet
<1>2. CursorOK(turn[q], state[q])'
  BY QuietFact DEF ProcessOK, CursorOK, Same, Quiet
<1>3. BatchOK(q)'
  BY QuietFact DEF ProcessOK, BatchOK, Same
<1>4. NewOK(q)'
  BY QuietFact DEF ProcessOK, NewOK, Same
<1>5. VerdictsOK(q)'
  BY QuietFact DEF ProcessOK, VerdictsOK, Same, Quiet
<1> QED BY <1>1, <1>2, <1>3, <1>4, <1>5 DEF ProcessOK

LEMMA DefaultTypes == DefaultState \in DeviceStates /\ NothingTransformed \in Transformed
  BY DEF DefaultState, DeviceStates, NothingTransformed, Transformed

(* A process that has forgotten everything claims nothing.                 *)
LEMMA ForgottenOK ==
    ASSUME NEW p, TurnOK(p)', state'[p] = DefaultState, entries'[p] = {},
           transformed'[p] = NothingTransformed
    PROVE  ProcessOK(p)'
<1>1. CursorOK(turn[p], state[p])'
  BY DEF CursorOK, DefaultState
<1>2. BatchOK(p)' /\ NewOK(p)' /\ VerdictsOK(p)'
  BY DEF BatchOK, NewOK, VerdictsOK, NothingTransformed
<1> QED BY <1>1, <1>2 DEF ProcessOK

(* A poll ends, or the process does.                                       *)
LEMMA EndPollFact ==
    ASSUME SharedTypeOK, ProcessTypeOK, NEW p \in Processes, TurnOK(p), pc[p] # "down", Quiet,
           EndPoll(p) \/ (Forget(p) /\ GoDown(p))
    PROVE  /\ ProcessTypeOK'
           /\ ProcessOK(p)'
           /\ \A q \in Processes : q # p => Same(q)
<1>1. turn[p] \in 1 .. Len(config.devices) /\ Len(config.devices) \in Nat /\ validate(config)
      /\ Devices = 1 .. Len(config.devices)
  BY DevicesFact DEF TurnOK, SharedTypeOK
<1>2. PICK t \in Nat, c \in Steps \union {"down"}, b \in BOOLEAN :
        /\ turn' = [turn EXCEPT ![p] = t]
        /\ pc' = [pc EXCEPT ![p] = c]
        /\ dry_run' = [dry_run EXCEPT ![p] = b]
        /\ \/ t = 1 /\ c = "down"
           \/ c = "poll" /\ t \in 1 .. Len(config.devices)
  <2>1. dry_run = [dry_run EXCEPT ![p] = dry_run[p]] /\ dry_run[p] \in BOOLEAN
    BY DEF ProcessTypeOK
  <2>2. CASE GoDown(p)
    BY <2>2 DEF GoDown, Steps
  <2>3. CASE EndPoll(p) /\ turn[p] < Len(config.devices)
    <3>1. turn' = [turn EXCEPT ![p] = turn[p] + 1] /\ pc' = [pc EXCEPT ![p] = "poll"]
          /\ dry_run' = dry_run
      BY <2>3 DEF EndPoll
    <3>2. turn[p] + 1 \in 1 .. Len(config.devices) /\ turn[p] + 1 \in Nat
      BY <1>1, <2>3
    <3> QED BY <2>1, <3>1, <3>2 DEF Steps
  <2>4. CASE EndPoll(p) /\ ~(turn[p] < Len(config.devices)) /\ p = "run"
    BY <1>1, <2>1, <2>4 DEF EndPoll, Steps
  <2>5. CASE EndPoll(p) /\ ~(turn[p] < Len(config.devices)) /\ p # "run"
    BY <2>2, <2>5 DEF EndPoll
  <2> QED BY <2>2, <2>3, <2>4, <2>5
<1>3. /\ state' = [state EXCEPT ![p] = DefaultState]
      /\ entries' = [entries EXCEPT ![p] = {}]
      /\ transformed' = [transformed EXCEPT ![p] = NothingTransformed]
  BY DEF EndPoll, Forget
<1>4. ProcessTypeOK'
  <2>1. DOMAIN log' = DOMAIN log /\ Transformed' = Transformed
    BY QuietFact DEF Quiet
  <2> QED BY <1>2, <1>3, <2>1, DefaultTypes DEF ProcessTypeOK
<1>5. ProcessOK(p)'
  <2>1. state'[p] = DefaultState /\ entries'[p] = {} /\ transformed'[p] = NothingTransformed
    BY <1>3 DEF ProcessTypeOK
  <2>2. TurnOK(p)'
    <3>1. Devices' = Devices /\ config' = config
      BY QuietFact DEF Quiet
    <3>2. turn'[p] = turn'[p] /\ \/ turn'[p] = 1 /\ pc'[p] = "down"
                                 \/ pc'[p] = "poll" /\ turn'[p] \in Devices
      BY <1>1, <1>2 DEF ProcessTypeOK
    <3> QED BY <1>1, <3>1, <3>2 DEF TurnOK
  <2> QED BY <2>1, <2>2, ForgottenOK
<1>6. \A q \in Processes : q # p => Same(q)
  BY <1>2, <1>3 DEF Same, ProcessTypeOK
<1> QED BY <1>4, <1>5, <1>6

(* What is left to show of a step of process p.                            *)
LEMMA QuietStep ==
    ASSUME FleetInvariant, Quiet, NEW p \in Processes,
           SharedTypeOK', ProcessTypeOK', NothingLost', CursorsOK', ChainVerdicts',
           ProcessOK(p)', \A q \in Processes : q # p => Same(q)
    PROVE  FleetInvariant'
<1>1. LinksOK' /\ ItemsInOrder'
  BY QuietFact DEF FleetInvariant
<1>2. \A q \in Processes : ProcessOK(q)'
  BY SameStays DEF FleetInvariant
<1> QED BY <1>1, <1>2 DEF FleetInvariant

(* Where nothing is emitted, freed or written to a file.                   *)
LEMMA SharedStays ==
    ASSUME FleetInvariant, UNCHANGED <<config, log, freed, files, emitted>>,
           racing' \subseteq {File(d) : d \in Devices}, onces' \in Nat
    PROVE  Quiet /\ SharedTypeOK' /\ NothingLost' /\ CursorsOK' /\ ChainVerdicts'
<1>1. Quiet
  BY DEF Quiet
<1>2. /\ SharedTypeOK /\ NothingLost /\ CursorsOK /\ ChainVerdicts
  BY DEF FleetInvariant
<1>3. SharedTypeOK'
  <2>1. {File(d) : d \in Devices}' = {File(d) : d \in Devices}
    BY <1>1, QuietFact
  <2> QED BY <1>1, <1>2, <2>1, QuietFact DEF SharedTypeOK
<1>4. NothingLost' /\ ChainVerdicts'
  BY <1>2 DEF NothingLost, ChainVerdicts, Delivered
<1>5. CursorsOK'
  BY <1>1, <1>2, QuietFact DEF CursorsOK
<1> QED BY <1>1, <1>3, <1>4, <1>5

LEMMA Parts ==
    ASSUME FleetInvariant, NEW p \in Processes
    PROVE  /\ SharedTypeOK /\ ProcessTypeOK /\ LinksOK /\ ItemsInOrder /\ NothingLost /\ CursorsOK
           /\ ChainVerdicts
           /\ ProcessOK(p) /\ TurnOK(p) /\ CursorOK(turn[p], state[p]) /\ BatchOK(p) /\ NewOK(p)
           /\ VerdictsOK(p)
           /\ pc[p] # "down" => validate(config) /\ turn[p] \in Devices
BY DEF FleetInvariant, ProcessOK, TurnOK

(* Only the place of process p and what it is saving change.               *)
LEMMA StartKeeps ==
    ASSUME FleetInvariant, NEW p \in Processes, Start(p)
    PROVE  FleetInvariant'
<1>0. SharedTypeOK /\ ProcessTypeOK /\ ProcessOK(p) /\ TurnOK(p)
  BY Parts
<1>1. PICK b \in BOOLEAN : dry_run' = [dry_run EXCEPT ![p] = b]
  BY FleetAssumption DEF Start
<1>2. /\ pc[p] = "down" /\ validate(config) /\ pc' = [pc EXCEPT ![p] = "poll"]
      /\ UNCHANGED <<config, log, freed, files, racing, emitted, turn, state, entries, transformed>>
      /\ onces' \in Nat
  BY <1>0 DEF Start, SharedTypeOK
<1>3. Quiet /\ SharedTypeOK' /\ NothingLost' /\ CursorsOK' /\ ChainVerdicts'
  BY <1>0, <1>2, SharedStays DEF SharedTypeOK
<1>4. ProcessTypeOK'
  BY <1>0, <1>1, <1>2, <1>3, QuietFact DEF ProcessTypeOK, Steps
<1>5. ProcessOK(p)'
  <2>1. turn[p] \in Devices
    BY <1>0, <1>2, DevicesFact DEF TurnOK, SharedTypeOK, validate
  <2>2. pc'[p] = "poll"
    BY <1>0, <1>2 DEF ProcessTypeOK
  <2>3. TurnOK(p)'
    BY <1>2, <1>3, <2>1, <2>2, QuietFact DEF TurnOK
  <2>4. CursorOK(turn[p], state[p])' /\ BatchOK(p)' /\ NewOK(p)' /\ VerdictsOK(p)'
    BY <1>0, <1>2, <1>3, <2>2, QuietFact DEF ProcessOK, CursorOK, BatchOK, NewOK, VerdictsOK
  <2> QED BY <2>3, <2>4 DEF ProcessOK
<1>6. \A q \in Processes : q # p => Same(q)
  BY <1>0, <1>2 DEF Same, ProcessTypeOK
<1> QED BY <1>3, <1>4, <1>5, <1>6, QuietStep

(* A save begins or ends: whether it meets another.                        *)
LEMMA RacingType ==
    ASSUME SharedTypeOK, NEW p \in Processes, turn[p] \in Devices
    PROVE  /\ BeginSave(p) => /\ pc' = [pc EXCEPT ![p] = "save"]
                              /\ racing' \subseteq {File(d) : d \in Devices}
           /\ StillRacing(p) \subseteq {File(d) : d \in Devices}
BY DEF BeginSave, StillRacing, SharedTypeOK

LEMMA SkipKeeps ==
    ASSUME FleetInvariant, NEW p \in Processes, Skip(p)
    PROVE  FleetInvariant'
<1>0. /\ SharedTypeOK /\ ProcessTypeOK /\ ProcessOK(p) /\ CursorsOK
      /\ validate(config) /\ turn[p] \in Devices /\ pc[p] = "poll"
  BY Parts DEF Skip
<1> DEFINE st == files[File(turn[p])]
<1>1. /\ pc' = [pc EXCEPT ![p] = "save"] /\ racing' \subseteq {File(d) : d \in Devices}
      /\ state' = [state EXCEPT ![p] = st] /\ st # Torn
      /\ UNCHANGED <<config, log, freed, files, emitted, turn, entries, transformed, dry_run, onces>>
  BY <1>0, RacingType DEF Skip
<1>2. Quiet /\ SharedTypeOK' /\ NothingLost' /\ CursorsOK' /\ ChainVerdicts'
  BY <1>0, <1>1, SharedStays DEF SharedTypeOK
<1>3. st \in DeviceStates /\ CursorOK(turn[p], st)
  BY <1>0, <1>1 DEF SharedTypeOK, CursorsOK
<1> HIDE DEF st
<1>4. ProcessTypeOK'
  BY <1>0, <1>1, <1>2, <1>3, QuietFact DEF ProcessTypeOK, Steps
<1>5. pc'[p] = "save" /\ state'[p] = st
  BY <1>0, <1>1 DEF ProcessTypeOK
<1>6. ProcessOK(p)'
  <2>1. TurnOK(p)'
    BY <1>0, <1>1, <1>2, <1>5, QuietFact DEF TurnOK
  <2>2. CursorOK(turn[p], state[p])'
    BY <1>1, <1>2, <1>3, <1>5, QuietFact DEF CursorOK
  <2>3. BatchOK(p)' /\ NewOK(p)' /\ VerdictsOK(p)'
    BY <1>0, <1>1, <1>2, <1>5, QuietFact DEF ProcessOK, BatchOK, NewOK, VerdictsOK
  <2> QED BY <2>1, <2>2, <2>3 DEF ProcessOK
<1>7. \A q \in Processes : q # p => Same(q)
  BY <1>0, <1>1 DEF Same, ProcessTypeOK
<1> QED BY <1>2, <1>4, <1>6, <1>7, QuietStep

(* What a device holds is all of its log that was not freed.               *)
LEMMA ReadKeeps ==
    ASSUME FleetInvariant, NEW p \in Processes, Read(p)
    PROVE  FleetInvariant'
<1>0. /\ SharedTypeOK /\ ProcessTypeOK /\ ProcessOK(p) /\ NothingLost
      /\ validate(config) /\ turn[p] \in Devices /\ pc[p] = "poll"
  BY Parts DEF Read
<1>1. /\ pc' = [pc EXCEPT ![p] = "load"] /\ entries' = [entries EXCEPT ![p] = Buffer(turn[p])]
      /\ UNCHANGED <<config, log, freed, files, racing, emitted, turn, state, transformed,
                     dry_run, onces>>
  BY DEF Read
<1>2. Quiet /\ SharedTypeOK' /\ NothingLost' /\ CursorsOK' /\ ChainVerdicts'
  BY <1>0, <1>1, SharedStays DEF SharedTypeOK
<1>3. pc'[p] = "load" /\ entries'[p] = Buffer(turn[p])
  BY <1>0, <1>1 DEF ProcessTypeOK
<1>4. Buffer(turn[p]) \in SUBSET DOMAIN log
  BY DEF Buffer
<1>5. ProcessTypeOK'
  BY <1>0, <1>1, <1>2, <1>4, QuietFact DEF ProcessTypeOK, Steps
<1>6. BatchOK(p)'
  <2>1. freed[turn[p]] \in Nat /\ \A y \in Recorded(turn[p]) : y \in Nat
    BY <1>0, LogFact DEF SharedTypeOK
  <2>2. \A y \in Recorded(turn[p]) : y <= freed[turn[p]] => y \in Delivered
    BY <1>0 DEF NothingLost, Recorded
  <2>3. \A y : y \in Buffer(turn[p]) <=> y \in Recorded(turn[p]) /\ y > freed[turn[p]]
    BY DEF Buffer, Recorded
  <2> HIDE DEF Buffer
  <2>4. \A x \in Buffer(turn[p]) : /\ x \in Recorded(turn[p])
          /\ \A y \in Recorded(turn[p]) :
               /\ y <= x => y \in Buffer(turn[p]) \union Delivered
               /\ \A z \in Buffer(turn[p]) : x <= y /\ y <= z => y \in Buffer(turn[p])
    BY <2>1, <2>2, <2>3
  <2> QED BY <1>1, <1>2, <1>3, <2>4, QuietFact DEF BatchOK
<1>7. ProcessOK(p)'
  <2>1. TurnOK(p)'
    BY <1>0, <1>1, <1>2, <1>3, QuietFact DEF TurnOK
  <2>2. CursorOK(turn[p], state[p])' /\ NewOK(p)' /\ VerdictsOK(p)'
    BY <1>0, <1>1, <1>2, <1>3, QuietFact DEF ProcessOK, CursorOK, NewOK, VerdictsOK
  <2> QED BY <1>6, <2>1, <2>2 DEF ProcessOK
<1>8. \A q \in Processes : q # p => Same(q)
  BY <1>0, <1>1 DEF Same, ProcessTypeOK
<1> QED BY <1>2, <1>5, <1>7, <1>8, QuietStep

-----------------------------------------------------------------------------
(* What transform() makes of a read, in the window: new is what lies after *)
(* the cursor.                                                             *)
Batch(d, read) ==
    \A x \in read :
        /\ x \in Recorded(d)
        /\ \A y \in Recorded(d) :
             /\ y <= x => y \in read \union Delivered
             /\ \A z \in read : x <= y /\ y <= z => y \in read

LEMMA SelectFact ==
    ASSUME SharedTypeOK, ItemsInOrder, NEW d, NEW read, Batch(d, read),
           NEW st, CursorOK(d, st), \A e \in read : Behind(e) < Half,
           st.last_digest # None => Behind(st.last_digest) < Half
    PROVE  \/ /\ st.last_item = None
              /\ select_new(log, read, st) = read
           \/ /\ st.last_item # None /\ st.last_digest \in Recorded(d)
              /\ st.last_item = log[st.last_digest].item
              /\ select_new(log, read, st) = {e \in read : e > st.last_digest}
<1>1. CASE st.last_item = None
  BY <1>1 DEF select_new
<1>2. CASE st.last_item # None
  <2> DEFINE L == st.last_digest
  <2>1. L \in Recorded(d) /\ st.last_item = log[L].item
    BY <1>2 DEF CursorOK
  <2>2. L \in Nat /\ L # None
    BY <2>1, LogFact, NoneAssumption
  <2> HIDE DEF L
  <2>3. \A e \in read : e \in Recorded(d) /\ e \in Nat
    BY LogFact DEF Batch
  <2>4. ASSUME NEW e \in read
        PROVE  is_newer(log[e].item, log[L].item) /\ L # e <=> e > L
    <3>1. CASE e > L
      BY <2>1, <2>2, <2>3, <3>1, WindowNewer DEF L
    <3>2. CASE e < L
      BY <2>1, <2>2, <2>3, <3>2, WindowNewer
    <3>3. CASE e = L
      BY <2>2, <3>3
    <3> QED BY <2>2, <2>3, <3>1, <3>2, <3>3
  <2>5. select_new(log, read, st) = {e \in read : is_newer(log[e].item, log[L].item) /\ L # e}
    BY <1>2, <2>1 DEF select_new, L
  <2>6. select_new(log, read, st) = {e \in read : e > L}
    BY <2>4, <2>5
  <2> QED BY <1>2, <2>1, <2>6 DEF L
<1> QED BY <1>1, <1>2

LEMMA NewFact ==
    ASSUME SharedTypeOK, LinksOK, ItemsInOrder, NEW d, NEW read, Batch(d, read),
           NEW st, CursorOK(d, st), \A e \in read : Behind(e) < Half,
           st.last_digest # None => Behind(st.last_digest) < Half,
           NEW new, new = select_new(log, read, st)
    PROVE  /\ new \subseteq 1 .. Len(log)
           /\ \A x \in new :
                /\ x \in Recorded(d)
                /\ \A y \in Recorded(d) : y <= x => y \in new \union Delivered
           /\ Linked(log, new)
           /\ new # {} => Anchored(log, new, st)
           /\ st.last_digest # None => st.last_digest \in Delivered
<1>0. \A x \in read : x \in Recorded(d) /\ x \in DOMAIN log /\ x \in Nat /\ log[x].dev = d
  BY LogFact DEF Batch, Recorded
<1>1. \/ st.last_item = None /\ new = read
      \/ /\ st.last_item # None /\ st.last_digest \in Recorded(d)
         /\ st.last_item = log[st.last_digest].item
         /\ new = {e \in read : e > st.last_digest}
  BY SelectFact
<1>2. new \subseteq read
  BY <1>1
<1>3. /\ st.last_item # None => st.last_digest \in Nat /\ st.last_digest # None
      /\ \A y \in Recorded(d) : /\ y \in Nat
                                /\ st.last_item # None /\ y <= st.last_digest => y \in Delivered
      /\ st.last_item = None => st.last_digest = None
  <2>1. st.last_item = None => st.last_digest = None
    <3>1. \A x \in Recorded(d) : log[x].item # None
      BY LogFact, NoneAssumption DEF Recorded, LogEntries, Items
    <3> QED BY <3>1 DEF CursorOK
  <2> QED BY <1>1, <2>1, LogFact, NoneAssumption DEF CursorOK
<1>4. new \subseteq 1 .. Len(log)
  BY <1>0, <1>2, LogFact
<1>5. ASSUME NEW x \in new
      PROVE  /\ x \in Recorded(d)
             /\ \A y \in Recorded(d) : y <= x => y \in new \union Delivered
  <2>1. x \in read /\ x \in Recorded(d)
    BY <1>0, <1>2
  <2>2. \A y \in Recorded(d) : y <= x => y \in read \union Delivered
    BY <2>1 DEF Batch
  <2> QED BY <1>1, <1>3, <2>1, <2>2
<1>6. Linked(log, new)
  <2> SUFFICES ASSUME NEW x \in new, NEW y \in new, x < y, \A z \in new : ~(x < z /\ z < y)
               PROVE  log[y].prev = x
    BY DEF Linked
  <2>1. x \in read /\ y \in read /\ x \in Recorded(d) /\ y \in DOMAIN log /\ log[y].dev = d
        /\ x \in Nat /\ y \in Nat
    BY <1>0, <1>2
  <2>2. x \in Earlier(y)
    BY <2>1 DEF Earlier
  <2> DEFINE m == log[y].prev
  <2>3. m \in Recorded(d) /\ m < y /\ x <= m /\ m \in Nat
    BY <1>3, <2>1, <2>2 DEF LinksOK, Earlier
  <2> HIDE DEF m
  <2>4. m \in read
    BY <2>1, <2>3 DEF Batch
  <2>5. m \in new
    BY <1>1, <1>3, <2>1, <2>3, <2>4
  <2> QED BY <2>1, <2>3, <2>5 DEF m
<1>7. ASSUME new # {} PROVE Anchored(log, new, st)
  <2> DEFINE m == Min(new)
  <2>1. m \in new
    BY <1>4, <1>7, LogFact, MinFact
  <2> HIDE DEF m
  <2> SUFFICES ASSUME st.last_digest # None, st.last_item # None,
                      log[m].item = wrapping_add(st.last_item, 1)
               PROVE  log[m].prev = st.last_digest
    BY DEF Anchored, m
  <2>2. /\ st.last_digest \in Recorded(d) /\ st.last_item = log[st.last_digest].item
        /\ m > st.last_digest /\ m \in Recorded(d)
    BY <1>0, <1>1, <1>2, <2>1
  <2> QED BY <2>2, <1>0, <1>2, <1>3, <2>1, WindowPrev
<1>8. st.last_digest # None => st.last_digest \in Delivered
  BY <1>1, <1>3
<1> QED BY <1>4, <1>5, <1>6, <1>7, <1>8

LEMMA LoadKeeps ==
    ASSUME FleetInvariant, InWindow, NEW p \in Processes, Load(p)
    PROVE  FleetInvariant'
<1>0. /\ SharedTypeOK /\ ProcessTypeOK /\ ProcessOK(p) /\ CursorsOK /\ LinksOK /\ ItemsInOrder
      /\ validate(config) /\ turn[p] \in Devices /\ pc[p] = "load" /\ TurnOK(p) /\ BatchOK(p)
  BY Parts DEF Load
<1>1. UNCHANGED <<config, log, freed, files, racing, emitted, onces>>
  BY DEF Load
<1>2. Quiet /\ SharedTypeOK' /\ NothingLost' /\ CursorsOK' /\ ChainVerdicts'
  BY <1>0, <1>1, SharedStays DEF SharedTypeOK
<1> DEFINE st == files[File(turn[p])]
           new == select_new(log, entries[p], st)
           tr == transform(log, entries[p], st)
<1>3. CASE st = Torn
  <2>1. EndPoll(p)
    BY <1>3 DEF Load
  <2> QED BY <1>0, <1>2, <2>1, EndPollFact, QuietStep
<1>4. CASE st # Torn
  <2>1. /\ state' = [state EXCEPT ![p] = st]
        /\ transformed' = [transformed EXCEPT ![p] = tr]
        /\ pc' = [pc EXCEPT ![p] = "emit"]
        /\ entries' = [entries EXCEPT ![p] = {}]
        /\ UNCHANGED <<turn, dry_run>>
    BY <1>4 DEF Load
  <2>2. st \in DeviceStates /\ CursorOK(turn[p], st) /\ entries[p] \subseteq 1 .. Len(log)
    BY <1>0, <1>4, LogFact DEF SharedTypeOK, CursorsOK, ProcessTypeOK
  <2>3. /\ Batch(turn[p], entries[p])
        /\ \A e \in entries[p] : Behind(e) < Half
        /\ st.last_digest # None => Behind(st.last_digest) < Half
    <3>1. st \in {files[f] : f \in DOMAIN files} \ {Torn}
      BY <1>0, <1>4 DEF SharedTypeOK
    <3>2. st.last_digest # None => st \in Cursors
      BY <3>1 DEF Cursors
    <3> QED BY <1>0, <3>2 DEF BatchOK, Batch, InWindow
  <2> HIDE DEF st
  <2>4. /\ new \subseteq 1 .. Len(log)
        /\ \A x \in new :
             /\ x \in Recorded(turn[p])
             /\ \A y \in Recorded(turn[p]) : y <= x => y \in new \union Delivered
        /\ Linked(log, new)
        /\ new # {} => Anchored(log, new, st)
        /\ st.last_digest # None => st.last_digest \in Delivered
    BY <1>0, <2>2, <2>3, NewFact
  <2>5. tr.new_entries = new /\ {v.id : v \in tr.events} = new
        /\ tr.events = {entry_event(log, new, st, e) : e \in new}
    BY EventPerEntry DEF transform, EventIds
  <2>6. tr \in Transformed
    <3>1. /\ tr.sequence \in Nat /\ tr.boot_session \in Nat
          /\ tr.events \subseteq [id: 1 .. Len(log), sequence: Nat, boot_session: Nat,
                                  chain_status: {"ok", "mismatch", "unverified", None}]
      BY <1>0, <2>2, LogFact, TransformType DEF DeviceStates
    <3>2. tr = [new_entries |-> tr.new_entries, events |-> tr.events, sequence |-> tr.sequence,
                boot_session |-> tr.boot_session]
      BY DEF transform
    <3>3. DOMAIN log = 1 .. Len(log)
      BY <1>0, LogFact
    <3> HIDE DEF tr, new
    <3> QED BY <2>4, <2>5, <3>1, <3>2, <3>3 DEF Transformed, Events
  <2>7. \A v \in tr.events : /\ v.chain_status # "mismatch"
                             /\ v.chain_status = "ok" =>
                                   log[v.id].prev \in Delivered \union {u \in new : u < v.id}
    <3> SUFFICES ASSUME NEW e \in new
                 PROVE  LET v == entry_event(log, new, st, e)
                        IN  /\ v.chain_status # "mismatch"
                            /\ v.chain_status = "ok" =>
                                  log[v.id].prev \in Delivered \union {u \in new : u < v.id}
      BY <2>5
    <3> HIDE DEF new
    <3>1. /\ chain_status(log, new, st, e) # "mismatch"
          /\ chain_status(log, new, st, e) = "ok" =>
                \/ log[e].prev \in new /\ log[e].prev < e
                \/ log[e].prev = st.last_digest /\ st.last_digest # None /\ st.last_item # None
      BY <1>0, <2>4, LogFact, VerdictFact
    <3>2. entry_event(log, new, st, e).id = e
          /\ entry_event(log, new, st, e).chain_status =
                IF verify_chain THEN chain_status(log, new, st, e) ELSE None
      BY DEF entry_event
    <3> QED BY <2>4, <3>1, <3>2, NoneAssumption
  <2> HIDE DEF new, tr
  <2>8. ProcessTypeOK'
    BY <1>0, <1>2, <2>1, <2>2, <2>6, QuietFact DEF ProcessTypeOK, Steps, Quiet
  <2>9. /\ pc'[p] = "emit" /\ state'[p] = st /\ entries'[p] = {} /\ transformed'[p] = tr
        /\ turn'[p] = turn[p]
    BY <1>0, <2>1 DEF ProcessTypeOK
  <2>10. ProcessOK(p)'
    <3>1. TurnOK(p)' /\ BatchOK(p)'
      BY <1>0, <1>1, <1>2, <2>9, QuietFact DEF TurnOK, BatchOK
    <3>2. CursorOK(turn[p], state[p])'
      BY <1>1, <1>2, <2>2, <2>9, QuietFact DEF CursorOK
    <3>3. NewOK(p)'
      BY <1>2, <2>4, <2>5, <2>9, QuietFact DEF NewOK
    <3>4. VerdictsOK(p)'
      BY <1>1, <1>2, <2>5, <2>7, <2>9, QuietFact DEF VerdictsOK
    <3> QED BY <3>1, <3>2, <3>3, <3>4 DEF ProcessOK
  <2>11. \A q \in Processes : q # p => Same(q)
    BY <1>0, <2>1 DEF Same, ProcessTypeOK
  <2> QED BY <1>2, <2>8, <2>10, <2>11, QuietStep
<1> QED BY <1>3, <1>4
-----------------------------------------------------------------------------
(* Events reach the sink: all of a poll, or the first of them.             *)
LEMMA EmitsFact ==
    ASSUME FleetInvariant, NEW p \in Processes, NEW E \in SUBSET transformed[p].events,
           emitted' = emitted \union E,
           \A v \in E : \A u \in transformed[p].events : u.id <= v.id => u \in E,
           UNCHANGED <<config, log, freed, files, racing, onces>>
    PROVE  /\ Quiet /\ SharedTypeOK' /\ NothingLost' /\ CursorsOK' /\ ChainVerdicts'
           /\ Delivered' = Delivered \union {v.id : v \in E}
<1>0. /\ SharedTypeOK /\ ProcessTypeOK /\ NothingLost /\ CursorsOK /\ ChainVerdicts
      /\ NewOK(p) /\ VerdictsOK(p)
  BY Parts
<1>1. Quiet /\ Delivered' = Delivered \union {v.id : v \in E}
  BY DEF Quiet, Delivered
<1>2. SharedTypeOK'
  <2>1. transformed[p].events \subseteq Events
    BY <1>0 DEF ProcessTypeOK, Transformed
  <2>2. {File(d) : d \in Devices}' = {File(d) : d \in Devices}
    BY <1>1, QuietFact
  <2> QED BY <1>0, <1>1, <2>1, <2>2, QuietFact DEF SharedTypeOK
<1>3. NothingLost'
  BY <1>0, <1>1 DEF NothingLost
<1>4. CursorsOK'
  BY <1>0, <1>1, QuietFact DEF CursorsOK
<1>5. ASSUME NEW v \in emitted'
      PROVE  /\ v.chain_status = "ok" => log[v.id].prev \in Delivered'
             /\ v.chain_status # "mismatch"
  <2>1. CASE v \in emitted
    BY <1>0, <1>1, <2>1 DEF ChainVerdicts
  <2>2. CASE v \in E
    <3>1. /\ v.chain_status # "mismatch"
          /\ v.chain_status = "ok" =>
                log[v.id].prev \in Delivered \union {u \in transformed[p].new_entries : u < v.id}
      BY <1>0, <2>2 DEF VerdictsOK
    <3>2. \A v1 \in transformed[p].events : v1.id \in Nat
      BY <1>0, LogFact DEF ProcessTypeOK, Transformed, Events
    <3>3. ASSUME NEW u \in transformed[p].new_entries, u < v.id
          PROVE  u \in Delivered'
      <4>1. PICK w \in transformed[p].events : w.id = u
        BY <1>0, <3>3 DEF NewOK
      <4>2. w \in E
        BY <2>2, <3>2, <3>3, <4>1
      <4> QED BY <1>1, <4>1, <4>2
    <3> QED BY <1>1, <3>1, <3>3
  <2> QED BY <2>1, <2>2
<1>6. ChainVerdicts'
  BY <1>1, <1>5 DEF ChainVerdicts, Quiet
<1> QED BY <1>1, <1>2, <1>3, <1>4, <1>6

LEMMA EmitKeeps ==
    ASSUME FleetInvariant, NEW p \in Processes, Emit(p)
    PROVE  FleetInvariant'
<1>0. /\ SharedTypeOK /\ ProcessTypeOK /\ ProcessOK(p) /\ TurnOK(p) /\ NewOK(p)
      /\ validate(config) /\ turn[p] \in Devices /\ pc[p] = "emit"
  BY Parts DEF Emit
<1>1. /\ emitted' = emitted \union transformed[p].events
      /\ UNCHANGED <<config, log, freed, files, racing, onces>>
  BY DEF Emit
<1>2. /\ Quiet /\ SharedTypeOK' /\ NothingLost' /\ CursorsOK' /\ ChainVerdicts'
      /\ Delivered' = Delivered \union {v.id : v \in transformed[p].events}
  BY <1>1, EmitsFact
<1>3. CASE dry_run[p]
  <2>1. EndPoll(p)
    BY <1>3 DEF Emit
  <2> QED BY <1>0, <1>2, <2>1, EndPollFact, QuietStep
<1>4. CASE ~dry_run[p]
  <2>1. pc' = [pc EXCEPT ![p] = "ack"] /\ UNCHANGED <<turn, dry_run, state, entries, transformed>>
    BY <1>4 DEF Emit
  <2>2. ProcessTypeOK'
    BY <1>0, <1>2, <2>1, QuietFact DEF ProcessTypeOK, Steps, Quiet
  <2>3. pc'[p] = "ack"
    BY <1>0, <2>1 DEF ProcessTypeOK
  <2>4. ProcessOK(p)'
    <3>1. TurnOK(p)' /\ CursorOK(turn[p], state[p])'
      BY <1>0, <1>1, <1>2, <2>1, <2>3, QuietFact DEF TurnOK, ProcessOK
    <3>2. BatchOK(p)'
      BY <1>0, <1>2, <2>1, QuietFact DEF ProcessOK, BatchOK
    <3>3. NewOK(p)'
      BY <1>0, <1>2, <2>1, QuietFact DEF NewOK
    <3>4. VerdictsOK(p)'
      BY <1>0, <1>2, <2>1, QuietFact DEF ProcessOK, VerdictsOK, Quiet
    <3> QED BY <3>1, <3>2, <3>3, <3>4 DEF ProcessOK
  <2>5. \A q \in Processes : q # p => Same(q)
    BY <1>0, <2>1 DEF Same, ProcessTypeOK
  <2> QED BY <1>2, <2>2, <2>4, <2>5, QuietStep
<1> QED BY <1>3, <1>4

LEMMA EmitFailsKeeps ==
    ASSUME FleetInvariant, NEW p \in Processes, EmitFails(p)
    PROVE  FleetInvariant'
<1>0. SharedTypeOK /\ ProcessTypeOK /\ TurnOK(p) /\ NewOK(p) /\ pc[p] = "emit"
  BY Parts DEF EmitFails
<1>1. PICK upTo \in transformed[p].new_entries :
         emitted' = emitted \union {v \in transformed[p].events : v.id <= upTo}
  BY DEF EmitFails
<1>2. UNCHANGED <<config, log, freed, files, racing, onces>> /\ EndPoll(p)
  BY DEF EmitFails
<1>3. upTo \in Nat /\ \A v \in transformed[p].events : v.id \in Nat
  BY <1>0, LogFact DEF ProcessTypeOK, Transformed, Events
<1> DEFINE E == {v \in transformed[p].events : v.id <= upTo}
<1>4. /\ E \in SUBSET transformed[p].events /\ emitted' = emitted \union E
      /\ \A v \in E : \A u \in transformed[p].events : u.id <= v.id => u \in E
  BY <1>1, <1>3
<1> HIDE DEF E
<1>5. Quiet /\ SharedTypeOK' /\ NothingLost' /\ CursorsOK' /\ ChainVerdicts'
  BY <1>2, <1>4, EmitsFact
<1> QED BY <1>0, <1>2, <1>5, EndPollFact, QuietStep

-----------------------------------------------------------------------------
(* In the window, an item number that is acknowledged names one entry of   *)
(* what the device holds: the newest of those that were read, and all up   *)
(* to it are in the sink.                                                  *)
LEMMA AcknowledgeKeeps ==
    ASSUME FleetInvariant, InWindow, NEW p \in Processes, Acknowledge(p)
    PROVE  FleetInvariant'
<1> DEFINE d == turn[p]
           new == transformed[p].new_entries
           b == fast_path_enabled(config)
<1>0. /\ SharedTypeOK /\ ProcessTypeOK /\ ProcessOK(p) /\ ItemsInOrder /\ NothingLost /\ CursorsOK
      /\ ChainVerdicts /\ CursorOK(d, state[p]) /\ NewOK(p)
      /\ validate(config) /\ d \in Devices /\ pc[p] = "ack"
  BY Parts DEF Acknowledge
<1>1. /\ pc' = [pc EXCEPT ![p] = "save"] /\ racing' \subseteq {File(c) : c \in Devices}
      /\ transformed' = [transformed EXCEPT ![p] = NothingTransformed]
      /\ UNCHANGED <<config, log, files, emitted, turn, entries, dry_run, onces>>
  BY <1>0, RacingType DEF Acknowledge
<1>2. Quiet /\ Delivered' = Delivered
  BY <1>1 DEF Quiet, Delivered
<1>b. b \in BOOLEAN
  BY DEF fast_path_enabled
<1>3. \E n \in 0 .. Len(log), st \in DeviceStates :
        /\ freed' = [freed EXCEPT ![d] = n]
        /\ \A e \in Recorded(d) : e <= n => e \in Delivered
        /\ state' = [state EXCEPT ![p] = st]
        /\ CursorOK(d, st)
  <2>1. CASE new = {}
    <3>1. state' = [state EXCEPT ![p].baseline = b] /\ freed' = freed
      BY <2>1 DEF Acknowledge
    <3> DEFINE st == [state[p] EXCEPT !.baseline = b]
    <3>2. st \in DeviceStates /\ st.last_item = state[p].last_item
          /\ st.last_digest = state[p].last_digest
      BY <1>0, <1>b DEF ProcessTypeOK, DeviceStates
    <3>3. state' = [state EXCEPT ![p] = st]
      BY <3>1
    <3>4. freed[d] \in 0 .. Len(log) /\ freed = [freed EXCEPT ![d] = freed[d]]
      BY <1>0 DEF SharedTypeOK
    <3>5. \A e \in Recorded(d) : e <= freed[d] => e \in Delivered
      BY <1>0 DEF NothingLost, Recorded
    <3> HIDE DEF st
    <3>6. CursorOK(d, st)
      BY <1>0, <3>2 DEF CursorOK
    <3> QED BY <3>1, <3>2, <3>3, <3>4, <3>5, <3>6
  <2>2. CASE new # {}
    <3> DEFINE m == Max(new)
               named == {e \in Buffer(d) : log[e].item = log[m].item}
               st == [last_item |-> log[m].item, last_digest |-> m, last_tick |-> log[m].tick,
                      sequence |-> transformed[p].sequence,
                      boot_session |-> transformed[p].boot_session, baseline |-> b]
    <3>1. /\ freed' = [freed EXCEPT ![d] = IF named = {} THEN freed[d] ELSE Max(named)]
          /\ state' = [state EXCEPT ![p] = st]
      BY <2>2 DEF Acknowledge
    <3>2. m \in new
      <4>1. new \subseteq 1 .. Len(log) /\ Len(log) \in Nat
        BY <1>0, LogFact DEF ProcessTypeOK, Transformed
      <4> HIDE DEF new
      <4> QED BY <2>2, <4>1, MaxFact
    <3>3. /\ m \in Recorded(d) /\ Behind(m) < Half /\ m \in 1 .. Len(log) /\ Len(log) \in Nat
          /\ \A e \in Recorded(d) : e <= m => e \in Delivered
      <4> HIDE DEF m
      <4> QED BY <1>0, <3>2, LogFact DEF NewOK, InWindow
    <3>4. st \in DeviceStates
      <4>1. log[m] \in LogEntries /\ transformed[p] \in Transformed
        BY <1>0, <3>3, LogFact DEF ProcessTypeOK
      <4>2. m \in Nat /\ log[m].item \in Items /\ log[m].tick \in Nat
            /\ transformed[p].sequence \in Nat /\ transformed[p].boot_session \in Nat
        BY <3>3, <4>1 DEF LogEntries, Transformed
      <4> HIDE DEF m
      <4> QED BY <1>b, <4>2 DEF DeviceStates
    <3>5. CursorOK(d, st)
      <4> HIDE DEF m
      <4> QED BY <3>3 DEF CursorOK
    <3> HIDE DEF m
    <3>6. \A e \in named : e = m
      <4> SUFFICES ASSUME NEW e \in named PROVE e = m
        OBVIOUS
      <4>1. e \in Recorded(d) /\ Behind(e) < Half /\ log[e].item = log[m].item /\ e \in Nat
        BY <1>0, LogFact DEF InWindow
      <4>2. CASE e < m
        BY <1>0, <3>3, <4>1, <4>2, WindowNewer
      <4>3. CASE m < e
        BY <1>0, <3>3, <4>1, <4>3, WindowNewer
      <4> QED BY <3>3, <4>1, <4>2, <4>3
    <3>7. CASE named = {}
      <4>1. freed[d] \in 0 .. Len(log) /\ \A e \in Recorded(d) : e <= freed[d] => e \in Delivered
        BY <1>0 DEF SharedTypeOK, NothingLost, Recorded
      <4> HIDE DEF named, st
      <4> QED BY <3>1, <3>4, <3>5, <3>7, <4>1
    <3>8. CASE named # {}
      <4>1. named = {m}
        BY <3>6, <3>8
      <4>2. Max(named) = m
        <5>1. Max({m}) \in {m}
          <6>1. {m} \subseteq 1 .. Len(log) /\ {m} # {}
            BY <3>3
          <6> QED BY <3>3, <6>1, MaxFact
        <5> QED BY <4>1, <5>1
      <4> HIDE DEF named, st
      <4>3. (IF named = {} THEN freed[d] ELSE Max(named)) = m
        BY <3>8, <4>2
      <4>4. freed' = [freed EXCEPT ![d] = m]
        BY <3>1, <4>3
      <4>5. m \in 0 .. Len(log)
        BY <3>3
      <4> QED BY <3>1, <3>3, <3>4, <3>5, <4>4, <4>5
    <3> QED BY <3>7, <3>8
  <2> QED BY <2>1, <2>2
<1>4. PICK n \in 0 .. Len(log), st \in DeviceStates :
        /\ freed' = [freed EXCEPT ![d] = n]
        /\ \A e \in Recorded(d) : e <= n => e \in Delivered
        /\ state' = [state EXCEPT ![p] = st]
        /\ CursorOK(d, st)
  BY <1>3
<1> HIDE DEF b
<1>5. SharedTypeOK'
  <2>1. {File(c) : c \in Devices}' = {File(c) : c \in Devices}
    BY <1>2, QuietFact
  <2>2. freed' \in [Devices -> 0 .. Len(log)]
    BY <1>0, <1>4 DEF SharedTypeOK
  <2> QED BY <1>0, <1>1, <1>2, <2>1, <2>2, QuietFact DEF SharedTypeOK
<1>6. NothingLost'
  <2> SUFFICES ASSUME NEW e \in DOMAIN log, e <= freed'[log[e].dev]
               PROVE  e \in Delivered
    BY <1>1, <1>2 DEF NothingLost
  <2>1. log[e].dev \in Devices
    BY <1>0, LogFact DEF LogEntries
  <2>2. CASE log[e].dev = d
    <3>1. freed'[d] = n
      BY <1>0, <1>4 DEF SharedTypeOK
    <3> QED BY <1>4, <2>2, <3>1 DEF Recorded
  <2>3. CASE log[e].dev # d
    <3>1. freed'[log[e].dev] = freed[log[e].dev]
      BY <1>0, <1>4, <2>1, <2>3 DEF SharedTypeOK
    <3> QED BY <1>0, <3>1 DEF NothingLost
  <2> QED BY <2>2, <2>3
<1>7. CursorsOK' /\ ChainVerdicts'
  <2>1. CursorsOK'
    BY <1>0, <1>1, <1>2, QuietFact DEF CursorsOK
  <2>2. ChainVerdicts'
    BY <1>0, <1>1, <1>2 DEF ChainVerdicts
  <2> QED BY <2>1, <2>2
<1>8. ProcessTypeOK'
  <2>1. Transformed' = Transformed /\ DOMAIN log' = DOMAIN log
    BY <1>1, <1>2, QuietFact
  <2> QED BY <1>0, <1>1, <1>2, <1>4, <2>1, QuietFact, DefaultTypes DEF ProcessTypeOK, Steps
<1>9. pc'[p] = "save" /\ state'[p] = st /\ transformed'[p] = NothingTransformed
  BY <1>0, <1>1, <1>4 DEF ProcessTypeOK
<1>10. ProcessOK(p)'
  <2>1. TurnOK(p)'
    BY <1>0, <1>1, <1>2, <1>9, QuietFact DEF TurnOK
  <2>2. CursorOK(turn[p], state[p])'
    BY <1>1, <1>2, <1>4, <1>9, QuietFact DEF CursorOK
  <2>3. BatchOK(p)'
    BY <1>0, <1>1, <1>2, QuietFact DEF ProcessOK, BatchOK
  <2>4. NewOK(p)' /\ VerdictsOK(p)'
    BY <1>9 DEF NewOK, VerdictsOK, NothingTransformed
  <2> QED BY <2>1, <2>2, <2>3, <2>4 DEF ProcessOK
<1>11. \A q \in Processes : q # p => Same(q)
  BY <1>0, <1>1, <1>4 DEF Same, ProcessTypeOK
<1> HIDE DEF d
<1> QED BY <1>2, <1>5, <1>6, <1>7, <1>8, <1>10, <1>11, QuietStep
-----------------------------------------------------------------------------
(* The saves.  A state file belongs to one device, so whatever a step      *)
(* writes into it must be a cursor of that device.                         *)
LEMMA OneFile ==
    ASSUME Apart, SharedTypeOK, validate(config), NEW d \in Devices, NEW e \in Devices,
           File(d) = File(e)
    PROVE  d = e
BY DEF Apart, SharedTypeOK, Devices, File

LEMMA FileWritten ==
    ASSUME Apart, FleetInvariant, NEW p \in Processes, pc[p] # "down",
           NEW st \in DeviceStates \union {Torn}, st # Torn => CursorOK(turn[p], st),
           files' = [files EXCEPT ![File(turn[p])] = st],
           UNCHANGED <<config, log, freed, emitted, onces>>,
           racing' \subseteq {File(d) : d \in Devices}
    PROVE  Quiet /\ SharedTypeOK' /\ NothingLost' /\ CursorsOK' /\ ChainVerdicts'
<1>0. /\ SharedTypeOK /\ NothingLost /\ CursorsOK /\ ChainVerdicts
      /\ validate(config) /\ turn[p] \in Devices
  BY Parts
<1>1. Quiet
  BY DEF Quiet
<1>2. SharedTypeOK'
  <2>1. {File(d) : d \in Devices}' = {File(d) : d \in Devices}
    BY <1>1, QuietFact
  <2>2. files' \in [{File(d) : d \in Devices} -> DeviceStates \union {Torn}]
    BY <1>0 DEF SharedTypeOK
  <2> QED BY <1>0, <1>1, <2>1, <2>2, QuietFact DEF SharedTypeOK
<1>3. NothingLost' /\ ChainVerdicts'
  BY <1>0 DEF NothingLost, ChainVerdicts, Delivered
<1>4. CursorsOK'
  <2> SUFFICES ASSUME NEW d \in Devices, files'[File(d)] # Torn
               PROVE  CursorOK(d, files'[File(d)])
    <3>1. \A d \in Devices : CursorOK(d, files'[File(d)]) => CursorOK(d, files[File(d)])'
      BY <1>1, QuietFact DEF CursorOK
    <3> QED BY <1>1, <3>1, QuietFact DEF CursorsOK
  <2>1. File(d) \in DOMAIN files /\ File(turn[p]) \in DOMAIN files
    BY <1>0 DEF SharedTypeOK
  <2>2. CASE d = turn[p]
    BY <2>1, <2>2
  <2>3. CASE d # turn[p]
    <3>1. File(d) # File(turn[p])
      BY <1>0, <2>3, OneFile
    <3>2. files'[File(d)] = files[File(d)]
      BY <2>1, <3>1
    <3> QED BY <1>0, <3>2 DEF CursorsOK
  <2> QED BY <2>2, <2>3
<1> QED BY <1>1, <1>2, <1>3, <1>4

LEMMA WriteIntoRenamedKeeps ==
    ASSUME Apart, FleetInvariant, NEW p \in Processes, WriteIntoRenamed(p)
    PROVE  FleetInvariant'
<1>0. SharedTypeOK /\ ProcessTypeOK /\ CursorOK(turn[p], state[p]) /\ ProcessOK(p) /\ pc[p] = "save"
  BY Parts DEF WriteIntoRenamed
<1>1. PICK st \in {state[p], Torn} : files' = [files EXCEPT ![File(turn[p])] = st]
  BY DEF WriteIntoRenamed
<1>2. UNCHANGED <<config, log, freed, racing, emitted, onces>>
      /\ UNCHANGED <<pc, turn, dry_run, state, entries, transformed>>
  BY DEF WriteIntoRenamed, pollVars
<1>3. st \in DeviceStates \union {Torn} /\ (st # Torn => CursorOK(turn[p], st))
  BY <1>0 DEF ProcessTypeOK
<1>4. Quiet /\ SharedTypeOK' /\ NothingLost' /\ CursorsOK' /\ ChainVerdicts'
  BY <1>0, <1>1, <1>2, <1>3, FileWritten DEF SharedTypeOK
<1>5. ProcessTypeOK'
  BY <1>0, <1>2, <1>4, QuietFact DEF ProcessTypeOK
<1>6. \A q \in Processes : Same(q)
  BY <1>2 DEF Same
<1>7. ProcessOK(p)'
  BY <1>0, <1>4, <1>6, SameStays
<1> QED BY <1>4, <1>5, <1>6, <1>7, QuietStep

LEMMA SaveRemoveKeeps ==
    ASSUME Apart, FleetInvariant, NEW p \in Processes, SaveRemove(p)
    PROVE  FleetInvariant'
<1>0. /\ SharedTypeOK /\ ProcessTypeOK /\ ProcessOK(p) /\ TurnOK(p) /\ pc[p] = "save"
      /\ NewOK(p)
  BY Parts DEF SaveRemove
<1>1. /\ files' = [files EXCEPT ![File(turn[p])] = DefaultState]
      /\ pc' = [pc EXCEPT ![p] = "rename"]
      /\ UNCHANGED <<config, log, freed, racing, emitted, turn, state, entries, transformed,
                     dry_run, onces>>
  BY DEF SaveRemove
<1>2. CursorOK(turn[p], DefaultState)
  BY DEF CursorOK, DefaultState
<1>3. Quiet /\ SharedTypeOK' /\ NothingLost' /\ CursorsOK' /\ ChainVerdicts'
  BY <1>0, <1>1, <1>2, FileWritten, DefaultTypes DEF SharedTypeOK
<1>4. ProcessTypeOK'
  BY <1>0, <1>1, <1>3, QuietFact DEF ProcessTypeOK, Steps
<1>5. pc'[p] = "rename"
  BY <1>0, <1>1 DEF ProcessTypeOK
<1>6. ProcessOK(p)'
  <2>1. TurnOK(p)' /\ CursorOK(turn[p], state[p])' /\ BatchOK(p)'
    BY <1>0, <1>1, <1>3, <1>5, QuietFact DEF ProcessOK, TurnOK, BatchOK
  <2>2. NewOK(p)'
    BY <1>0, <1>1, <1>3, <1>5, QuietFact DEF NewOK
  <2>3. VerdictsOK(p)'
    BY <1>0, <1>1, <1>3, QuietFact DEF ProcessOK, VerdictsOK
  <2> QED BY <2>1, <2>2, <2>3 DEF ProcessOK
<1>7. \A q \in Processes : q # p => Same(q)
  BY <1>0, <1>1 DEF Same, ProcessTypeOK
<1> QED BY <1>3, <1>4, <1>6, <1>7, QuietStep

LEMMA SaveRenameKeeps ==
    ASSUME Apart, FleetInvariant, NEW p \in Processes, SaveRename(p)
    PROVE  FleetInvariant'
<1>0. /\ SharedTypeOK /\ ProcessTypeOK /\ TurnOK(p) /\ pc[p] = "rename"
      /\ CursorOK(turn[p], state[p]) /\ validate(config) /\ turn[p] \in Devices
  BY Parts DEF SaveRename
<1>1. PICK st \in IF File(turn[p]) \in racing
                  THEN {state[q] : q \in Saving(File(turn[p]))} \union {Torn} ELSE {state[p]} :
        files' = [files EXCEPT ![File(turn[p])] = st]
  BY DEF SaveRename
<1>2. /\ racing' = StillRacing(p) /\ EndPoll(p)
      /\ UNCHANGED <<config, log, freed, emitted, onces>>
  BY DEF SaveRename
<1>3. ASSUME NEW q \in Saving(File(turn[p]))
      PROVE  state[q] \in DeviceStates /\ CursorOK(turn[p], state[q])
  <2>1. q \in Processes /\ pc[q] # "down" /\ File(turn[q]) = File(turn[p])
    BY DEF Saving
  <2>2. turn[q] \in Devices /\ CursorOK(turn[q], state[q]) /\ state[q] \in DeviceStates
    BY <1>0, <2>1, Parts DEF ProcessTypeOK
  <2>3. turn[q] = turn[p]
    BY <1>0, <2>1, <2>2, OneFile
  <2> QED BY <2>2, <2>3
<1>4. st \in DeviceStates \union {Torn} /\ (st # Torn => CursorOK(turn[p], st))
  <2>1. CASE File(turn[p]) \in racing
    BY <1>1, <1>3, <2>1
  <2>2. CASE File(turn[p]) \notin racing
    BY <1>0, <1>1, <2>2 DEF ProcessTypeOK
  <2> QED BY <2>1, <2>2
<1>5. Quiet /\ SharedTypeOK' /\ NothingLost' /\ CursorsOK' /\ ChainVerdicts'
  <2>1. racing' \subseteq {File(d) : d \in Devices}
    BY <1>0, <1>2, RacingType
  <2> QED BY <1>0, <1>1, <1>2, <1>4, <2>1, FileWritten
<1> QED BY <1>0, <1>2, <1>5, EndPollFact, QuietStep

LEMMA GiveUpKeeps ==
    ASSUME FleetInvariant, NEW p \in Processes, Fail(p) \/ Die(p)
    PROVE  FleetInvariant'
<1>0. SharedTypeOK /\ ProcessTypeOK /\ TurnOK(p) /\ pc[p] # "down" /\ turn[p] \in Devices
  <2>1. pc[p] # "down"
    BY FleetAssumption DEF Fail, Die, Steps
  <2> QED BY <2>1, Parts
<1>1. /\ racing' = StillRacing(p)
      /\ EndPoll(p) \/ (Forget(p) /\ GoDown(p))
      /\ UNCHANGED <<config, log, freed, files, emitted, onces>>
  BY DEF Fail, Die
<1>2. Quiet /\ SharedTypeOK' /\ NothingLost' /\ CursorsOK' /\ ChainVerdicts'
  BY <1>0, <1>1, RacingType, SharedStays DEF SharedTypeOK
<1> QED BY <1>0, <1>1, <1>2, EndPollFact, QuietStep

-----------------------------------------------------------------------------
LEMMA FleetInit == Init => FleetInvariant
<1> SUFFICES ASSUME Init PROVE FleetInvariant
  OBVIOUS
<1>1. log = << >> /\ Len(log) = 0 /\ DOMAIN log = {} /\ emitted = {} /\ Delivered = {}
  BY DEF Init, Delivered
<1>2. SharedTypeOK
  <2>1. log \in Seq(LogEntries)
    BY <1>1
  <2> QED BY <1>1, <2>1, DefaultTypes DEF Init, SharedTypeOK
<1>3. ProcessTypeOK
  BY DefaultTypes DEF Init, ProcessTypeOK
<1>4. LinksOK /\ ItemsInOrder /\ NothingLost /\ ChainVerdicts
  BY <1>1 DEF LinksOK, ItemsInOrder, NothingLost, ChainVerdicts
<1>5. CursorsOK
  <2>1. \A d \in Devices : files[File(d)] = DefaultState
    BY DEF Init
  <2> QED BY <2>1 DEF CursorsOK, CursorOK, DefaultState
<1>6. ASSUME NEW p \in Processes PROVE ProcessOK(p)
  <2>1. /\ pc[p] = "down" /\ turn[p] = 1 /\ state[p] = DefaultState /\ entries[p] = {}
        /\ transformed[p] = NothingTransformed
    BY DEF Init
  <2>2. TurnOK(p) /\ CursorOK(turn[p], state[p])
    BY <2>1 DEF TurnOK, CursorOK, DefaultState
  <2>3. BatchOK(p) /\ NewOK(p) /\ VerdictsOK(p)
    BY <2>1 DEF BatchOK, NewOK, VerdictsOK, NothingTransformed
  <2> QED BY <2>2, <2>3 DEF ProcessOK
<1> QED BY <1>2, <1>3, <1>4, <1>5, <1>6 DEF FleetInvariant

LEMMA FleetNext ==
    ASSUME Apart, FleetInvariant, InWindow, [Next]_vars
    PROVE  FleetInvariant'
<1>1. CASE \E d \in Devices : Record(d)
  BY <1>1, RecordKeeps
<1>2. ASSUME NEW p \in Processes, Step(p) PROVE FleetInvariant'
  <2>1. CASE Start(p)
    BY <2>1, StartKeeps
  <2>2. CASE Skip(p)
    BY <2>2, SkipKeeps
  <2>3. CASE Read(p)
    BY <2>3, ReadKeeps
  <2>4. CASE Load(p)
    BY <2>4, LoadKeeps
  <2>5. CASE Emit(p)
    BY <2>5, EmitKeeps
  <2>6. CASE EmitFails(p)
    BY <2>6, EmitFailsKeeps
  <2>7. CASE Acknowledge(p)
    BY <2>7, AcknowledgeKeeps
  <2>8. CASE WriteIntoRenamed(p)
    BY <2>8, WriteIntoRenamedKeeps
  <2>9. CASE SaveRemove(p)
    BY <2>9, SaveRemoveKeeps
  <2>10. CASE SaveRename(p)
    BY <2>10, SaveRenameKeeps
  <2>11. CASE Fail(p) \/ Die(p)
    BY <2>11, GiveUpKeeps
  <2> QED BY <1>2, <2>1, <2>2, <2>3, <2>4, <2>5, <2>6, <2>7, <2>8, <2>9, <2>10, <2>11 DEF Step
<1>3. CASE UNCHANGED vars
  <2>1. /\ UNCHANGED <<config, log, freed, files, racing, emitted, onces>>
        /\ UNCHANGED <<pc, turn, dry_run, state, entries, transformed>>
    BY <1>3 DEF vars, pollVars
  <2>2. Quiet /\ SharedTypeOK' /\ NothingLost' /\ CursorsOK' /\ ChainVerdicts'
    BY <2>1, SharedStays DEF FleetInvariant, SharedTypeOK
  <2>3. ProcessTypeOK' /\ LinksOK' /\ ItemsInOrder'
    BY <2>1, <2>2, QuietFact DEF FleetInvariant, ProcessTypeOK
  <2>4. \A q \in Processes : ProcessOK(q)'
    BY <2>1, <2>2, SameStays DEF FleetInvariant, Same
  <2> QED BY <2>2, <2>3, <2>4 DEF FleetInvariant
<1> QED BY <1>1, <1>2, <1>3 DEF Next

(* What FleetInvariant says of a log, of every cursor on disk or in the    *)
(* memory of a process, and of what a process has read, holds always.      *)
THEOREM FleetInvariantHolds ==
    ASSUME Apart
    PROVE  Spec /\ []InWindow => []FleetInvariant
BY FleetInit, FleetNext, PTL DEF Spec

(* No device is told to free an entry before its event is in the sink,     *)
(* whatever two processes do to each other's cursor (main.rs:193).         *)
THEOREM FleetLosesNothing ==
    ASSUME Apart
    PROVE  Spec /\ []InWindow => []NothingLost
<1>1. FleetInvariant => NothingLost
  BY DEF FleetInvariant
<1> QED BY <1>1, FleetInvariantHolds, PTL

(* No save, overtaken, torn or doubled, moves a cursor over an entry that  *)
(* is still owed.                                                          *)
THEOREM FleetCursorsAreCovered ==
    ASSUME Apart
    PROVE  Spec /\ []InWindow => []CursorCovered
<1>1. FleetInvariant => CursorCovered
  <2> SUFFICES ASSUME FleetInvariant, NEW d \in Devices, files[File(d)] # Torn,
                      files[File(d)].last_digest # None,
                      NEW e \in Recorded(d), e <= files[File(d)].last_digest
               PROVE  e \in Delivered
    BY DEF CursorCovered
  <2>1. CursorOK(d, files[File(d)]) /\ SharedTypeOK
    BY DEF FleetInvariant, CursorsOK
  <2> QED BY <2>1 DEF CursorOK
<1> QED BY <1>1, FleetInvariantHolds, PTL

(* No verdict of the hash chain is wrong because another process moved the *)
(* cursor or because another device is polled next.                        *)
THEOREM FleetVerdictsAreRight ==
    ASSUME Apart
    PROVE  Spec /\ []InWindow => []ChainVerdicts
<1>1. FleetInvariant => ChainVerdicts
  BY DEF FleetInvariant
<1> QED BY <1>1, FleetInvariantHolds, PTL

-----------------------------------------------------------------------------
(* The refinement of Delivery.                                             *)
Released == {e \in DOMAIN log : e <= freed[log[e].dev]}

(* What an acknowledgement frees was held before.                          *)
LEMMA AcknowledgeReleases ==
    ASSUME FleetInvariant, NEW p \in Processes, Acknowledge(p)
    PROVE  Released \subseteq Released'
<1>0. SharedTypeOK /\ turn[p] \in Devices
  BY Parts DEF Acknowledge
<1>1. UNCHANGED log
  BY DEF Acknowledge
<1>2. \A d \in Devices : freed'[d] >= freed[d]
  <2>1. CASE transformed[p].new_entries = {}
    BY <1>0, <2>1 DEF Acknowledge, SharedTypeOK
  <2>2. CASE transformed[p].new_entries # {}
    <3> DEFINE named == {e \in Buffer(turn[p]) :
                           log[e].item = log[Max(transformed[p].new_entries)].item}
    <3>1. freed' = [freed EXCEPT ![turn[p]] = IF named = {} THEN freed[turn[p]] ELSE Max(named)]
      BY <2>2 DEF Acknowledge
    <3>2. named \subseteq 1 .. Len(log) /\ Len(log) \in Nat /\ \A e \in named : e > freed[turn[p]]
      BY <1>0, LogFact DEF Buffer
    <3> HIDE DEF named
    <3>3. named # {} => Max(named) \in named
      BY <3>2, MaxFact
    <3>4. \A d \in Devices : freed[d] \in Nat
      BY <1>0 DEF SharedTypeOK
    <3>5. (IF named = {} THEN freed[turn[p]] ELSE Max(named)) >= freed[turn[p]]
      <4>1. CASE named = {}
        BY <1>0, <3>4, <4>1
      <4>2. CASE named # {}
        <5>1. Max(named) > freed[turn[p]] /\ Max(named) \in Nat
          <6>1. PICK x \in named : x = Max(named)
            BY <3>3, <4>2
          <6> QED BY <3>2, <6>1
        <5> QED BY <1>0, <3>4, <4>2, <5>1
      <4> QED BY <4>1, <4>2
    <3>6. \A d \in Devices : d # turn[p] => freed'[d] = freed[d]
      BY <1>0, <3>1 DEF SharedTypeOK
    <3>7. freed'[turn[p]] >= freed[turn[p]]
      BY <1>0, <3>1, <3>5 DEF SharedTypeOK
    <3> QED BY <3>4, <3>6, <3>7
  <2> QED BY <2>1, <2>2
<1>3. \A e \in DOMAIN log : log[e].dev \in Devices /\ e \in Nat
  BY <1>0, LogFact DEF LogEntries
<1>4. \A d \in Devices : freed[d] \in Nat /\ freed'[d] \in Int
  <2>1. freed' \in [Devices -> Int]
    <3>1. freed \in [Devices -> Int]
      BY <1>0 DEF SharedTypeOK
    <3>2. CASE transformed[p].new_entries = {}
      BY <3>1, <3>2 DEF Acknowledge
    <3>3. CASE transformed[p].new_entries # {}
      <4>1. PICK named : /\ named \subseteq Buffer(turn[p])
                         /\ freed' = [freed EXCEPT ![turn[p]] =
                                        IF named = {} THEN freed[turn[p]] ELSE Max(named)]
        BY <3>3 DEF Acknowledge
      <4>2. named # {} => Max(named) \in Int
        BY <1>0, <4>1, LogFact, MaxFact
      <4> QED BY <1>0, <3>1, <4>1, <4>2
    <3> QED BY <3>2, <3>3
  <2> QED BY <1>0, <2>1 DEF SharedTypeOK
<1> QED BY <1>1, <1>2, <1>3, <1>4 DEF Released

LEMMA FleetKeepsPromise ==
    ASSUME FleetInvariant, FleetInvariant', [Next]_vars
    PROVE  [Promise!Next]_(Promise!vars)
<1>0. SharedTypeOK /\ SharedTypeOK' /\ NothingLost'
  BY DEF FleetInvariant
<1>1. ASSUME NEW d \in Devices, Record(d) PROVE Promise!Record
  <2>n. PICK n : n = Len(log) + 1
    OBVIOUS
  <2>1. /\ DOMAIN log' = DOMAIN log \union {n} /\ n \in Nat
        /\ \A e \in DOMAIN log : log'[e] = log[e]
        /\ log'[n].dev = d
        /\ UNCHANGED <<freed, emitted>>
    BY <1>0, <1>1, <2>n, RecordFact
  <2>2. freed[d] \in Nat /\ freed[d] < n
    BY <1>0, <2>n, LogFact DEF SharedTypeOK
  <2>3. {e \in DOMAIN log : e <= freed[log[e].dev]}'
          = {e \in DOMAIN log : e <= freed[log[e].dev]}
    BY <2>1, <2>2
  <2> QED BY <2>1, <2>3 DEF Promise!Record, Delivered
<1>2. ASSUME UNCHANGED <<log, freed>>, emitted \subseteq emitted' PROVE Promise!Deliver
  <2>1. Delivered \subseteq Delivered' /\ Delivered' \subseteq DOMAIN log
    BY <1>0, <1>2 DEF Delivered, SharedTypeOK, Events
  <2> QED BY <1>2, <2>1 DEF Promise!Deliver
<1>3. ASSUME UNCHANGED <<log, freed, emitted>> PROVE UNCHANGED Promise!vars
  BY <1>3 DEF Promise!vars, Delivered
<1>4. ASSUME NEW p \in Processes, Acknowledge(p) PROVE Promise!Release
  <2>1. UNCHANGED <<log, emitted>>
    BY <1>4 DEF Acknowledge
  <2>2. Released \subseteq Released'
    BY <1>4, AcknowledgeReleases
  <2>3. Released' \subseteq Delivered'
    BY <1>0 DEF NothingLost, Released
  <2> QED BY <2>1, <2>2, <2>3 DEF Promise!Release, Delivered, Released
<1>5. ASSUME NEW p \in Processes, Emit(p) \/ EmitFails(p) PROVE Promise!Deliver
  <2>1. UNCHANGED <<log, freed>> /\ emitted \subseteq emitted'
    BY <1>5 DEF Emit, EmitFails
  <2> QED BY <1>2, <2>1
<1>6. ASSUME NEW p \in Processes,
             \/ Start(p) \/ Skip(p) \/ Read(p) \/ Load(p) \/ WriteIntoRenamed(p) \/ SaveRemove(p)
             \/ SaveRename(p) \/ Fail(p) \/ Die(p)
      PROVE  UNCHANGED Promise!vars
  <2>1. UNCHANGED <<log, freed, emitted>>
    BY <1>6 DEF Start, Skip, Read, Load, WriteIntoRenamed, SaveRemove, SaveRename, Fail, Die
  <2> QED BY <1>3, <2>1
<1>7. CASE UNCHANGED vars
  BY <1>3, <1>7 DEF vars
<1> QED BY <1>1, <1>4, <1>5, <1>6, <1>7 DEF Next, Step, Promise!Next

(* All processes and devices together deliver first and release then: what *)
(* Delivery promises of one collector holds of the fleet.                  *)
THEOREM FleetPromiseIsKept ==
    ASSUME Apart
    PROVE  Spec /\ []InWindow => KeepsPromise
<1>1. Init => Promise!Init
  BY DEF Init, Promise!Init, Delivered
<1>2. FleetInvariant /\ FleetInvariant' /\ [Next]_vars => [Promise!Next]_(Promise!vars)
  BY FleetKeepsPromise
<1> QED BY <1>1, <1>2, FleetInvariantHolds, PTL DEF Spec, KeepsPromise, Promise!Spec

-----------------------------------------------------------------------------
(* Configurations and logs that meet what the theorems suppose.            *)

(* sanitize() changes nothing in a name made of the characters it keeps.   *)
LEMMA SanitizeKeeps ==
    ASSUME NEW name \in Seq(Alphabet)
    PROVE  sanitize(name) = name
<1>1. name \in [DOMAIN name -> Alphabet]
  OBVIOUS
<1>2. \A i \in DOMAIN name : name[i] \in Alphabet
  BY <1>1
<1>3. sanitize(name) = [i \in DOMAIN name |-> name[i]]
  BY <1>2, Zenon DEF sanitize
<1> QED BY <1>1, <1>3

(* Devices of such names, all different as validate() sees to, have a      *)
(* state file each.                                                        *)
PlainNames ==
    \A c \in Configs : \A d \in DOMAIN c.devices : c.devices[d].name \in Seq(Alphabet)

THEOREM PlainNamesAreApart ==
    ASSUME PlainNames
    PROVE  Apart
<1> SUFFICES ASSUME NEW c \in Configs, validate(c), NEW d \in DOMAIN c.devices, NEW e \in DOMAIN c.devices,
                    path(c.devices[d]) = path(c.devices[e])
             PROVE  d = e
  BY DEF Apart
<1>1. c.devices[d].name = c.devices[e].name
  BY SanitizeKeeps DEF PlainNames, path
<1> QED BY <1>1 DEF validate

(* The log is never longer than its bound.                                 *)
LogFits == Len(log) <= MaxEntries

LEMMA LogFitsNext ==
    ASSUME FleetInvariant, LogFits, [Next]_vars
    PROVE  LogFits'
<1>0. SharedTypeOK /\ Len(log) \in Nat /\ MaxEntries \in Nat
  BY LogFact, FleetAssumption DEF FleetInvariant
<1>1. ASSUME NEW d \in Devices, Record(d) PROVE LogFits'
  <2>1. PICK n : n = Len(log) + 1
    OBVIOUS
  <2>2. Len(log') = n
    BY <1>0, <1>1, <2>1, RecordFact
  <2>3. Len(log) < MaxEntries
    BY <1>1 DEF Record
  <2> QED BY <1>0, <2>1, <2>2, <2>3 DEF LogFits
<1>2. ASSUME NEW p \in Processes, Step(p) PROVE LogFits'
  <2>1. UNCHANGED log
    BY <1>2, ZenonT(30) DEF Step, Start, Skip, Read, Load, Emit, EmitFails, Acknowledge,
       WriteIntoRenamed, SaveRemove, SaveRename, Fail, Die
  <2> QED BY <2>1 DEF LogFits
<1>3. CASE UNCHANGED vars
  BY <1>3 DEF vars, LogFits
<1> QED BY <1>1, <1>2, <1>3 DEF Next

(* With plain names, and while fewer entries were recorded than half the   *)
(* range of the item number (32768), the fleet is safe whatever happens:   *)
(* nothing is assumed of how far cursors fall behind.                      *)
THEOREM ShortLogsAreSafe ==
    ASSUME PlainNames, MaxEntries < Half
    PROVE  /\ Spec => [](NothingLost /\ CursorCovered /\ ChainVerdicts)
           /\ Spec => KeepsPromise
<1>1. Init => LogFits
  BY FleetAssumption DEF Init, LogFits
<1>2. FleetInvariant /\ LogFits /\ [Next]_vars => LogFits'
  BY LogFitsNext
<1>3. FleetInvariant /\ LogFits => InWindow
  <2> SUFFICES ASSUME FleetInvariant, LogFits PROVE InWindow
    OBVIOUS
  <2>1. SharedTypeOK /\ Len(log) \in Nat /\ MaxEntries \in Nat /\ Half \in Nat
    BY LogFact, FleetAssumption, HalfAssumption DEF FleetInvariant
  <2>2. ASSUME NEW e PROVE Behind(e) < Half
    <3> DEFINE later == {x \in Recorded(log[e].dev) : x > e}
    <3>1. later \subseteq 1 .. Len(log)
      BY <2>1, LogFact
    <3> HIDE DEF later
    <3>2. Cardinality(1 .. Len(log)) = Len(log)
      <4>1. \A n \in Nat : Cardinality(1 .. n) = IF 1 > n THEN 0 ELSE n - 1 + 1
        BY FS_Interval
      <4>2. \A n \in Nat : Cardinality(1 .. n) = n
        BY <4>1
      <4> QED BY <2>1, <4>2, Zenon
    <3>3. Cardinality(later) \in Nat /\ Cardinality(later) <= Len(log)
      BY <2>1, <3>1, <3>2, CountMore
    <3>4. Cardinality(later) < Half
      BY <2>1, <3>3 DEF LogFits
    <3> QED BY <3>4 DEF Behind, later
  <2> QED BY <2>2 DEF InWindow
<1>4. Apart
  BY PlainNamesAreApart
<1>5. FleetInvariant /\ InWindow /\ [Next]_vars => FleetInvariant'
  BY <1>4, FleetNext
<1>6. Spec => []InWindow
  BY <1>1, <1>2, <1>3, <1>5, FleetInit, PTL DEF Spec
<1>7. /\ Spec /\ []InWindow => []NothingLost
      /\ Spec /\ []InWindow => []CursorCovered
      /\ Spec /\ []InWindow => []ChainVerdicts
      /\ Spec /\ []InWindow => KeepsPromise
  BY <1>4, FleetLosesNothing, FleetCursorsAreCovered, FleetVerdictsAreRight, FleetPromiseIsKept
<1> QED BY <1>6, <1>7, PTL
=============================================================================
