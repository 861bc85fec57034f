--------------------------- MODULE AuditLogProofs ---------------------------
(***************************************************************************)
(* Facts about the operators of AuditLog and EventTime, for every size of  *)
(* the item number and every log: the arithmetic of the wrapping item      *)
(* number, the newest and the oldest of a set of entries, the type of what *)
(* transform() returns, and the times that build_anchors() leads to.       *)
(***************************************************************************)
EXTENDS EventTime, FiniteSetTheorems, WellFoundedInduction, TLAPS

(* u16 addition and subtraction stay within u16.                           *)
LEMMA WrappingType ==
    ASSUME NEW a \in Items, NEW b \in Items
    PROVE  wrapping_add(a, b) \in Items /\ wrapping_sub(a, b) \in Items
BY HalfAssumption DEF Items, ItemMod, wrapping_add, wrapping_sub

(* Item 1 follows item 0 and one less than the modulus is followed by 0:   *)
(* the successor of a is one further from any b, short of a full turn.     *)
LEMMA WrappingSucc ==
    ASSUME NEW a \in Items, NEW b \in Items,
           wrapping_sub(a, b) < ItemMod - 1
    PROVE  wrapping_sub(wrapping_add(a, 1), b) = wrapping_sub(a, b) + 1
BY HalfAssumption DEF Items, ItemMod, wrapping_add, wrapping_sub

(* An item is no distance from itself.                                     *)
LEMMA WrappingSelf ==
    ASSUME NEW a \in Items
    PROVE  wrapping_sub(a, a) = 0
BY DEF Items, wrapping_sub

(* The order of the naturals, as a relation that WFMin can be applied to.  *)
NatOrder == {ss \in Nat \X Nat : ss[1] < ss[2]}

LEMMA NatOrderWellFounded == IsWellFoundedOn(NatOrder, Nat)
<1>1. OpToRel(<, Nat) = NatOrder
  BY DEF OpToRel, NatOrder
<1> QED BY <1>1, NatLessThanWellFounded

(* Every nonempty set of naturals has a least element.                     *)
LEMMA LeastNatural ==
    ASSUME NEW T, T \subseteq Nat, T # {}
    PROVE  \E m \in T : \A y \in T : m <= y
<1>1. PICK m \in T : \A y \in T : ~(<<y, m>> \in NatOrder)
  BY NatOrderWellFounded, WFMin
<1>2. \A y \in T : ~(y < m)
  BY <1>1 DEF NatOrder
<1> QED BY <1>2

(* A nonempty set of entries of a log has a newest one, and Max is it.     *)
LEMMA MaxFact ==
    ASSUME NEW n \in Nat, NEW S, S \subseteq 1 .. n, S # {}
    PROVE  Max(S) \in S /\ \A y \in S : y <= Max(S)
<1> DEFINE T == {m \in Nat : n - m \in S}
<1>1. T \subseteq Nat /\ T # {}
  <2>1. PICK x \in S : TRUE
    OBVIOUS
  <2>2. n - x \in Nat /\ n - (n - x) = x
    BY <2>1
  <2> QED BY <2>1, <2>2
<1>2. PICK m \in T : \A y \in T : m <= y
  BY <1>1, LeastNatural
<1>4. \A y \in S : n - y \in T
  OBVIOUS
<1>5. n - m \in S /\ \A y \in S : n - m >= y
  BY <1>2, <1>4
<1> QED BY <1>5 DEF Max

(* ... and an oldest one, which Min is.                                    *)
LEMMA MinFact ==
    ASSUME NEW n \in Nat, NEW S, S \subseteq 1 .. n, S # {}
    PROVE  Min(S) \in S /\ \A y \in S : Min(S) <= y
<1>1. S \subseteq Nat
  OBVIOUS
<1>2. PICK m \in S : \A y \in S : m <= y
  BY <1>1, LeastNatural
<1> QED BY <1>2 DEF Min

(* A set of entries of a log is finite, and so can be counted.             *)
LEMMA CountType ==
    ASSUME NEW n \in Nat, NEW S, S \subseteq 1 .. n
    PROVE  Cardinality(S) \in Nat
<1>1. IsFiniteSet(1 .. n)
  BY FS_Interval
<1> QED BY <1>1, FS_Subset, FS_CardinalityType

(* select_new() returns some of the entries it was given.                  *)
LEMMA SelectNewSubset ==
    ASSUME NEW log, NEW entries, NEW state
    PROVE  select_new(log, entries, state) \subseteq entries
BY DEF select_new

(* The entries that events are about.                                      *)
EventIds(events) == {v.id : v \in events}

(* transform() builds one event for each new entry.                        *)
LEMMA EventPerEntry ==
    ASSUME NEW lg, NEW read, NEW st
    PROVE  EventIds(transform(lg, read, st).events) = select_new(lg, read, st)
<1> DEFINE new == select_new(lg, read, st)
<1>1. transform(lg, read, st).events = {entry_event(lg, new, st, e) : e \in new}
  BY DEF transform
<1>2. \A e \in new : entry_event(lg, new, st, e).id = e
  BY DEF entry_event
<1> HIDE DEF new
<1>3. EventIds({entry_event(lg, new, st, e) : e \in new}) = new
  BY <1>2 DEF EventIds
<1> QED BY <1>1, <1>3 DEF new

(* transform() returns counters that are naturals, and well-formed events. *)
LEMMA TransformType ==
    ASSUME NEW lg, NEW n \in Nat, NEW read, read \subseteq 1 .. n,
           NEW st, st.sequence \in Nat, st.boot_session \in Nat
    PROVE  /\ transform(lg, read, st).new_entries = select_new(lg, read, st)
           /\ transform(lg, read, st).sequence \in Nat
           /\ transform(lg, read, st).boot_session \in Nat
           /\ transform(lg, read, st).events \subseteq
                 [id: 1 .. n, sequence: Nat, boot_session: Nat,
                  chain_status: {"ok", "mismatch", "unverified", None}]
<1> DEFINE new == select_new(lg, read, st)
           counted == counted_reboots(lg, new, st)
<1>1. new \subseteq 1 .. n
  BY SelectNewSubset
<1>2. counted \subseteq 1 .. n
  BY <1>1 DEF counted_reboots
<1>3. Cardinality(new) \in Nat /\ Cardinality(counted) \in Nat
  BY <1>1, <1>2, CountType
<1>4. ASSUME NEW e \in new
      PROVE  entry_event(lg, new, st, e) \in
                [id: 1 .. n, sequence: Nat, boot_session: Nat,
                 chain_status: {"ok", "mismatch", "unverified", None}]
  <2>1. {p \in new : p <= e} \subseteq 1 .. n /\ {p \in counted : p <= e} \subseteq 1 .. n
    BY <1>1, <1>2
  <2>2. Cardinality({p \in new : p <= e}) \in Nat /\ Cardinality({p \in counted : p <= e}) \in Nat
    BY <2>1, CountType
  <2>3. chain_status(lg, new, st, e) \in {"ok", "mismatch", "unverified"}
    BY DEF chain_status
  <2> HIDE DEF new
  <2> QED BY <1>1, <2>2, <2>3 DEF entry_event
<1>5. transform(lg, read, st) =
        [new_entries |-> new, events |-> {entry_event(lg, new, st, e) : e \in new},
         sequence |-> st.sequence + Cardinality(new),
         boot_session |-> st.boot_session + Cardinality(counted)]
  BY DEF transform
<1> HIDE DEF new, counted
<1>6. {entry_event(lg, new, st, e) : e \in new} \subseteq
        [id: 1 .. n, sequence: Nat, boot_session: Nat,
         chain_status: {"ok", "mismatch", "unverified", None}]
  BY <1>4
<1> QED BY <1>3, <1>5, <1>6 DEF new

(* Each new entry was hashed over the new one before it.                   *)
Linked(lg, new) ==
    \A x, y \in new : x < y /\ (\A z \in new : ~(x < z /\ z < y)) => lg[y].prev = x

(* Where the oldest new entry has the item number after the cursor, it was *)
(* hashed over the cursor.                                                 *)
Anchored(lg, new, st) ==
    /\ st.last_digest # None
    /\ st.last_item # None
    /\ lg[Min(new)].item = wrapping_add(st.last_item, 1)
    => lg[Min(new)].prev = st.last_digest

(* Then the verdict on a new entry is never "mismatch", and "ok" only when *)
(* the link leads to the cursor or to an older new entry.                  *)
LEMMA VerdictFact ==
    ASSUME NEW lg, NEW n \in Nat, NEW new, new \subseteq 1 .. n, NEW st, NEW e \in new,
           Linked(lg, new), Anchored(lg, new, st)
    PROVE  /\ chain_status(lg, new, st, e) # "mismatch"
           /\ chain_status(lg, new, st, e) = "ok" =>
                 \/ lg[e].prev \in new /\ lg[e].prev < e
                 \/ lg[e].prev = st.last_digest /\ st.last_digest # None /\ st.last_item # None
<1>1. CASE Before(new, e) = {}
  <2>1. Min(new) = e
    <3> DEFINE m == Min(new)
    <3>1. m \in new /\ \A y \in new : m <= y
      BY MinFact
    <3> HIDE DEF m
    <3>2. ~(m < e)
      BY <1>1, <3>1 DEF Before
    <3>3. m <= e /\ m \in Int /\ e \in Int
      BY <3>1
    <3>4. m = e
      BY <3>2, <3>3
    <3> QED BY <3>4 DEF m
  <2>2. CASE previous_digest(lg, new, st) = None
    BY <1>1, <2>2 DEF chain_status
  <2>3. CASE previous_digest(lg, new, st) # None
    <3>1. /\ previous_digest(lg, new, st) = st.last_digest
          /\ st.last_digest # None /\ st.last_item # None
          /\ lg[Min(new)].item = wrapping_add(st.last_item, 1)
      BY <2>3 DEF previous_digest
    <3>2. lg[e].prev = st.last_digest
      BY <2>1, <3>1 DEF Anchored
    <3> QED BY <1>1, <3>1, <3>2 DEF chain_status
  <2> QED BY <2>2, <2>3
<1>2. CASE Before(new, e) # {}
  <2> DEFINE p == Max(Before(new, e))
  <2>1. p \in Before(new, e) /\ \A y \in Before(new, e) : y <= p
    <3>1. Before(new, e) \subseteq 1 .. n
      BY DEF Before
    <3> QED BY <1>2, <3>1, MaxFact
  <2> HIDE DEF p
  <2>2. p \in new /\ p < e /\ p \in Int
    BY <2>1 DEF Before
  <2>3. \A z \in new : ~(p < z /\ z < e)
    BY <2>1, <2>2 DEF Before
  <2>4. lg[e].prev = p /\ p # None
    BY <2>2, <2>3, NoneAssumption DEF Linked
  <2> QED BY <1>2, <2>2, <2>4 DEF chain_status, p
<1> QED BY <1>1, <1>2

-----------------------------------------------------------------------------
(* The times of EventTime.                                                 *)

(* What it takes to be the anchors of the groups that open at S. *)
AnchorsOf(g, lg, new, st, at, S) ==
    g = [s \in S |->
           [tick  |-> max_tick(lg, new, st, s),
            epoch |-> IF {r \in S : r > s} = {} THEN at
                      ELSE estimate(g[Min({r \in S : r > s})], lg[Min({r \in S : r > s})].tick)]]

LEMMA AnchorsExist ==
    ASSUME NEW n \in Nat, NEW S, S \subseteq 1 .. n, NEW lg, NEW new, NEW st, NEW at
    PROVE  \E g : AnchorsOf(g, lg, new, st, at, S)
<1> DEFINE From(m) == {s \in S : s >= n + 1 - m}
           Bad == {m \in 0 .. n : ~ \E g : AnchorsOf(g, lg, new, st, at, From(m))}
<1>1. Bad = {}
  <2> SUFFICES ASSUME Bad # {} PROVE FALSE
    OBVIOUS
  <2>1. PICK m \in Bad : \A y \in Bad : m <= y
    <3>1. Bad \subseteq Nat
      OBVIOUS
    <3> HIDE DEF Bad
    <3> QED BY <3>1, LeastNatural
  <2>a. m \in 0 .. n /\ m - 1 \notin Bad
    <3>1. m \in 0 .. n
      BY <2>1
    <3>2. ~(m <= m - 1)
      BY <3>1
    <3> HIDE DEF Bad
    <3> QED BY <2>1, <3>1, <3>2
  <2>2. CASE m = 0
    <3>1. From(m) = {}
      <4>1. \A s \in S : ~(s >= n + 1 - 0)
        OBVIOUS
      <4> QED BY <2>2, <4>1
    <3>2. AnchorsOf([s \in {} |-> 0], lg, new, st, at, {})
      BY DEF AnchorsOf
    <3> QED BY <2>1, <3>1, <3>2
  <2>3. CASE m # 0
    <3> DEFINE k == n + 1 - m
               S1 == From(m - 1)
               S0 == From(m)
    <3>1. m - 1 \in 0 .. n /\ m - 1 \notin Bad /\ k \in Int
      BY <2>a, <2>3
    <3>a. /\ k \in 1 .. n + 1 /\ S \subseteq Int
          /\ S1 = {s \in S : s >= k + 1}
          /\ S0 = {s \in S : s >= k}
      <4>1. m \in Int /\ n + 1 - (m - 1) = (n + 1 - m) + 1 /\ n + 1 - m \in 1 .. n + 1
        BY <2>a, <2>3
      <4>2. S \subseteq Int
        OBVIOUS
      <4> QED BY <4>1, <4>2
    <3>2. PICK g : AnchorsOf(g, lg, new, st, at, S1)
      BY <3>1
    <3> HIDE DEF k, S0, S1
    <3>3. \A s \in S0 : s = k \/ s \in S1
      BY <3>a
    <3>4. S1 \subseteq S0 /\ k \notin S1 /\ \A s \in S1 : s > k
      <4>1. ASSUME NEW s \in S1 PROVE s \in S0 /\ s > k
        <5>1. s \in S /\ s \in Int /\ s >= k + 1
          BY <3>a
        <5> QED BY <3>a, <5>1
      <4>2. ~(k >= k + 1)
        BY <3>a
      <4> QED BY <3>a, <4>1, <4>2
    <3>5. \A s \in S0 : {r \in S0 : r > s} = {r \in S1 : r > s}
      <4> SUFFICES ASSUME NEW s \in S0 PROVE {r \in S0 : r > s} = {r \in S1 : r > s}
        OBVIOUS
      <4>1. s \in Int /\ s >= k
        BY <3>a
      <4>2. ASSUME NEW r \in S0, r > s PROVE r \in S1
        <5>1. r \in S /\ r \in Int /\ r >= k + 1
          BY <3>a, <4>1, <4>2
        <5> QED BY <3>a, <5>1
      <4> QED BY <3>4, <4>2
    <3> DEFINE F(h, s) ==
          [tick  |-> max_tick(lg, new, st, s),
           epoch |-> IF {r \in S1 : r > s} = {} THEN at
                     ELSE estimate(h[Min({r \in S1 : r > s})], lg[Min({r \in S1 : r > s})].tick)]
               h == [s \in S0 |-> F(g, s)]
    <3>6. g = [s \in S1 |-> F(g, s)]
      BY <3>2 DEF AnchorsOf
    <3>7. \A s \in S1 : h[s] = g[s]
      <4> HIDE DEF F
      <4> QED BY <3>4, <3>6
    <3>8. \A s \in S0 : F(g, s) = F(h, s)
      <4> SUFFICES ASSUME NEW s \in S0 PROVE F(g, s) = F(h, s)
        OBVIOUS
      <4>1. CASE {r \in S1 : r > s} = {}
        BY <4>1
      <4>2. CASE {r \in S1 : r > s} # {}
        <5>1. Min({r \in S1 : r > s}) \in {r \in S1 : r > s}
          <6>1. {r \in S1 : r > s} \subseteq 1 .. n
            BY <3>a
          <6> QED BY <4>2, <6>1, MinFact
        <5>2. h[Min({r \in S1 : r > s})] = g[Min({r \in S1 : r > s})]
          <6> HIDE DEF h
          <6> QED BY <3>7, <5>1
        <5> HIDE DEF h
        <5> QED BY <5>2
      <4> QED BY <4>1, <4>2
    <3>9. h = [s \in S0 |-> F(h, s)]
      <4> HIDE DEF F
      <4> QED BY <3>8
    <3>10. AnchorsOf(h, lg, new, st, at, S0)
      <4> HIDE DEF h
      <4>1. h = [s \in S0 |->
           [tick  |-> max_tick(lg, new, st, s),
            epoch |-> IF {r \in S0 : r > s} = {} THEN at
                      ELSE estimate(h[Min({r \in S0 : r > s})], lg[Min({r \in S0 : r > s})].tick)]]
        BY <3>5, <3>9
      <4> QED BY <4>1 DEF AnchorsOf
    <3> QED BY <2>1, <3>10 DEF S0
  <2> QED BY <2>2, <2>3
<1>2. From(n) = S /\ n \in 0 .. n
  <2>1. \A s \in S : s >= n + 1 - n
    OBVIOUS
  <2>2. From(n) = S
    BY <2>1
  <2> QED BY <2>2
<1> HIDE DEF From
<1> QED BY <1>1, <1>2

(* build_anchors() is what its definition says. *)
LEMMA AnchorsDefined ==
    ASSUME NEW n \in Nat, NEW lg, NEW new, new \subseteq 1 .. n, NEW st, NEW at
    PROVE  AnchorsOf(build_anchors(lg, new, st, at), lg, new, st, at, group_starts(lg, new, st))
<1> DEFINE S == group_starts(lg, new, st)
           A == build_anchors(lg, new, st, at)
<1>1. S \subseteq 1 .. n
  BY DEF group_starts
<1> HIDE DEF S
<1>2. A = CHOOSE g : AnchorsOf(g, lg, new, st, at, S)
  BY DEF build_anchors, AnchorsOf, S
<1> HIDE DEF A
<1> QED BY <1>1, <1>2, AnchorsExist DEF A, S

-----------------------------------------------------------------------------
(* The group an entry is in, by the entry that opened it.                  *)
GroupOf(lg, new, st, e) == Max({s \in group_starts(lg, new, st) : s <= e})

(* Every new entry is in a group, the last that was opened before it or    *)
(* with it.                                                                *)
LEMMA GroupFact ==
    ASSUME NEW n \in Nat, NEW lg, NEW new, new \subseteq 1 .. n, NEW st, NEW e \in new
    PROVE  /\ GroupOf(lg, new, st, e) \in group_starts(lg, new, st)
           /\ GroupOf(lg, new, st, e) \in new
           /\ GroupOf(lg, new, st, e) <= e
           /\ \A r \in group_starts(lg, new, st) : r <= e => r <= GroupOf(lg, new, st, e)
<1> DEFINE S == group_starts(lg, new, st)
           R == {s \in S : s <= e}
<1>1. R \subseteq 1 .. n /\ S \subseteq new
  BY DEF group_starts
<1>2. R # {}
  <2>1. PICK m : m = Min(new)
    OBVIOUS
  <2>2. m \in new /\ \A y \in new : m <= y
    BY <2>1, MinFact
  <2>3. Before(new, m) = {}
    <3>1. \A p \in new : ~(p < m)
      <4>1. m \in Nat /\ \A p \in new : p \in Nat
        BY <2>2
      <4> QED BY <2>2, <4>1
    <3> QED BY <3>1 DEF Before
  <2>4. m \in R
    BY <2>2, <2>3 DEF group_starts
  <2> QED BY <2>4
<1> HIDE DEF R, S
<1>3. Max(R) \in R /\ \A y \in R : y <= Max(R)
  BY <1>1, <1>2, MaxFact
<1>4. GroupOf(lg, new, st, e) = Max(R)
  BY DEF GroupOf, R, S
<1>5. Max(R) \in S /\ Max(R) <= e /\ \A r \in S : r <= e => r <= Max(R)
  BY <1>3 DEF R
<1> QED BY <1>1, <1>4, <1>5 DEF S

(* Every entry has a tick.                                                *)
Ticks(n, lg) == \A k \in 1 .. n : lg[k].tick \in Nat

(* Within a group ticks never fall.                                        *)
LEMMA TicksInGroup ==
    ASSUME NEW n \in Nat, NEW lg, Ticks(n, lg),
           NEW new, new \subseteq 1 .. n, NEW st, NEW e \in new, NEW f \in new, e <= f,
           GroupOf(lg, new, st, e) = GroupOf(lg, new, st, f)
    PROVE  lg[e].tick <= lg[f].tick
<1> DEFINE T == {y \in new : /\ e <= y
                             /\ GroupOf(lg, new, st, y) = GroupOf(lg, new, st, e)
                             /\ lg[y].tick < lg[e].tick}
<1>0. \A y \in new : y \in 1 .. n /\ y \in Nat /\ lg[y].tick \in Nat
  BY DEF Ticks
<1>1. T = {}
  <2> SUFFICES ASSUME T # {} PROVE FALSE
    OBVIOUS
  <2>1. PICK y \in T : \A z \in T : y <= z
    <3>1. T \subseteq Nat
      BY <1>0
    <3> HIDE DEF T
    <3> QED BY <3>1, LeastNatural
  <2>a. y \in new /\ e <= y /\ lg[y].tick < lg[e].tick /\ GroupOf(lg, new, st, y) = GroupOf(lg, new, st, e)
    BY <2>1
  <2>2. y \in new /\ e < y /\ lg[y].tick < lg[e].tick
    <3>1. lg[e].tick \in Nat /\ lg[y].tick \in Nat /\ e \in Nat /\ y \in Nat
      BY <1>0, <2>a
    <3>2. e # y
      BY <2>a, <3>1
    <3> QED BY <2>a, <3>1, <3>2
  <2>3. PICK p : p = Max(Before(new, y))
    OBVIOUS
  <2>4. p \in new /\ e <= p /\ p < y /\ Before(new, y) # {}
    <3>1. Before(new, y) \subseteq 1 .. n /\ e \in Before(new, y)
      BY <2>2 DEF Before
    <3>2. p \in Before(new, y) /\ \A z \in Before(new, y) : z <= p
      BY <2>3, <3>1, MaxFact
    <3> QED BY <3>1, <3>2 DEF Before
  <2>5. PICK g : g = GroupOf(lg, new, st, y)
    OBVIOUS
  <2>6. g \in group_starts(lg, new, st) /\ g \in new /\ g <= e
    BY <2>1, <2>5, GroupFact
  <2>7. y \notin group_starts(lg, new, st)
    <3>1. \A r \in group_starts(lg, new, st) : r <= y => r <= g
      BY <2>2, <2>5, GroupFact
    <3>2. y \in Nat /\ e \in Nat /\ g \in Nat /\ y <= y
      BY <1>0, <2>2, <2>6
    <3> QED BY <2>2, <2>6, <3>1, <3>2
  <2>8. ~(lg[y].tick < lg[p].tick)
    <3>1. ~rebooted(lg, new, st, y)
      BY <2>2, <2>7 DEF group_starts
    <3>2. lg[p].tick # None
      BY <1>0, <2>4, NoneAssumption
    <3> QED BY <2>3, <2>4, <3>1, <3>2 DEF rebooted
  <2>9. GroupOf(lg, new, st, p) = g
    <3>1. PICK q : q = GroupOf(lg, new, st, p)
      OBVIOUS
    <3>2. /\ q \in group_starts(lg, new, st) /\ q \in new /\ q <= p
          /\ \A r \in group_starts(lg, new, st) : r <= p => r <= q
      BY <2>4, <3>1, GroupFact
    <3>3. \A r \in group_starts(lg, new, st) : r <= y => r <= g
      BY <2>2, <2>5, GroupFact
    <3>4. q <= y /\ g <= p
      BY <1>0, <2>2, <2>4, <2>6, <3>2
    <3>5. q <= g /\ g <= q
      BY <2>6, <3>2, <3>3, <3>4
    <3>6. q \in Nat /\ g \in Nat
      BY <1>0, <2>6, <3>2
    <3> QED BY <3>1, <3>5, <3>6
  <2>10. ~(lg[p].tick < lg[e].tick)
    <3>1. p \notin T
      <4>1. y \in Nat /\ p \in Nat /\ ~(y <= p)
        BY <1>0, <2>2, <2>4
      <4> HIDE DEF T
      <4> QED BY <2>1, <4>1
    <3>2. GroupOf(lg, new, st, p) = GroupOf(lg, new, st, e)
      BY <2>1, <2>5, <2>9
    <3> QED BY <2>4, <3>1, <3>2
  <2>11. lg[e].tick \in Nat /\ lg[y].tick \in Nat /\ lg[p].tick \in Nat
    BY <1>0, <2>2, <2>4
  <2> QED BY <2>2, <2>8, <2>10, <2>11
<1>2. f \notin T
  BY <1>1
<1>3. ~(lg[f].tick < lg[e].tick)
  BY <1>2
<1>4. lg[e].tick \in Nat /\ lg[f].tick \in Nat
  BY <1>0
<1> QED BY <1>3, <1>4

(* The anchors and the times of a batch that was read at time at.          *)
Reckoned(n, lg, new, st, at, A, time) ==
    /\ n \in Nat
    /\ new \subseteq 1 .. n
    /\ Ticks(n, lg)
    /\ at \in Int
    /\ A = build_anchors(lg, new, st, at)
    /\ time = event_times(lg, new, st, at)

(* The last entry of its group.                                            *)
LastOf(lg, new, st, l) ==
    \A y \in new : GroupOf(lg, new, st, y) = GroupOf(lg, new, st, l) => y <= l

(* So the largest tick of a group is that of its last entry.               *)
LEMMA MaxTickFact ==
    ASSUME NEW n, NEW lg, NEW new, NEW st, NEW at, NEW A, NEW time,
           Reckoned(n, lg, new, st, at, A, time),
           NEW l \in new, LastOf(lg, new, st, l)
    PROVE  max_tick(lg, new, st, GroupOf(lg, new, st, l)) = lg[l].tick
<1> n \in Nat /\ new \subseteq 1 .. n /\ Ticks(n, lg)
  BY DEF Reckoned
<1> DEFINE s == GroupOf(lg, new, st, l)
           M == {lg[e].tick : e \in group(lg, new, st, s)}
<1>1. group(lg, new, st, s) = {e \in new : GroupOf(lg, new, st, e) = s}
  BY DEF group, GroupOf
<1>2. \A e \in new : GroupOf(lg, new, st, e) = s => lg[e].tick <= lg[l].tick
  BY TicksInGroup DEF LastOf
<1> HIDE DEF s
<1>3. lg[l].tick \in M /\ \A x \in M : x <= lg[l].tick /\ x \in Nat
  BY <1>1, <1>2 DEF s, Ticks
<1>4. max_tick(lg, new, st, s) = Max(M)
  BY DEF max_tick
<1> HIDE DEF M
<1>5. Max(M) \in M /\ \A x \in M : x <= Max(M)
  BY <1>3 DEF Max
<1>6. Max(M) = lg[l].tick
  BY <1>3, <1>5
<1> QED BY <1>4, <1>6 DEF s

(* Every group has a last entry.                                           *)
LEMMA GroupEnd ==
    ASSUME NEW n \in Nat, NEW lg, NEW new, new \subseteq 1 .. n, NEW st, NEW e \in new
    PROVE  \E l \in new : /\ GroupOf(lg, new, st, l) = GroupOf(lg, new, st, e)
                          /\ LastOf(lg, new, st, l)
<1> DEFINE G == {y \in new : GroupOf(lg, new, st, y) = GroupOf(lg, new, st, e)}
<1>1. G \subseteq 1 .. n /\ e \in G
  OBVIOUS
<1>2. Max(G) \in G /\ \A y \in G : y <= Max(G)
  <2> HIDE DEF G
  <2> QED BY <1>1, MaxFact
<1> QED BY <1>2 DEF LastOf

(* An entry that opens a group is in it.                                   *)
LEMMA StartsOwnGroup ==
    ASSUME NEW n \in Nat, NEW lg, NEW new, new \subseteq 1 .. n, NEW st,
           NEW s \in group_starts(lg, new, st)
    PROVE  s \in new /\ GroupOf(lg, new, st, s) = s
<1>1. s \in new /\ s \in Nat
  BY DEF group_starts
<1>2. PICK g : g = GroupOf(lg, new, st, s)
  OBVIOUS
<1>3. g \in new /\ g <= s /\ \A r \in group_starts(lg, new, st) : r <= s => r <= g
  BY <1>1, <1>2, GroupFact
<1>4. g \in Nat /\ s <= s
  BY <1>1, <1>3
<1>5. s <= g
  BY <1>3, <1>4
<1> QED BY <1>1, <1>2, <1>3, <1>4, <1>5

(* The anchor of an entry's group has the largest tick of the group, which *)
(* is that of the entry or a larger one.                                   *)
LEMMA AnchorTick ==
    ASSUME NEW n, NEW lg, NEW new, NEW st, NEW at, NEW A, NEW time,
           Reckoned(n, lg, new, st, at, A, time),
           NEW e \in new
    PROVE  /\ A[GroupOf(lg, new, st, e)].tick \in Nat
           /\ lg[e].tick <= A[GroupOf(lg, new, st, e)].tick
<1> /\ n \in Nat /\ new \subseteq 1 .. n /\ Ticks(n, lg) /\ at \in Int
    /\ A = build_anchors(lg, new, st, at) /\ time = event_times(lg, new, st, at)
  BY DEF Reckoned
<1>1. PICK g : g = GroupOf(lg, new, st, e)
  OBVIOUS
<1>2. g \in group_starts(lg, new, st)
  BY <1>1, GroupFact
<1>3. A[g].tick = max_tick(lg, new, st, g)
  <2>1. AnchorsOf(A, lg, new, st, at, group_starts(lg, new, st))
    BY AnchorsDefined
  <2> QED BY <1>2, <2>1 DEF AnchorsOf
<1>4. PICK l \in new : GroupOf(lg, new, st, l) = g /\ LastOf(lg, new, st, l)
  BY <1>1, GroupEnd
<1>5. max_tick(lg, new, st, g) = lg[l].tick
  <2>1. max_tick(lg, new, st, GroupOf(lg, new, st, l)) = lg[l].tick
    BY <1>4, MaxTickFact
  <2> QED BY <1>4, <2>1
<1>6. e <= l /\ lg[e].tick <= lg[l].tick
  <2>1. e <= l
    BY <1>1, <1>4 DEF LastOf
  <2>2. GroupOf(lg, new, st, e) = GroupOf(lg, new, st, l)
    BY <1>1, <1>4
  <2> QED BY <2>1, <2>2, TicksInGroup
<1>7. lg[l].tick \in Nat
  BY <1>4 DEF Ticks
<1> QED BY <1>1, <1>3, <1>5, <1>6, <1>7

(* The first group after the one that s opens.                             *)
NextGroup(lg, new, st, s) == Min({r \in group_starts(lg, new, st) : r > s})

(* The epoch of an anchor is the moment of the read, or the time reckoned  *)
(* for the entry that opens the next group.                                *)
LEMMA AnchorEpoch ==
    ASSUME NEW n, NEW lg, NEW new, NEW st, NEW at, NEW A, NEW time,
           Reckoned(n, lg, new, st, at, A, time),
           NEW s \in group_starts(lg, new, st)
    PROVE  \/ /\ \A r \in group_starts(lg, new, st) : ~(r > s)
              /\ A[s].epoch = at
           \/ /\ NextGroup(lg, new, st, s) \in group_starts(lg, new, st)
              /\ NextGroup(lg, new, st, s) > s
              /\ \A r \in group_starts(lg, new, st) : r > s => NextGroup(lg, new, st, s) <= r
              /\ A[s].epoch = estimate(A[NextGroup(lg, new, st, s)], lg[NextGroup(lg, new, st, s)].tick)
<1> /\ n \in Nat /\ new \subseteq 1 .. n /\ Ticks(n, lg) /\ at \in Int
    /\ A = build_anchors(lg, new, st, at) /\ time = event_times(lg, new, st, at)
  BY DEF Reckoned
<1> DEFINE S == group_starts(lg, new, st)
           R == {r \in S : r > s}
<1>1. AnchorsOf(A, lg, new, st, at, S)
  BY AnchorsDefined
<1>2. A[s].epoch = IF R = {} THEN at ELSE estimate(A[Min(R)], lg[Min(R)].tick)
  <2> DEFINE F(q) == [tick  |-> max_tick(lg, new, st, q),
                      epoch |-> IF {r \in S : r > q} = {} THEN at
                                ELSE estimate(A[Min({r \in S : r > q})],
                                              lg[Min({r \in S : r > q})].tick)]
  <2>1. A = [q \in S |-> F(q)]
    BY <1>1 DEF AnchorsOf
  <2>2. A[s] = F(s)
    <3> HIDE DEF F
    <3> QED BY <2>1
  <2> QED BY <2>2
<1>3. CASE R = {}
  BY <1>2, <1>3
<1>4. CASE R # {}
  <2>1. R \subseteq 1 .. n
    BY DEF group_starts
  <2>2. NextGroup(lg, new, st, s) = Min(R)
    BY DEF NextGroup
  <2> HIDE DEF R
  <2>3. Min(R) \in R /\ \A y \in R : Min(R) <= y
    BY <1>4, <2>1, MinFact
  <2>4. A[s].epoch = estimate(A[Min(R)], lg[Min(R)].tick)
    BY <1>2, <1>4 DEF estimate
  <2> QED BY <2>2, <2>3, <2>4 DEF R
<1> QED BY <1>3, <1>4

(* Every epoch is a time.                                                  *)
LEMMA EpochType ==
    ASSUME NEW n, NEW lg, NEW new, NEW st, NEW at, NEW A, NEW time,
           Reckoned(n, lg, new, st, at, A, time),
           NEW s \in group_starts(lg, new, st)
    PROVE  A[s].epoch \in Int
<1> /\ n \in Nat /\ new \subseteq 1 .. n /\ Ticks(n, lg) /\ at \in Int
    /\ A = build_anchors(lg, new, st, at) /\ time = event_times(lg, new, st, at)
  BY DEF Reckoned
<1> DEFINE Bad == {r \in group_starts(lg, new, st) : A[r].epoch \notin Int}
<1>1. Bad = {}
  <2> SUFFICES ASSUME Bad # {} PROVE FALSE
    OBVIOUS
  <2>1. Bad \subseteq 1 .. n
    BY DEF group_starts
  <2>2. Max(Bad) \in Bad /\ \A y \in Bad : y <= Max(Bad)
    <3> HIDE DEF Bad
    <3> QED BY <2>1, MaxFact
  <2>3. PICK b : b = Max(Bad)
    OBVIOUS
  <2>4. b \in group_starts(lg, new, st) /\ A[b].epoch \notin Int
    BY <2>2, <2>3
  <2>5. PICK x : x = NextGroup(lg, new, st, b)
    OBVIOUS
  <2>6. /\ x \in group_starts(lg, new, st)
        /\ x > b
        /\ A[b].epoch = estimate(A[x], lg[x].tick)
    <3>1. A[b].epoch # at
      BY <2>4
    <3> QED BY <2>4, <2>5, <3>1, AnchorEpoch
  <2>7. x \in new /\ GroupOf(lg, new, st, x) = x
    BY <2>6, StartsOwnGroup
  <2>8. A[x].tick \in Nat /\ lg[x].tick \in Nat
    BY <2>7, AnchorTick DEF Ticks
  <2>9. A[x].epoch \in Int
    <3>1. b \in 1 .. n /\ x \in 1 .. n
      BY <2>1, <2>2, <2>3, <2>7
    <3>2. x \notin Bad
      <4>1. ~(x <= b)
        BY <2>6, <3>1
      <4> HIDE DEF Bad
      <4> QED BY <2>2, <2>3, <4>1
    <3> QED BY <2>6, <3>2
  <2> QED BY <2>4, <2>6, <2>8, <2>9 DEF estimate
<1> QED BY <1>1

(* The time of an entry, reckoned back from the anchor of its group.       *)
LEMMA TimeFact ==
    ASSUME NEW n, NEW lg, NEW new, NEW st, NEW at, NEW A, NEW time,
           Reckoned(n, lg, new, st, at, A, time),
           NEW e \in new
    PROVE  /\ time[e] = estimate(A[GroupOf(lg, new, st, e)], lg[e].tick)
           /\ time[e] \in Int
           /\ time[e] <= A[GroupOf(lg, new, st, e)].epoch
<1> /\ n \in Nat /\ new \subseteq 1 .. n /\ Ticks(n, lg) /\ at \in Int
    /\ A = build_anchors(lg, new, st, at) /\ time = event_times(lg, new, st, at)
  BY DEF Reckoned
<1>1. PICK g : g = GroupOf(lg, new, st, e)
  OBVIOUS
<1>2. g \in group_starts(lg, new, st)
  BY <1>1, GroupFact
<1>3. DOMAIN A = group_starts(lg, new, st)
  <2>1. AnchorsOf(A, lg, new, st, at, group_starts(lg, new, st))
    BY AnchorsDefined
  <2> QED BY <2>1 DEF AnchorsOf
<1>4. time[e] = estimate(A[g], lg[e].tick)
  <2>1. time[e] = estimate(A[Max({s \in DOMAIN A : s <= e})], lg[e].tick)
    BY DEF event_times
  <2>2. g = Max({s \in DOMAIN A : s <= e})
    BY <1>1, <1>3 DEF GroupOf
  <2> QED BY <2>1, <2>2 DEF estimate
<1>5. A[g].tick \in Nat /\ lg[e].tick <= A[g].tick /\ lg[e].tick \in Nat
  BY <1>1, AnchorTick DEF Ticks
<1>6. A[g].epoch \in Int
  BY <1>2, EpochType
<1>7. time[e] \in Int /\ time[e] <= A[g].epoch
  BY <1>4, <1>5, <1>6 DEF estimate
<1> QED BY <1>1, <1>4, <1>7

(* Inside a group, times are as far apart as ticks.                        *)
LEMMA TimesInGroup ==
    ASSUME NEW n, NEW lg, NEW new, NEW st, NEW at, NEW A, NEW time,
           Reckoned(n, lg, new, st, at, A, time),
           NEW e \in new, NEW f \in new, GroupOf(lg, new, st, e) = GroupOf(lg, new, st, f)
    PROVE  time[f] - time[e] = lg[f].tick - lg[e].tick
<1> /\ n \in Nat /\ new \subseteq 1 .. n /\ Ticks(n, lg) /\ at \in Int
    /\ A = build_anchors(lg, new, st, at) /\ time = event_times(lg, new, st, at)
  BY DEF Reckoned
<1>2. PICK g : g = GroupOf(lg, new, st, e)
  OBVIOUS
<1>3. /\ time[e] = estimate(A[g], lg[e].tick)
      /\ time[f] = estimate(A[g], lg[f].tick)
  <2>1. time[e] = estimate(A[GroupOf(lg, new, st, e)], lg[e].tick)
    BY TimeFact
  <2>2. time[f] = estimate(A[GroupOf(lg, new, st, f)], lg[f].tick)
    BY TimeFact
  <2>3. g = GroupOf(lg, new, st, f)
    BY <1>2
  <2> QED BY <1>2, <2>1, <2>2, <2>3
<1>4. A[g].tick \in Nat /\ lg[e].tick \in Nat /\ lg[f].tick \in Nat
  BY <1>2, AnchorTick DEF Ticks
<1>5. A[g].epoch \in Int
  <2>1. g \in group_starts(lg, new, st)
    BY <1>2, GroupFact
  <2> QED BY <2>1, EpochType
<1> QED BY <1>3, <1>4, <1>5 DEF estimate

(* The newest entry is stamped with the moment of the read.                *)
LEMMA NewestTime ==
    ASSUME NEW n, NEW lg, NEW new, NEW st, NEW at, NEW A, NEW time,
           Reckoned(n, lg, new, st, at, A, time),
           new # {}
    PROVE  time[Max(new)] = at
<1> /\ n \in Nat /\ new \subseteq 1 .. n /\ Ticks(n, lg) /\ at \in Int
    /\ A = build_anchors(lg, new, st, at) /\ time = event_times(lg, new, st, at)
  BY DEF Reckoned
<1>2. PICK m : m = Max(new)
  OBVIOUS
<1>3. m \in new /\ \A y \in new : y <= m
  BY <1>2, MaxFact
<1>4. PICK g : g = GroupOf(lg, new, st, m)
  OBVIOUS
<1>5. g \in group_starts(lg, new, st) /\ g \in Nat
      /\ \A r \in group_starts(lg, new, st) : r <= m => r <= g
  <2>1. /\ g \in group_starts(lg, new, st) /\ g \in new
        /\ \A r \in group_starts(lg, new, st) : r <= m => r <= g
    BY <1>3, <1>4, GroupFact
  <2> QED BY <2>1
<1>6. A[g].epoch = at
  <2>1. \A r \in group_starts(lg, new, st) : r <= g /\ r \in Nat
    <3>1. \A r \in group_starts(lg, new, st) : r \in new
      BY DEF group_starts
    <3> QED BY <1>3, <1>5, <3>1
  <2>2. \A r \in group_starts(lg, new, st) : ~(r > g)
    BY <1>5, <2>1
  <2>3. PICK x : x = NextGroup(lg, new, st, g)
    OBVIOUS
  <2>4. ~(x \in group_starts(lg, new, st) /\ x > g)
    BY <2>2
  <2> QED BY <1>5, <2>3, <2>4, AnchorEpoch
<1>7. A[g].tick = lg[m].tick
  <2>1. max_tick(lg, new, st, g) = lg[m].tick
    <3>1. LastOf(lg, new, st, m)
      BY <1>3 DEF LastOf
    <3>2. max_tick(lg, new, st, GroupOf(lg, new, st, m)) = lg[m].tick
      BY <1>3, <3>1, MaxTickFact
    <3> QED BY <1>4, <3>2
  <2>2. AnchorsOf(A, lg, new, st, at, group_starts(lg, new, st))
    BY AnchorsDefined
  <2>3. A[g].tick = max_tick(lg, new, st, g)
    BY <1>5, <2>2 DEF AnchorsOf
  <2> QED BY <2>1, <2>3
<1>8. time[m] = estimate(A[g], lg[m].tick) /\ lg[m].tick \in Nat
  <2>1. m \in new /\ lg[m].tick \in Nat
    BY <1>3 DEF Ticks
  <2>2. time[m] = estimate(A[GroupOf(lg, new, st, m)], lg[m].tick)
    BY <2>1, TimeFact
  <2> QED BY <1>4, <2>1, <2>2
<1> QED BY <1>2, <1>6, <1>7, <1>8 DEF estimate

(* Times never run backwards.                                              *)
LEMMA TimesRise ==
    ASSUME NEW n, NEW lg, NEW new, NEW st, NEW at, NEW A, NEW time,
           Reckoned(n, lg, new, st, at, A, time),
           NEW e \in new, NEW f \in new, e <= f
    PROVE  time[e] <= time[f]
<1> /\ n \in Nat /\ new \subseteq 1 .. n /\ Ticks(n, lg) /\ at \in Int
    /\ A = build_anchors(lg, new, st, at) /\ time = event_times(lg, new, st, at)
  BY DEF Reckoned
<1> DEFINE Bad == {y \in new : y <= f /\ ~(time[y] <= time[f])}
<1>t. \A y \in new : time[y] \in Int /\ lg[y].tick \in Nat /\ y \in Nat
  <2> SUFFICES ASSUME NEW y \in new PROVE time[y] \in Int /\ lg[y].tick \in Nat /\ y \in Nat
    OBVIOUS
  <2>1. time[y] \in Int
    BY TimeFact
  <2> QED BY <2>1 DEF Ticks
<1>2. Bad = {}
  <2> SUFFICES ASSUME Bad # {} PROVE FALSE
    OBVIOUS
  <2>1. PICK b : b = Max(Bad)
    OBVIOUS
  <2>2. b \in Bad /\ \A y \in Bad : y <= b
    <3>1. Bad \subseteq 1 .. n
      OBVIOUS
    <3> HIDE DEF Bad
    <3> QED BY <2>1, <3>1, MaxFact
  <2>3. b \in new /\ b <= f /\ ~(time[b] <= time[f])
    BY <2>2
  <2>4. PICK g : g = GroupOf(lg, new, st, b)
    OBVIOUS
  <2>5. PICK h : h = GroupOf(lg, new, st, f)
    OBVIOUS
  <2>6. /\ g \in group_starts(lg, new, st) /\ g \in new /\ g <= b
        /\ \A r \in group_starts(lg, new, st) : r <= b => r <= g
    BY <2>3, <2>4, GroupFact
  <2>7. h \in group_starts(lg, new, st) /\ h \in new /\ h <= f
        /\ \A r \in group_starts(lg, new, st) : r <= f => r <= h
    BY <2>5, GroupFact
  <2>8. CASE g = h
    <3>1. lg[b].tick <= lg[f].tick
      BY <2>3, <2>4, <2>5, <2>8, TicksInGroup
    <3>2. time[f] - time[b] = lg[f].tick - lg[b].tick
      <4>1. GroupOf(lg, new, st, b) = GroupOf(lg, new, st, f)
        BY <2>4, <2>5, <2>8
      <4> QED BY <2>3, <4>1, TimesInGroup
    <3> QED BY <1>t, <2>3, <3>1, <3>2
  <2>9. CASE g # h
    <3>1. g \in Nat /\ h \in Nat /\ b \in Nat /\ f \in Nat
      BY <1>t, <2>3, <2>6, <2>7
    <3>2. h > g
      <4>1. g <= f
        BY <2>3, <2>6, <3>1
      <4>2. g <= h
        BY <2>6, <2>7, <4>1
      <4> QED BY <2>9, <3>1, <4>2
    <3>3. PICK x : x = NextGroup(lg, new, st, g)
      OBVIOUS
    <3>4. /\ x \in group_starts(lg, new, st) /\ x > g /\ x <= h
          /\ A[g].epoch = estimate(A[x], lg[x].tick)
      <4>1. g \in group_starts(lg, new, st) /\ ~\A r \in group_starts(lg, new, st) : ~(r > g)
        BY <2>6, <2>7, <3>2
      <4>2. /\ x \in group_starts(lg, new, st) /\ x > g
            /\ \A r \in group_starts(lg, new, st) : r > g => x <= r
            /\ A[g].epoch = estimate(A[x], lg[x].tick)
        BY <3>3, <4>1, AnchorEpoch
      <4> QED BY <2>7, <3>2, <4>2
    <3>5. x \in new /\ GroupOf(lg, new, st, x) = x
      BY <3>4, StartsOwnGroup
    <3>6. time[x] = A[g].epoch
      BY <3>4, <3>5, TimeFact
    <3>7. time[b] <= time[x]
      <4>1. time[b] <= A[g].epoch
        BY <2>3, <2>4, TimeFact
      <4> QED BY <3>6, <4>1
    <3>8. x > b /\ x <= f
      <4>1. x \in Nat
        BY <1>t, <3>5
      <4>2. ~(x <= g)
        BY <3>1, <3>4, <4>1
      <4>3. ~(x <= b)
        BY <2>6, <3>4, <4>2
      <4> QED BY <2>7, <3>1, <3>4, <4>1, <4>3
    <3>9. time[x] <= time[f]
      <4>1. x \in Nat
        BY <1>t, <3>5
      <4>2. ~(x <= b)
        BY <3>1, <3>8, <4>1
      <4>3. x \notin Bad
        <5> HIDE DEF Bad
        <5> QED BY <2>2, <4>2
      <4> QED BY <3>5, <3>8, <4>3
    <3>10. time[b] \in Int /\ time[x] \in Int /\ time[f] \in Int
      BY <1>t, <2>3, <3>5
    <3> QED BY <2>3, <3>7, <3>9, <3>10
  <2> QED BY <2>8, <2>9
<1>3. e \notin Bad
  BY <1>2
<1> QED BY <1>3

(* Between two entries of a group no other group opens, and the other way  *)
(* round.                                                                  *)
LEMMA SameGroup ==
    ASSUME NEW n, NEW lg, NEW new, NEW st, NEW at, NEW A, NEW time,
           Reckoned(n, lg, new, st, at, A, time),
           NEW e \in new, NEW f \in new, e <= f,
           \A r \in group_starts(lg, new, st) : ~(e < r /\ r <= f)
    PROVE  GroupOf(lg, new, st, e) = GroupOf(lg, new, st, f)
<1> n \in Nat /\ new \subseteq 1 .. n
  BY DEF Reckoned
<1>1. PICK g : g = GroupOf(lg, new, st, e)
  OBVIOUS
<1>2. PICK h : h = GroupOf(lg, new, st, f)
  OBVIOUS
<1>3. /\ g \in group_starts(lg, new, st) /\ g \in new /\ g <= e
      /\ \A r \in group_starts(lg, new, st) : r <= e => r <= g
  BY <1>1, GroupFact
<1>4. /\ h \in group_starts(lg, new, st) /\ h \in new /\ h <= f
      /\ \A r \in group_starts(lg, new, st) : r <= f => r <= h
  BY <1>2, GroupFact
<1>5. g \in Nat /\ h \in Nat /\ e \in Nat /\ f \in Nat
  BY <1>3, <1>4
<1>6. h <= e
  <2>1. ~(e < h)
    BY <1>4
  <2> QED BY <1>5, <2>1
<1>7. h <= g
  BY <1>3, <1>4, <1>6
<1>8. g <= h
  <2>1. g <= f
    BY <1>3, <1>5
  <2> QED BY <1>3, <1>4, <2>1
<1> QED BY <1>1, <1>2, <1>5, <1>7, <1>8
=============================================================================
