--------------------------- MODULE PlayerSlotsProofs ---------------------------
(***************************************************************************)
(* Lemmas about the operators of PlayerSlots, for every number of slots:   *)
(* the reorder is a compacting permutation of the table, each change of the*)
(* table keeps SlotsInv, and each is a step of SlotPool or a stutter of it.*)
(***************************************************************************)
EXTENDS PlayerSlots, FiniteSetTheorems, FunctionTheorems, SequenceTheorems, WellFoundedInduction, TLAPS

\* First(S), which next(...) over the table and list.remove are modelled with, is
\* the least element of a non-empty set of naturals.
LEMMA FirstIsLeast ==
  ASSUME NEW S \in SUBSET Nat, S # {}
  PROVE  First(S) \in S /\ \A j \in S : First(S) <= j
<1> DEFINE Upto == {0 .. x : x \in S}
<1>1. Upto \subseteq FiniteSubsetsOf(Nat) /\ Upto # {}
  <2>1. ASSUME NEW x \in S
        PROVE  0 .. x \subseteq Nat /\ IsFiniteSet(0 .. x)
    <3>1. 0 \in Int /\ x \in Int
      OBVIOUS
    <3> QED BY <3>1, FS_Interval
  <2> QED BY <2>1, Zenon DEF FiniteSubsetsOf
<1>2. PICK U \in Upto : \A V \in Upto : ~(<<V, U>> \in StrictSubsetOrdering(Nat))
  <2> HIDE DEF Upto
  <2> QED BY <1>1, WFMin, FS_StrictSubsetOrderingWellFounded, Zenon
<1>3. PICK x \in S : U = 0 .. x
  BY <1>2
<1>4. \A y \in S : x <= y
  <2> SUFFICES ASSUME NEW y \in S, y < x PROVE FALSE
    OBVIOUS
  <2>1. 0 .. y \in SUBSET Nat /\ 0 .. x \in SUBSET Nat /\ 0 .. y \subseteq 0 .. x
    OBVIOUS
  <2>2. 0 .. y # 0 .. x
    <3>1. x \in 0 .. x /\ x \notin 0 .. y
      OBVIOUS
    <3> QED BY <3>1, Zenon
  <2>3. <<0 .. y, 0 .. x>> \in StrictSubsetOrdering(Nat)
    BY <2>1, <2>2 DEF StrictSubsetOrdering
  <2> QED BY <2>3, <1>2, <1>3, Zenon
<1> QED BY <1>4 DEF First

\* get_priority() is a number, whatever the controllers are.
LEMMA PriorityIsNat == ASSUME NEW ms PROVE Priority(ms) \in Nat
BY DEF Priority

\* At most Slots slots are occupied.
LEMMA OccupiedIsFinite ==
  ASSUME NEW t
  PROVE  /\ Occupied(t) \subseteq Slot /\ Occupied(t) \in SUBSET Nat
         /\ IsFiniteSet(Occupied(t))
         /\ Cardinality(Occupied(t)) \in 0 .. Slots
<1>1. Occupied(t) \subseteq 1 .. Slots
  BY DEF Occupied, Slot
<1>2. IsFiniteSet(1 .. Slots) /\ Cardinality(1 .. Slots) = Slots /\ Slots \in Nat
  <2>1. 1 \in Int /\ Slots \in Int /\ Slots \in Nat /\ ~(1 > Slots)
    BY SlotsAssumption
  <2>2. IsFiniteSet(1 .. Slots) /\ Cardinality(1 .. Slots) = Slots - 1 + 1
    BY <2>1, FS_Interval
  <2> QED BY <2>1, <2>2
<1>3. IsFiniteSet(Occupied(t)) /\ Cardinality(Occupied(t)) <= Slots
  BY <1>1, <1>2, FS_Subset
<1>4. Cardinality(Occupied(t)) \in Nat
  BY <1>3, FS_CardinalityType
<1> QED BY <1>1, <1>2, <1>3, <1>4 DEF Slot

\* The stable sort of reorder_controllers() gives every occupied slot a place of its
\* own among 1 .. n, n being the number of occupied slots, and leaves none out.
LEMMA RankIsABijection ==
  ASSUME NEW t, NEW m
  PROVE  /\ \A i \in Occupied(t) : Rank(t, m, i) \in 1 .. Cardinality(Occupied(t))
         /\ \A i, j \in Occupied(t) : Rank(t, m, i) = Rank(t, m, j) => i = j
         /\ \A k \in 1 .. Cardinality(Occupied(t)) : \E i \in Occupied(t) : Rank(t, m, i) = k
<1> DEFINE O == Occupied(t)
           n == Cardinality(O)
           K(i) == Priority(m[t[i]])
           Before(i) == {j \in O : K(j) < K(i) \/ (K(j) = K(i) /\ j <= i)}
<1>1. O \in SUBSET Nat /\ IsFiniteSet(O) /\ n \in Nat
  BY OccupiedIsFinite
<1>2. \A i : K(i) \in Nat
  BY PriorityIsNat
<1>3. \A i \in O : Rank(t, m, i) = Cardinality(Before(i))
  BY DEF Rank
<1> HIDE DEF O, K
<1>4. ASSUME NEW i \in O
      PROVE  IsFiniteSet(Before(i)) /\ i \in Before(i) /\ Cardinality(Before(i)) \in 1 .. n
  <2>1. Before(i) \in SUBSET O
    OBVIOUS
  <2>2. i \in Before(i)
    BY <1>1, <1>2
  <2>3. IsFiniteSet(Before(i)) /\ Cardinality(Before(i)) <= n
    BY <1>1, <2>1, FS_Subset
  <2>4. Cardinality(Before(i)) \in Nat /\ Cardinality(Before(i)) # 0
    <3> HIDE DEF Before
    <3> QED BY <2>2, <2>3, FS_CardinalityType, FS_EmptySet
  <2> QED BY <1>1, <2>2, <2>3, <2>4
<1>5. ASSUME NEW i \in O, NEW j \in O, Before(i) \subseteq Before(j), i # j
      PROVE  Cardinality(Before(i)) # Cardinality(Before(j))
  <2>1. j \notin Before(i)
    <3>1. i \in Before(j)
      BY <1>4, <1>5
    <3> QED BY <3>1, <1>1, <1>2, <1>5
  <2>2. Before(i) # Before(j)
    BY <1>4, <2>1
  <2> HIDE DEF Before
  <2> QED BY <2>2, <1>4, <1>5, FS_Subset
<1>6. ASSUME NEW i \in O, NEW j \in O
      PROVE  Before(i) \subseteq Before(j) \/ Before(j) \subseteq Before(i)
  <2>1. i \in Nat /\ j \in Nat /\ K(i) \in Nat /\ K(j) \in Nat /\ (\A x \in O : x \in Nat /\ K(x) \in Nat)
    BY <1>1, <1>2
  <2>2. CASE K(i) < K(j) \/ (K(i) = K(j) /\ i <= j)
    <3>1. \A x \in Before(i) : x \in Before(j)
      BY <2>1, <2>2
    <3> QED BY <3>1
  <2>3. CASE K(j) < K(i) \/ (K(i) = K(j) /\ j <= i)
    <3>1. \A x \in Before(j) : x \in Before(i)
      BY <2>1, <2>3
    <3> QED BY <3>1
  <2> QED BY <2>1, <2>2, <2>3
<1>7. \A i, j \in O : Cardinality(Before(i)) = Cardinality(Before(j)) => i = j
  <2> HIDE DEF Before
  <2> QED BY <1>5, <1>6
<1>8. ASSUME NEW k \in 1 .. n PROVE \E i \in O : Cardinality(Before(i)) = k
  <2> DEFINE f == [i \in O |-> Cardinality(Before(i))]
  <2>1. f \in Injection(O, 1 .. n)
    <3> HIDE DEF Before
    <3>1. f \in [O -> 1 .. n]
      BY <1>4
    <3>2. \A a, b \in O : f[a] = f[b] => a = b
      BY <1>7
    <3> QED BY <3>1, <3>2 DEF Injection, IsInjective
  <2>2. IsFiniteSet(1 .. n) /\ Cardinality(1 .. n) = n
    <3>1. 1 \in Int /\ n \in Int
      BY <1>1
    <3>2. IsFiniteSet(1 .. n) /\ Cardinality(1 .. n) = IF 1 > n THEN 0 ELSE n - 1 + 1
      BY <3>1, FS_Interval
    <3> QED BY <1>1, <3>2
  <2>3. f \in Surjection(O, 1 .. n)
    <3> HIDE DEF f, n
    <3>1. Cardinality(O) = Cardinality(1 .. n)
      BY <2>2 DEF n
    <3> QED BY <2>1, <2>2, <3>1, FS_Injection
  <2>4. \E i \in O : f[i] = k
    BY <2>3 DEF Surjection
  <2> QED BY <2>4
<1> QED BY <1>3, <1>4, <1>7, <1>8 DEF O

\* reorder_controllers() compacts the table to its front and neither loses, invents nor
\* duplicates a VirtualController.
LEMMA ReorderedIsCompact ==
  ASSUME NEW t \in [Slot -> VcId \cup {NoVc}], NEW m
  PROVE  /\ Reordered(t, m) \in [Slot -> VcId \cup {NoVc}]
         /\ Occupied(Reordered(t, m)) = 1 .. Cardinality(Occupied(t))
         /\ \A v \in VcId : (\E i \in Slot : t[i] = v) <=> (\E k \in Slot : Reordered(t, m)[k] = v)
         /\ \A v \in VcId : \A k, l \in Slot :
              (\A i, j \in Slot : t[i] = v /\ t[j] = v => i = j)
                /\ Reordered(t, m)[k] = v /\ Reordered(t, m)[l] = v => k = l
<1> DEFINE O == Occupied(t)
           n == Cardinality(O)
           R(i) == Rank(t, m, i)
           r == Reordered(t, m)
           At(k) == {i \in O : R(i) = k}
<1>1. O \subseteq Slot /\ O \in SUBSET Nat /\ n \in 0 .. Slots /\ Slots \in Nat
  BY OccupiedIsFinite, SlotsAssumption
<1>2. /\ \A i \in O : R(i) \in 1 .. n
      /\ \A i, j \in O : R(i) = R(j) => i = j
      /\ \A k \in 1 .. n : \E i \in O : R(i) = k
  BY RankIsABijection
<1>3. \A k \in Slot : r[k] = IF At(k) = {} THEN NoVc ELSE t[First(At(k))]
  BY DEF Reordered
<1>4. r = [k \in Slot |-> r[k]]
  BY DEF Reordered
<1>5. \A i \in O : t[i] \in VcId /\ t[i] # NoVc
  BY DEF Occupied
<1>6. \A i \in Slot : i \notin O => t[i] = NoVc
  BY DEF Occupied
<1>7. NoVc \notin VcId
  BY SlotsAssumption DEF NoVc, VcId
<1> HIDE DEF O, R, r
<1>8. ASSUME NEW i \in O PROVE r[R(i)] = t[i] /\ R(i) \in Slot
  <2>1. R(i) \in Slot
    BY <1>1, <1>2 DEF Slot
  <2>2. At(R(i)) = {i}
    BY <1>2
  <2>3. First(At(R(i))) = i
    <3>1. {i} \in SUBSET Nat /\ {i} # {}
      BY <1>1
    <3>2. First({i}) \in {i}
      BY <3>1, FirstIsLeast
    <3> QED BY <2>2, <3>2
  <2> QED BY <1>3, <2>1, <2>2, <2>3
<1>9. ASSUME NEW k \in Slot, k \notin 1 .. n PROVE r[k] = NoVc
  <2>1. At(k) = {}
    BY <1>2, <1>9
  <2> QED BY <1>3, <2>1
<1>10. \A k \in 1 .. n : k \in Slot /\ \E i \in O : R(i) = k /\ r[k] = t[i]
  BY <1>1, <1>2, <1>8
<1>11. \A k \in Slot : r[k] \in VcId \cup {NoVc}
  BY <1>5, <1>9, <1>10
<1>12. Reordered(t, m) \in [Slot -> VcId \cup {NoVc}]
  BY <1>4, <1>11 DEF r
<1>13. Occupied(r) = 1 .. n
  <2>1. \A k \in Slot : r[k] # NoVc <=> k \in 1 .. n
    BY <1>5, <1>9, <1>10
  <2>2. 1 .. n \subseteq Slot
    BY <1>10
  <2> QED BY <2>1, <2>2 DEF Occupied
<1>14. \A v \in VcId : (\E i \in Slot : t[i] = v) <=> (\E k \in Slot : r[k] = v)
  <2>1. ASSUME NEW v \in VcId, NEW i \in Slot, t[i] = v PROVE \E k \in Slot : r[k] = v
    <3>1. i \in O
      BY <1>6, <1>7, <2>1
    <3> QED BY <3>1, <1>8, <2>1
  <2>2. ASSUME NEW v \in VcId, NEW k \in Slot, r[k] = v PROVE \E i \in Slot : t[i] = v
    <3>1. k \in 1 .. n
      BY <1>7, <1>9, <2>2
    <3> QED BY <3>1, <1>1, <1>10, <2>2
  <2> QED BY <2>1, <2>2
<1>15. ASSUME NEW v \in VcId, NEW k \in Slot, NEW l \in Slot, r[k] = v, r[l] = v,
              \A i, j \in Slot : t[i] = v /\ t[j] = v => i = j
       PROVE  k = l
  <2>1. k \in 1 .. n /\ l \in 1 .. n
    BY <1>7, <1>9, <1>15
  <2>2. PICK i \in O : R(i) = k /\ r[k] = t[i]
    BY <2>1, <1>10
  <2>3. PICK j \in O : R(j) = l /\ r[l] = t[j]
    BY <2>1, <1>10
  <2> QED BY <1>1, <2>2, <2>3, <1>15
<1> QED BY <1>12, <1>13, <1>14, <1>15 DEF r, O

-----------------------------------------------------------------------------

\* list.remove takes exactly one controller out of the list.
LEMMA WithoutShortens ==
  ASSUME NEW ms \in Seq(Controller), NEW c, \E k \in DOMAIN ms : ms[k] = c
  PROVE  Without(ms, c) \in Seq(Controller) /\ Len(Without(ms, c)) = Len(ms) - 1
<1> DEFINE S == {k \in DOMAIN ms : ms[k] = c}
           n == First(S)
           N == Len(ms)
<1>1. DOMAIN ms = 1 .. N /\ N \in Nat /\ \A k \in 1 .. N : ms[k] \in Controller
  BY LenProperties, ElementOfSeq
<1>2. n \in 1 .. N
  <2>1. S \in SUBSET Nat /\ S # {} /\ S \subseteq 1 .. N
    BY <1>1
  <2>2. First(S) \in S
    <3> HIDE DEF S
    <3> QED BY <2>1, FirstIsLeast
  <2> QED BY <2>1, <2>2
<1> HIDE DEF n, N
<1>3. SubSeq(ms, 1, n - 1) \in Seq(Controller) /\ Len(SubSeq(ms, 1, n - 1)) = n - 1
  <2>1. 1 \in Int /\ n - 1 \in Int /\ \A i \in 1 .. n - 1 : ms[i] \in Controller
    BY <1>1, <1>2
  <2>2. /\ SubSeq(ms, 1, n - 1) \in Seq(Controller)
        /\ Len(SubSeq(ms, 1, n - 1)) = IF 1 <= n - 1 THEN n - 1 - 1 + 1 ELSE 0
    BY <2>1, SubSeqProperties
  <2> QED BY <1>1, <1>2, <2>2
<1>4. SubSeq(ms, n + 1, N) \in Seq(Controller) /\ Len(SubSeq(ms, n + 1, N)) = N - n
  <2>1. n + 1 \in Int /\ N \in Int /\ \A i \in n + 1 .. N : ms[i] \in Controller
    BY <1>1, <1>2
  <2>2. /\ SubSeq(ms, n + 1, N) \in Seq(Controller)
        /\ Len(SubSeq(ms, n + 1, N)) = IF n + 1 <= N THEN N - (n + 1) + 1 ELSE 0
    BY <2>1, SubSeqProperties
  <2> QED BY <1>1, <1>2, <2>2
<1>5. Without(ms, c) = SubSeq(ms, 1, n - 1) \o SubSeq(ms, n + 1, N)
  BY DEF Without, n, N
<1>6. Without(ms, c) \in Seq(Controller)
  BY <1>3, <1>4, <1>5, ConcatProperties
<1>7. Len(Without(ms, c)) = Len(SubSeq(ms, 1, n - 1)) + Len(SubSeq(ms, n + 1, N))
  BY <1>3, <1>4, <1>5, ConcatProperties
<1>8. n - 1 + (N - n) = N - 1
  BY <1>1, <1>2
<1> QED BY <1>3, <1>4, <1>6, <1>7, <1>8 DEF N

-----------------------------------------------------------------------------
\* The table holds each VirtualController once.
OncePerTable(t) == \A i, j \in Slot : t[i] = t[j] /\ t[i] # NoVc => i = j

\* The slots are sound: a running VirtualController is in the table, a device belongs
\* to a running one, and no slot holds one that is not created yet (so that a new one
\* cannot be in the table already).
SlotsInv ==
  /\ SlotsTypeOK
  /\ \A v \in VcId : running[v] => InTable(v)
  /\ \A v \in VcId : device[v] => running[v]
  /\ OncePerTable(table)
  /\ \A i \in Slot : table[i] <= made

\* After reorder_controllers() on a table that holds each VirtualController once, the
\* players are 1, 2, ... in the order of the slots.
LEMMA ReorderPutsInOrder ==
  ASSUME NEW t \in [Slot -> VcId \cup {NoVc}], NEW m, OncePerTable(t), Reorder(t, m)
  PROVE  /\ table' \in [Slot -> VcId \cup {NoVc}]
         /\ player' \in [VcId -> 0 .. Slots]
         /\ \A v \in VcId : InTable(v)' <=> \E i \in Slot : t[i] = v
         /\ OncePerTable(table)'
         /\ PlayersInOrder'
<1>1. table' = Reordered(t, m) /\ player' = Numbered(table')
  BY DEF Reorder
<1>2. NoVc \notin VcId /\ Slots \in Nat
  BY SlotsAssumption DEF NoVc, VcId
<1>3. table' \in [Slot -> VcId \cup {NoVc}]
  BY <1>1, ReorderedIsCompact
<1>4. \A v \in VcId : (\E i \in Slot : table'[i] = v) <=> (\E i \in Slot : t[i] = v)
  BY <1>1, ReorderedIsCompact
<1>5. \A v \in VcId : \A i, j \in Slot : t[i] = v /\ t[j] = v => i = j
  BY <1>2 DEF OncePerTable
<1>6. \A v \in VcId : \A k, l \in Slot : table'[k] = v /\ table'[l] = v => k = l
  BY <1>1, <1>5, ReorderedIsCompact
<1>7. OncePerTable(table)'
  BY <1>3, <1>6 DEF OncePerTable
<1>8. Occupied(table') = 1 .. Cardinality(Occupied(t)) /\ Cardinality(Occupied(t)) \in 0 .. Slots
  BY <1>1, ReorderedIsCompact, OccupiedIsFinite
<1>9. \A v \in VcId : player'[v] = IF \E i \in Slot : table'[i] = v
                                  THEN CHOOSE i \in Slot : table'[i] = v
                                  ELSE 0
  BY <1>1 DEF Numbered
<1>10. player' \in [VcId -> 0 .. Slots]
  <2>1. player' = [v \in VcId |-> player'[v]]
    BY <1>1 DEF Numbered
  <2>2. \A v \in VcId : player'[v] \in Slot \cup {0}
    BY <1>9
  <2>3. \A x \in Slot \cup {0} : x \in 0 .. Slots
    BY <1>2 DEF Slot
  <2> QED BY <2>1, <2>2, <2>3
<1>11. ASSUME NEW i \in Slot, table'[i] # NoVc PROVE player'[table'[i]] = i
  <2>1. table'[i] \in VcId
    BY <1>3, <1>11
  <2>2. player'[table'[i]] = CHOOSE j \in Slot : table'[j] = table'[i]
    BY <2>1, <1>9
  <2> QED BY <2>1, <2>2, <1>6
<1>12. PlayersInOrder'
  BY <1>8, <1>11 DEF PlayersInOrder, Occupied
<1> QED BY <1>3, <1>4, <1>7, <1>10, <1>12 DEF InTable

\* A reorder of the current table keeps the slots sound and the same VirtualControllers
\* in it.
LEMMA ReorderKeepsSlots ==
  ASSUME SlotsInv, Reorder(table, members), UNCHANGED <<made, members, running, device>>
  PROVE  SlotsInv' /\ PlayersInOrder' /\ \A v \in VcId : InTable(v) <=> InTable(v)'
<1>1. table \in [Slot -> VcId \cup {NoVc}] /\ OncePerTable(table) /\ made \in 0 .. MaxVc
  BY DEF SlotsInv, SlotsTypeOK
<1>2. /\ table' \in [Slot -> VcId \cup {NoVc}]
      /\ player' \in [VcId -> 0 .. Slots]
      /\ \A v \in VcId : InTable(v)' <=> \E i \in Slot : table[i] = v
      /\ OncePerTable(table)'
      /\ PlayersInOrder'
  BY <1>1, ReorderPutsInOrder
<1>3. \A v \in VcId : InTable(v) <=> InTable(v)'
  BY <1>2 DEF InTable
<1>4. ASSUME NEW i \in Slot PROVE table'[i] <= made
  <2>1. CASE table'[i] = NoVc
    BY <1>1, <2>1, SlotsAssumption DEF NoVc
  <2>2. CASE table'[i] \in VcId
    <3>1. PICK v \in VcId : table'[i] = v
      BY <2>2
    <3>2. PICK j \in Slot : table[j] = v
      BY <1>2, <3>1 DEF InTable
    <3> QED BY <3>1, <3>2 DEF SlotsInv
  <2> QED BY <1>2, <2>1, <2>2
<1>5. /\ made' = made /\ members' = members /\ running' = running /\ device' = device
  OBVIOUS
<1> QED BY <1>2, <1>3, <1>4, <1>5 DEF SlotsInv, SlotsTypeOK

\* Taking the first empty slot for a new VirtualController and reordering keeps the
\* slots sound and every VirtualController in the table.
LEMMA TakingSlotKeepsSlots ==
  ASSUME SlotsInv, NEW c \in Controller, NEW i, i = First({j \in Slot : table[j] = NoVc}),
         Occupied(table) # Slot, Create(c), Reorder([table EXCEPT ![i] = NewVc], members')
  PROVE  SlotsInv' /\ PlayersInOrder' /\ (\A v \in VcId : InTable(v)' <=> InTable(v) \/ v = NewVc)
         /\ NewVc \in VcId
<1> DEFINE t == [table EXCEPT ![i] = NewVc]
<1>1. /\ table \in [Slot -> VcId \cup {NoVc}] /\ made \in 0 .. MaxVc /\ MaxVc \in Nat
      /\ members \in [VcId -> Seq(Controller)]
      /\ running \in [VcId -> BOOLEAN] /\ device \in [VcId -> BOOLEAN]
      /\ OncePerTable(table)
  BY SlotsAssumption DEF SlotsInv, SlotsTypeOK
<1>2. /\ made < MaxVc /\ made' = NewVc
      /\ members' = [members EXCEPT ![NewVc] = <<c>>]
      /\ running' = [running EXCEPT ![NewVc] = TRUE]
      /\ device' = device
  BY DEF Create
<1>3. NewVc \in VcId /\ NewVc # NoVc /\ NoVc \notin VcId /\ made' \in 0 .. MaxVc /\ NewVc > made
  BY <1>1, <1>2 DEF NewVc, VcId, NoVc
<1>4. i \in Slot /\ table[i] = NoVc
  <2> DEFINE S == {j \in Slot : table[j] = NoVc}
  <2>1. S \in SUBSET Nat
    BY SlotsAssumption DEF Slot
  <2>2. S # {}
    BY DEF Occupied
  <2> HIDE DEF S
  <2>3. First(S) \in S
    BY <2>1, <2>2, FirstIsLeast
  <2> QED BY <2>3 DEF S
<1>5. \A j \in Slot : t[j] = IF j = i THEN NewVc ELSE table[j]
  BY <1>1
<1>6. t \in [Slot -> VcId \cup {NoVc}]
  BY <1>1, <1>3
<1>7. \A j \in Slot : table[j] # NewVc /\ table[j] \in Nat /\ table[j] <= made
  <2>1. \A j \in Slot : table[j] <= made
    BY DEF SlotsInv
  <2>2. \A j \in Slot : table[j] \in Nat
    BY <1>1 DEF VcId, NoVc
  <2> QED BY <1>1, <1>2, <2>1, <2>2 DEF NewVc
<1>8. OncePerTable(t)
  BY <1>1, <1>5, <1>7 DEF OncePerTable
<1> HIDE DEF t
<1>9. /\ table' \in [Slot -> VcId \cup {NoVc}]
      /\ player' \in [VcId -> 0 .. Slots]
      /\ \A v \in VcId : InTable(v)' <=> \E j \in Slot : t[j] = v
      /\ OncePerTable(table)'
      /\ PlayersInOrder'
  BY <1>6, <1>8, ReorderPutsInOrder DEF t
<1>10. \A v \in VcId : InTable(v) => InTable(v)'
  BY <1>3, <1>4, <1>5, <1>9 DEF InTable
<1>11. ASSUME NEW v \in VcId PROVE InTable(v)' <=> InTable(v) \/ v = NewVc
  <2>1. ASSUME v = NewVc PROVE InTable(v)'
    <3>1. t[i] = v
      BY <1>4, <1>5, <2>1
    <3> QED BY <1>4, <1>9, <3>1
  <2>2. ASSUME InTable(v)', v # NewVc PROVE InTable(v)
    <3>1. PICK j \in Slot : t[j] = v
      BY <1>9, <2>2
    <3>2. table[j] = v
      BY <1>5, <2>2, <3>1
    <3> QED BY <3>2 DEF InTable
  <2> QED BY <1>10, <2>1, <2>2
<1>12. ASSUME NEW v \in VcId, running'[v] PROVE InTable(v)'
  <2>1. CASE v = NewVc
    BY <1>11, <2>1
  <2>2. CASE v # NewVc
    <3>1. running[v]
      BY <1>1, <1>2, <1>12, <2>2
    <3>2. InTable(v)
      BY <3>1 DEF SlotsInv
    <3> QED BY <1>10, <3>2
  <2> QED BY <2>1, <2>2
<1>13. \A v \in VcId : device'[v] => running'[v]
  <2>1. \A v \in VcId : device[v] => running[v]
    BY DEF SlotsInv
  <2> QED BY <1>1, <1>2, <2>1
<1>14. ASSUME NEW k \in Slot PROVE table'[k] <= made'
  <2>1. CASE table'[k] = NoVc
    BY <1>3, <2>1 DEF NoVc
  <2>2. CASE table'[k] \in VcId
    <3>1. PICK v \in VcId : table'[k] = v
      BY <2>2
    <3>2. PICK j \in Slot : t[j] = v
      BY <1>9, <3>1 DEF InTable
    <3>3. CASE j = i
      <4>1. v = NewVc
        BY <1>5, <3>2, <3>3
      <4>2. made' = v /\ made' \in Nat
        BY <4>1, <1>1, <1>2, <1>3
      <4> QED BY <4>2, <3>1
    <3>4. CASE j # i
      <4>1. v <= made
        BY <1>5, <1>7, <3>2, <3>4
      <4> QED BY <4>1, <1>1, <1>2, <3>1 DEF NewVc, VcId
    <3> QED BY <3>3, <3>4
  <2> QED BY <1>9, <2>1, <2>2
<1>15. members' \in [VcId -> Seq(Controller)]
  <2>1. <<c>> \in Seq(Controller)
    OBVIOUS
  <2> QED BY <1>1, <1>2, <2>1
<1>16. running' \in [VcId -> BOOLEAN]
  BY <1>1, <1>2
<1>17. made' \in 0 .. MaxVc /\ device' \in [VcId -> BOOLEAN]
  BY <1>1, <1>2, <1>3
<1>18. SlotsTypeOK'
  BY <1>9, <1>15, <1>16, <1>17 DEF SlotsTypeOK
<1> QED BY <1>3, <1>9, <1>11, <1>12, <1>13, <1>14, <1>18 DEF SlotsInv

\* A new VirtualController in an empty slot: the slots stay sound, and it alone has come.
LEMMA TakingSeat ==
  ASSUME SlotsInv, NEW c \in Controller, NEW i \in Slot, table[i] = NoVc, Create(c),
         table' = [table EXCEPT ![i] = NewVc], player' = [player EXCEPT ![NewVc] = i]
  PROVE  /\ SlotsInv' /\ NewVc \in VcId
         /\ \A v \in VcId : InTable(v)' <=> InTable(v) \/ v = NewVc
<1>1. /\ table \in [Slot -> VcId \cup {NoVc}] /\ made \in 0 .. MaxVc /\ MaxVc \in Nat
      /\ members \in [VcId -> Seq(Controller)] /\ player \in [VcId -> 0 .. Slots]
      /\ running \in [VcId -> BOOLEAN] /\ device \in [VcId -> BOOLEAN]
      /\ OncePerTable(table)
  BY SlotsAssumption DEF SlotsInv, SlotsTypeOK
<1>2. /\ made < MaxVc /\ made' = NewVc /\ members' = [members EXCEPT ![NewVc] = <<c>>]
      /\ running' = [running EXCEPT ![NewVc] = TRUE] /\ device' = device
  BY DEF Create
<1>3. NewVc \in VcId /\ NewVc # NoVc /\ made' \in 0 .. MaxVc /\ NewVc = made + 1
  BY <1>1, <1>2 DEF NewVc, VcId, NoVc
<1>4. \A j \in Slot : table'[j] = IF j = i THEN NewVc ELSE table[j]
  BY <1>1
<1>5. \A j \in Slot : table[j] # NewVc /\ table[j] \in Nat /\ table[j] <= made
  <2>1. \A j \in Slot : table[j] <= made
    BY DEF SlotsInv
  <2>2. \A j \in Slot : table[j] \in Nat
    BY <1>1 DEF VcId, NoVc
  <2> QED BY <1>1, <1>3, <2>1, <2>2
<1>6. OncePerTable(table)'
  BY <1>1, <1>4, <1>5 DEF OncePerTable
<1>7. \A v \in VcId : InTable(v)' <=> InTable(v) \/ v = NewVc
  BY <1>4, <1>5, <1>3 DEF InTable, NoVc, VcId
<1>8. \A v \in VcId : running'[v] => InTable(v)'
  <2>1. \A v \in VcId : running[v] => InTable(v)
    BY DEF SlotsInv
  <2>2. \A v \in VcId : running'[v] => running[v] \/ v = NewVc
    BY <1>1, <1>2
  <2> QED BY <1>7, <2>1, <2>2
<1>9. \A v \in VcId : device'[v] => running'[v]
  <2>1. \A v \in VcId : device[v] => running[v]
    BY DEF SlotsInv
  <2> QED BY <1>1, <1>2, <2>1
<1>10. \A j \in Slot : table'[j] <= made'
  BY <1>1, <1>2, <1>3, <1>4, <1>5
<1>11. members' \in [VcId -> Seq(Controller)] /\ running' \in [VcId -> BOOLEAN]
  <2>1. <<c>> \in Seq(Controller)
    OBVIOUS
  <2> QED BY <1>1, <1>2, <2>1
<1>12. table' \in [Slot -> VcId \cup {NoVc}]
  BY <1>1, <1>3
<1>13. player' \in [VcId -> 0 .. Slots]
  <2>1. i \in 0 .. Slots
    BY SlotsAssumption DEF Slot
  <2> QED BY <1>1, <2>1
<1> QED BY <1>1, <1>2, <1>3, <1>6, <1>7, <1>8, <1>9, <1>10, <1>11, <1>12, <1>13 DEF SlotsInv, SlotsTypeOK

\* A step that touches no VirtualController keeps the slots sound.
LEMMA SlotsAlone ==
  ASSUME SlotsInv, UNCHANGED vcVars
  PROVE  SlotsInv'
BY DEF vcVars, SlotsInv, SlotsTypeOK, OncePerTable, InTable

\* setup_virtual_device() creates no device for a VirtualController that was stopped.
LEMMA AttemptKeepsSlots ==
  ASSUME SlotsInv, NEW w, device' \in Attempted(device, w),
         UNCHANGED <<table, made, members, running, player>>
  PROVE  SlotsInv'
<1>1. device \in [VcId -> BOOLEAN] /\ \A v \in VcId : device[v] => running[v]
  BY DEF SlotsInv, SlotsTypeOK
<1>2. device' = device \/ (running[w] /\ device' = [device EXCEPT ![w] = TRUE])
  <2>1. CASE running[w]
    BY <2>1, Zenon DEF Attempted
  <2>2. CASE ~running[w]
    BY <2>2, Zenon DEF Attempted
  <2> QED BY <2>1, <2>2
<1>3. device' \in [VcId -> BOOLEAN] /\ \A v \in VcId : device'[v] => running[v]
  BY <1>1, <1>2
<1> QED BY <1>3 DEF SlotsInv, SlotsTypeOK, OncePerTable, InTable

\* controllers holds Controller objects.
LEMMA MembersAreControllers ==
  ASSUME SlotsInv
  PROVE  \A v \in VcId : \A n \in DOMAIN members[v] : members[v][n] \in Controller
<1>1. members \in [VcId -> Seq(Controller)]
  BY DEF SlotsInv, SlotsTypeOK
<1> QED BY <1>1, LenProperties, ElementOfSeq

\* What Evict(c) does to the slots: it keeps them sound, and a slot it empties has
\* lost its last controller.
LEMMA EvictKeepsSlots ==
  ASSUME SlotsInv, NEW c \in Controller, Evict(c)
  PROVE  /\ SlotsInv'
         /\ \A v \in VcId : \/ members'[v] = members[v]
                           \/ Len(members'[v]) = Len(members[v]) - 1
         /\ \A v \in VcId : InTable(v) /\ ~InTable(v)' => members'[v] = <<>>
<1> DEFINE v == VcOf(c)
           left == Without(members[v], c)
<1>1. /\ table \in [Slot -> VcId \cup {NoVc}] /\ made \in 0 .. MaxVc /\ MaxVc \in Nat
      /\ members \in [VcId -> Seq(Controller)] /\ player \in [VcId -> 0 .. Slots]
      /\ running \in [VcId -> BOOLEAN] /\ device \in [VcId -> BOOLEAN]
      /\ OncePerTable(table)
  BY SlotsAssumption DEF SlotsInv, SlotsTypeOK
<1>2. CASE v = NoVc
  <2>1. UNCHANGED vcVars
    BY <1>2 DEF Evict
  <2> QED BY <2>1 DEF vcVars, SlotsInv, SlotsTypeOK, OncePerTable, InTable
<1>3. CASE v # NoVc
  <2>1. v \in VcId /\ Drives(v, c)
    BY <1>3 DEF VcOf
  <2> HIDE DEF v
  <2>2. left \in Seq(Controller) /\ Len(left) = Len(members[v]) - 1
    <3>1. members[v] \in Seq(Controller) /\ \E k \in DOMAIN members[v] : members[v][k] = c
      BY <1>1, <2>1 DEF Drives
    <3> QED BY <3>1, WithoutShortens
  <2>3. members' = [members EXCEPT ![v] = left] /\ made' = made /\ player' = player
    BY <1>3 DEF Evict, v
  <2> HIDE DEF left
  <2>4. members' \in [VcId -> Seq(Controller)]
    BY <1>1, <2>2, <2>3
  <2>5. \A w \in VcId : \/ members'[w] = members[w]
                         \/ Len(members'[w]) = Len(members[w]) - 1
    BY <1>1, <2>2, <2>3
  <2>6. CASE left # <<>>
    <3>1. running' = running /\ device' = device /\ table' = table
      BY <1>3, <2>6 DEF Evict, v, left
    <3> QED BY <2>3, <2>4, <2>5, <3>1 DEF SlotsInv, SlotsTypeOK, OncePerTable, InTable
  <2>7. CASE left = <<>>
    <3>1. /\ running' = [running EXCEPT ![v] = FALSE]
          /\ device' = [device EXCEPT ![v] = FALSE]
          /\ table' = [i \in Slot |-> IF table[i] = v THEN NoVc ELSE table[i]]
      BY <1>3, <2>7 DEF Evict, v, left
    <3>2. /\ running' \in [VcId -> BOOLEAN] /\ device' \in [VcId -> BOOLEAN]
          /\ table' \in [Slot -> VcId \cup {NoVc}]
      BY <1>1, <3>1
    <3>3. \A w \in VcId : w # v => (InTable(w) <=> InTable(w)')
      <4>1. \A i \in Slot : table'[i] = IF table[i] = v THEN NoVc ELSE table[i]
        BY <3>1
      <4>2. NoVc \notin VcId
        BY DEF NoVc, VcId
      <4> QED BY <4>1, <4>2 DEF InTable
    <3>4. \A w \in VcId : running[w] => InTable(w)
      BY DEF SlotsInv
    <3>5. \A w \in VcId : running'[w] => InTable(w)'
      BY <1>1, <2>1, <3>1, <3>3, <3>4
    <3>6. \A w \in VcId : device'[w] => running'[w]
      <4>1. \A w \in VcId : device[w] => running[w]
        BY DEF SlotsInv
      <4> QED BY <1>1, <3>1, <4>1
    <3>7. OncePerTable(table)'
      BY <1>1, <3>1 DEF OncePerTable
    <3>8. \A i \in Slot : table'[i] <= made'
      <4>1. \A i \in Slot : table[i] <= made
        BY DEF SlotsInv
      <4> QED BY <1>1, <2>3, <3>1, <4>1 DEF NoVc
    <3>9. \A w \in VcId : InTable(w) /\ ~InTable(w)' => members'[w] = <<>>
      BY <1>1, <2>3, <2>7, <3>3
    <3>10. SlotsTypeOK'
      BY <1>1, <2>3, <2>4, <3>2 DEF SlotsTypeOK
    <3> QED BY <2>5, <3>5, <3>6, <3>7, <3>8, <3>9, <3>10 DEF SlotsInv
  <2> QED BY <2>6, <2>7
<1> QED BY <1>2, <1>3

-----------------------------------------------------------------------------
\* list.remove drops one occurrence of c and moves what follows it up.
LEMMA WithoutElements ==
  ASSUME NEW ms \in Seq(Controller), NEW c, \E k \in DOMAIN ms : ms[k] = c
  PROVE  \E n \in 1 .. Len(ms) :
           /\ ms[n] = c
           /\ \A i \in 1 .. Len(ms) - 1 : Without(ms, c)[i] = IF i < n THEN ms[i] ELSE ms[i + 1]
<1> DEFINE S == {k \in DOMAIN ms : ms[k] = c}
           n == First(S)
           N == Len(ms)
<1>1. DOMAIN ms = 1 .. N /\ N \in Nat /\ \A k \in 1 .. N : ms[k] \in Controller
  BY LenProperties, ElementOfSeq
<1>2. n \in 1 .. N /\ ms[n] = c
  <2>1. S \in SUBSET Nat /\ S # {} /\ S \subseteq 1 .. N
    BY <1>1
  <2>2. First(S) \in S
    <3> HIDE DEF S
    <3> QED BY <2>1, FirstIsLeast
  <2> QED BY <2>1, <2>2
<1>3. Without(ms, c) = SubSeq(ms, 1, n - 1) \o SubSeq(ms, n + 1, N)
  BY DEF Without
<1> HIDE DEF n, N
<1> DEFINE s == SubSeq(ms, 1, n - 1)
           t == SubSeq(ms, n + 1, N)
<1>4. s \in Seq(Controller) /\ Len(s) = n - 1 /\ \A i \in 1 .. n - 1 : s[i] = ms[i]
  <2>1. 1 \in Int /\ n - 1 \in Int /\ \A i \in 1 .. n - 1 : ms[i] \in Controller
    BY <1>1, <1>2
  <2>2. /\ s \in Seq(Controller) /\ Len(s) = IF 1 <= n - 1 THEN n - 1 - 1 + 1 ELSE 0
        /\ \A i \in 1 .. n - 1 - 1 + 1 : s[i] = ms[1 + i - 1]
    BY <2>1, SubSeqProperties
  <2> QED BY <1>1, <1>2, <2>2
<1>5. t \in Seq(Controller) /\ Len(t) = N - n /\ \A i \in 1 .. N - n : t[i] = ms[n + i]
  <2>1. n + 1 \in Int /\ N \in Int /\ \A i \in n + 1 .. N : ms[i] \in Controller
    BY <1>1, <1>2
  <2>2. /\ t \in Seq(Controller) /\ Len(t) = IF n + 1 <= N THEN N - (n + 1) + 1 ELSE 0
        /\ \A i \in 1 .. N - (n + 1) + 1 : t[i] = ms[n + 1 + i - 1]
    BY <2>1, SubSeqProperties
  <2> QED BY <1>1, <1>2, <2>2
<1> HIDE DEF s, t
<1>6. \A i \in 1 .. (n - 1) + (N - n) : (s \o t)[i] = IF i <= n - 1 THEN s[i] ELSE t[i - (n - 1)]
  BY <1>4, <1>5, ConcatProperties
<1>7. ASSUME NEW i \in 1 .. N - 1 PROVE (s \o t)[i] = IF i < n THEN ms[i] ELSE ms[i + 1]
  <2>1. i \in 1 .. (n - 1) + (N - n) /\ (i < n \/ ~(i < n)) /\ (i < n => i \in 1 .. n - 1 /\ i <= n - 1)
    BY <1>1, <1>2
  <2>2. CASE i < n
    BY <1>4, <1>6, <2>1, <2>2
  <2>3. CASE ~(i < n)
    <3>1. ~(i <= n - 1) /\ i - (n - 1) \in 1 .. N - n /\ n + (i - (n - 1)) = i + 1
      BY <1>1, <1>2, <2>3
    <3>2. t[i - (n - 1)] = ms[i + 1]
      BY <1>5, <3>1
    <3> QED BY <1>6, <2>1, <2>3, <3>1, <3>2
  <2> QED BY <2>2, <2>3
<1> QED BY <1>2, <1>3, <1>7 DEF s, t, N

\* Taken from a list without repetitions, it takes exactly c out of it.
LEMMA WithoutRemoves ==
  ASSUME NEW ms \in Seq(Controller), NEW c, \E k \in DOMAIN ms : ms[k] = c,
         \A i, j \in DOMAIN ms : ms[i] = ms[j] => i = j
  PROVE  LET left == Without(ms, c) IN
         /\ {left[i] : i \in DOMAIN left} = {ms[i] : i \in DOMAIN ms} \ {c}
         /\ \A i, j \in DOMAIN left : left[i] = left[j] => i = j
         /\ left = <<>> <=> {ms[i] : i \in DOMAIN ms} = {c}
<1> DEFINE left == Without(ms, c)
           N == Len(ms)
<1>1. N \in Nat /\ DOMAIN ms = 1 .. N
  BY LenProperties
<1>2. left \in Seq(Controller) /\ Len(left) = N - 1 /\ DOMAIN left = 1 .. N - 1
  BY WithoutShortens, LenProperties
<1>3. PICK n \in 1 .. N :
        /\ ms[n] = c
        /\ \A i \in 1 .. N - 1 : left[i] = IF i < n THEN ms[i] ELSE ms[i + 1]
  BY WithoutElements
<1>4. N > 0 /\ \A i, j \in 1 .. N : ms[i] = ms[j] => i = j
  BY <1>1, <1>3
<1>5. left = <<>> <=> N = 1
  BY <1>1, <1>2, <1>4, EmptySeq
<1> HIDE DEF left, N
<1>6. ASSUME NEW i \in 1 .. N - 1
      PROVE  \E k \in 1 .. N : k # n /\ left[i] = ms[k] /\ (k = i \/ k = i + 1) /\ (k = i <=> i < n)
  <2>1. CASE i < n
    BY <1>1, <1>3, <2>1
  <2>2. CASE ~(i < n)
    BY <1>1, <1>3, <2>2
  <2> QED BY <2>1, <2>2
<1>7. ASSUME NEW k \in 1 .. N, k # n PROVE \E i \in 1 .. N - 1 : left[i] = ms[k]
  <2>1. CASE k < n
    <3>1. k \in 1 .. N - 1
      BY <1>1, <2>1
    <3> QED BY <1>3, <2>1, <3>1
  <2>2. CASE k > n
    <3>1. k - 1 \in 1 .. N - 1 /\ ~(k - 1 < n) /\ k - 1 + 1 = k
      BY <1>1, <2>2
    <3> QED BY <1>3, <3>1
  <2> QED BY <1>1, <1>7, <2>1, <2>2
<1>8. {left[i] : i \in 1 .. N - 1} = {ms[i] : i \in 1 .. N} \ {c}
  <2>1. ASSUME NEW i \in 1 .. N - 1 PROVE left[i] \in {ms[k] : k \in 1 .. N} \ {c}
    BY <1>3, <1>4, <1>6
  <2>2. ASSUME NEW k \in 1 .. N, ms[k] # c PROVE ms[k] \in {left[i] : i \in 1 .. N - 1}
    BY <1>3, <1>7, <2>2
  <2> QED BY <2>1, <2>2
<1>9. ASSUME NEW i \in 1 .. N - 1, NEW j \in 1 .. N - 1, left[i] = left[j] PROVE i = j
  <2>1. PICK k \in 1 .. N : k # n /\ left[i] = ms[k] /\ (k = i \/ k = i + 1) /\ (k = i <=> i < n)
    BY <1>6
  <2>2. PICK l \in 1 .. N : l # n /\ left[j] = ms[l] /\ (l = j \/ l = j + 1) /\ (l = j <=> j < n)
    BY <1>6
  <2>3. k = l
    BY <1>4, <1>9, <2>1, <2>2
  <2> QED BY <1>1, <2>1, <2>2, <2>3
<1>10. N = 1 <=> {ms[i] : i \in 1 .. N} = {c}
  <2>1. ASSUME N = 1 PROVE {ms[i] : i \in 1 .. N} = {c}
    <3>1. 1 .. N = {1} /\ n = 1
      BY <2>1
    <3> QED BY <1>3, <3>1
  <2>2. ASSUME N # 1 PROVE {ms[i] : i \in 1 .. N} # {c}
    <3>1. 1 \in 1 .. N /\ 2 \in 1 .. N
      BY <1>1, <1>4, <2>2
    <3>2. PICK k \in 1 .. N : k # n
      BY <3>1
    <3>3. ms[k] \in {ms[i] : i \in 1 .. N} /\ ms[k] # c
      BY <1>3, <1>4, <3>2
    <3> QED BY <3>3
  <2> QED BY <2>1, <2>2
<1> QED BY <1>1, <1>2, <1>5, <1>8, <1>9, <1>10 DEF left

-----------------------------------------------------------------------------
(* What each operator does to the abstract pool *)

\* A controller is in the list of one VirtualController, once.
DrivenOnce ==
  \A v, w \in VcId : \A n \in DOMAIN members[v], m \in DOMAIN members[w] :
    members[v][n] = members[w][m] => v = w /\ n = m

\* No controller comes to a VirtualController that did not drive it.
NobodyJoins ==
  \A v \in VcId : \A n \in DOMAIN members'[v] :
    \E m \in DOMAIN members[v] : members'[v][n] = members[v][m]

\* Nobody but c does.
OnlyJoins(c) ==
  \A v \in VcId : \A n \in DOMAIN members'[v] :
    members'[v][n] = c \/ \E m \in DOMAIN members[v] : members'[v][n] = members[v][m]

\* A step that touches neither the VirtualControllers nor which of them are in the
\* table does nothing to the pool.
LEMMA PoolStutters ==
  ASSUME UNCHANGED <<made, running, device>>,
         \A v \in VcId : InTable(v)' <=> InTable(v),
         \A v \in VcId : InTable(v) => members'[v] = members[v]
  PROVE  UNCHANGED Pool!poolVars
<1>1. \A v \in VcId : Team(v)' = Team(v)
  BY DEF Team
<1> QED BY <1>1 DEF Pool!poolVars

\* reorder_controllers() does not show in the pool.
LEMMA ReorderIsHidden ==
  ASSUME SlotsInv, Reorder(table, members), UNCHANGED <<made, members, running, device>>
  PROVE  UNCHANGED Pool!poolVars
BY ReorderKeepsSlots, PoolStutters

\* setup_virtual_device() switches one running VirtualController on, or does nothing.
LEMMA AttemptSwitchesOn ==
  ASSUME SlotsInv, NEW w, device' \in Attempted(device, w),
         UNCHANGED <<table, made, members, running>>
  PROVE  (\E v \in VcId : Pool!SwitchOn(v)) \/ UNCHANGED Pool!poolVars
<1>1. device \in [VcId -> BOOLEAN]
  BY DEF SlotsInv, SlotsTypeOK
<1>2. \A v : InTable(v)' = InTable(v) /\ Team(v)' = Team(v)
  BY DEF InTable, Team
<1>3. CASE device' = device
  BY <1>2, <1>3 DEF Pool!poolVars
<1>4. CASE running[w] /\ device' = [device EXCEPT ![w] = TRUE] /\ w \in VcId
  <2>1. Pool!SwitchOn(w)
    BY <1>1, <1>2, <1>4 DEF Pool!SwitchOn
  <2> QED BY <1>4, <2>1
<1>5. device' = device \/ (running[w] /\ device' = [device EXCEPT ![w] = TRUE])
  <2>1. CASE running[w]
    BY <2>1, Zenon DEF Attempted
  <2>2. CASE ~running[w]
    BY <2>2, Zenon DEF Attempted
  <2> QED BY <2>1, <2>2
<1>6. w \notin VcId => [device EXCEPT ![w] = TRUE] = device
  BY <1>1
<1> QED BY <1>3, <1>4, <1>5, <1>6

\* A Joy-Con that nobody drives joins a single one of the other side in the table.
LEMMA AppendingJoins ==
  ASSUME SlotsInv, DrivenOnce, NEW c \in Controller, \A v \in VcId : ~Drives(v, c),
         NEW v \in VcId, InTable(v), Len(members[v]) = 1,
         {Kind[c], Kind[members[v][1]]} = {"left", "right"},
         members' = [members EXCEPT ![v] = Append(@, c)],
         UNCHANGED <<table, made, running, device>>
  PROVE  Pool!Join(v, c) /\ DrivenOnce' /\ OnlyJoins(c)
<1>1. members \in [VcId -> Seq(Controller)]
  BY DEF SlotsInv, SlotsTypeOK
<1>0. members[v] \in Seq(Controller)
  BY <1>1
<1>2. /\ DOMAIN members[v] = {1}
      /\ DOMAIN members'[v] = {1, 2} /\ members'[v][1] = members[v][1] /\ members'[v][2] = c
      /\ \A w \in VcId : w # v => members'[w] = members[w]
  <2>1. members'[v] = Append(members[v], c)
    BY <1>1
  <2>2. /\ Append(members[v], c) \in Seq(Controller) /\ Len(Append(members[v], c)) = 2
        /\ Append(members[v], c)[1] = members[v][1] /\ Append(members[v], c)[2] = c
    <3>1. /\ Len(Append(members[v], c)) = Len(members[v]) + 1
          /\ \A n \in 1 .. Len(members[v]) : Append(members[v], c)[n] = members[v][n]
          /\ Append(members[v], c)[Len(members[v]) + 1] = c
      BY <1>0, AppendProperties
    <3>2. 1 \in 1 .. Len(members[v]) /\ Len(members[v]) + 1 = 2
      OBVIOUS
    <3>3. Append(members[v], c) \in Seq(Controller)
      BY <1>0, AppendProperties
    <3> QED BY <3>1, <3>2, <3>3
  <2> QED BY <1>0, <1>1, <2>1, <2>2, LenProperties
<1>3. \A w \in VcId : InTable(w)' = InTable(w)
  BY DEF InTable
<1>4. Team(v) = {members[v][1]} /\ Team(v)' = {members[v][1], c}
  BY <1>2, <1>3 DEF Team
<1>5. \A w \in VcId : Team(w)' = IF w = v THEN Team(v) \cup {c} ELSE Team(w)
  <2>1. \A w \in VcId : w # v => Team(w)' = Team(w)
    BY <1>2, <1>3 DEF Team
  <2> QED BY <1>4, <2>1
<1>6. Pool!Idle(c)
  <2>1. \A w \in VcId : c \notin Team(w)
    BY DEF Team, Drives
  <2> QED BY <2>1 DEF Pool!Idle
<1>7. Pool!Join(v, c)
  BY <1>3, <1>4, <1>5, <1>6 DEF Pool!Join, Pool!Opposite
<1>8. OnlyJoins(c)
  <2>1. 1 \in DOMAIN members[v]
    BY <1>2
  <2>2. \A w \in VcId : \A n \in DOMAIN members'[w] : w = v => members'[w][n] \in {members[v][1], c}
    BY <1>2
  <2> QED BY <1>2, <2>1, <2>2 DEF OnlyJoins
<1>9. DrivenOnce'
  BY <1>2 DEF DrivenOnce, Drives
<1> QED BY <1>7, <1>8, <1>9

\* Taking a slot for a controller that nobody drives opens a new VirtualController.
LEMMA TakingSlotOpens ==
  ASSUME SlotsInv, DrivenOnce, NEW c \in Controller, \A v \in VcId : ~Drives(v, c),
         NEW i, i = First({j \in Slot : table[j] = NoVc}),
         Occupied(table) # Slot, Create(c), Reorder([table EXCEPT ![i] = NewVc], members')
  PROVE  Pool!Open(NewVc, c) /\ DrivenOnce' /\ OnlyJoins(c)
<1>1. /\ members \in [VcId -> Seq(Controller)] /\ running \in [VcId -> BOOLEAN] /\ made \in Nat
      /\ table \in [Slot -> VcId \cup {NoVc}]
  BY SlotsAssumption DEF SlotsInv, SlotsTypeOK
<1>2. NewVc \in VcId /\ \A v \in VcId : InTable(v)' <=> InTable(v) \/ v = NewVc
  BY TakingSlotKeepsSlots
<1>3. /\ made' = NewVc /\ members' = [members EXCEPT ![NewVc] = <<c>>]
      /\ running' = [running EXCEPT ![NewVc] = TRUE] /\ device' = device
  BY DEF Create
<1>4. ~InTable(NewVc)
  BY <1>1 DEF InTable, NewVc, SlotsInv
<1>5. /\ DOMAIN members'[NewVc] = {1} /\ members'[NewVc][1] = c
      /\ \A w \in VcId : w # NewVc => members'[w] = members[w]
  BY <1>1, <1>2, <1>3
<1>6. \A w \in VcId : Team(w)' = IF w = NewVc THEN {c} ELSE Team(w)
  BY <1>2, <1>5 DEF Team
<1>7. Pool!Idle(c)
  <2>1. \A w \in VcId : c \notin Team(w)
    BY DEF Team, Drives
  <2> QED BY <2>1 DEF Pool!Idle
<1>8. NewVc \notin 1 .. made /\ 1 .. made' = (1 .. made) \cup {NewVc}
  BY <1>1, <1>3 DEF NewVc
<1>9. Pool!Open(NewVc, c)
  BY <1>1, <1>2, <1>3, <1>6, <1>7, <1>8 DEF Pool!Open
<1>10. OnlyJoins(c)
  BY <1>5 DEF OnlyJoins
<1>11. DrivenOnce'
  BY <1>5 DEF DrivenOnce, Drives
<1> QED BY <1>9, <1>10, <1>11

\* Evict(c) makes c leave its VirtualController, which gives its seat up with the last of
\* its controllers; nothing happens when c drives none.
LEMMA EvictLeaves ==
  ASSUME SlotsInv, DrivenOnce, NEW c \in Controller, Evict(c)
  PROVE  /\ (\E v \in VcId : Pool!Leave(v, c)) \/ UNCHANGED Pool!poolVars
         /\ VcOf(c) # NoVc => \E v \in VcId : Pool!Leave(v, c)
         /\ DrivenOnce' /\ NobodyJoins
<1>1. CASE VcOf(c) = NoVc
  <2>1. UNCHANGED vcVars
    BY <1>1 DEF Evict
  <2> QED BY <1>1, <2>1, PoolStutters DEF vcVars, DrivenOnce, NobodyJoins, InTable
<1>2. ASSUME NEW v, v = VcOf(c), v # NoVc
      PROVE  (\E w \in VcId : Pool!Leave(w, c)) /\ DrivenOnce' /\ NobodyJoins
  <2> DEFINE left == Without(members[v], c)
  <2>1. v \in VcId /\ InTable(v) /\ Drives(v, c)
    BY <1>2 DEF VcOf
  <2>2. /\ members \in [VcId -> Seq(Controller)] /\ members[v] \in Seq(Controller)
        /\ running \in [VcId -> BOOLEAN] /\ device \in [VcId -> BOOLEAN]
        /\ table \in [Slot -> VcId \cup {NoVc}] /\ NoVc \notin VcId
    BY <2>1 DEF SlotsInv, SlotsTypeOK, NoVc, VcId
  <2>3. /\ {left[i] : i \in DOMAIN left} = {members[v][i] : i \in DOMAIN members[v]} \ {c}
        /\ \A i, j \in DOMAIN left : left[i] = left[j] => i = j
        /\ left = <<>> <=> {members[v][i] : i \in DOMAIN members[v]} = {c}
    <3>1. \E k \in DOMAIN members[v] : members[v][k] = c
      BY <2>1 DEF Drives
    <3>2. \A i, j \in DOMAIN members[v] : members[v][i] = members[v][j] => i = j
      BY <2>1 DEF DrivenOnce
    <3> QED BY <2>2, <3>1, <3>2, WithoutRemoves
  <2>4. /\ members' = [members EXCEPT ![v] = left] /\ made' = made
        /\ IF left = <<>>
           THEN /\ running' = [running EXCEPT ![v] = FALSE]
                /\ device' = [device EXCEPT ![v] = FALSE]
                /\ table' = [i \in Slot |-> IF table[i] = v THEN NoVc ELSE table[i]]
           ELSE UNCHANGED <<running, device, table>>
    BY <1>2 DEF Evict
  <2> HIDE DEF left
  <2>5. members'[v] = left /\ \A w \in VcId : w # v => members'[w] = members[w]
    BY <2>1, <2>2, <2>4
  <2>6. NobodyJoins
    BY <2>3, <2>5 DEF NobodyJoins
  <2>7. DrivenOnce'
    <3>1. \A w \in VcId : \A n, m \in DOMAIN members'[w] : members'[w][n] = members'[w][m] => n = m
      BY <2>3, <2>5 DEF DrivenOnce
    <3> QED BY <2>6, <3>1 DEF DrivenOnce, NobodyJoins
  <2>8. Team(v) = {members[v][i] : i \in DOMAIN members[v]} /\ c \in Team(v)
    BY <2>1 DEF Team, Drives
  <2>9. \A w \in VcId : InTable(w)' <=> InTable(w) /\ ~(w = v /\ left = <<>>)
    <3>1. CASE left = <<>>
      <4>1. \A i \in Slot : table'[i] = IF table[i] = v THEN NoVc ELSE table[i]
        BY <2>4, <3>1
      <4> QED BY <2>2, <3>1, <4>1 DEF InTable
    <3>2. CASE left # <<>>
      BY <2>4, <3>2 DEF InTable
    <3> QED BY <3>1, <3>2
  <2>10. \A w \in VcId : Team(w)' = IF w = v THEN Team(v) \ {c} ELSE Team(w)
    <3>1. \A w \in VcId : w # v => Team(w)' = Team(w)
      BY <2>5, <2>9 DEF Team
    <3>2. Team(v)' = Team(v) \ {c}
      <4>1. CASE left = <<>>
        BY <2>1, <2>3, <2>8, <2>9, <4>1 DEF Team
      <4>2. CASE left # <<>>
        <5>1. InTable(v)'
          BY <2>1, <2>9, <4>2
        <5> QED BY <2>3, <2>5, <2>8, <5>1 DEF Team
      <4> QED BY <4>1, <4>2
    <3> QED BY <3>1, <3>2
  <2>11. \E w \in VcId : Pool!Leave(w, c)
    <3>1. CASE left = <<>>
      <4>1. /\ Team(v) = {c} /\ made' = made
            /\ \A w \in VcId : running'[w] <=> running[w] /\ w # v
            /\ \A w \in VcId : device'[w] <=> device[w] /\ w # v
        BY <2>2, <2>3, <2>4, <2>8, <3>1
      <4>2. \A w \in VcId : InTable(w)' <=> InTable(w) /\ w # v
        BY <2>9, <3>1
      <4> QED BY <2>1, <2>8, <2>10, <4>1, <4>2 DEF Pool!Leave, Pool!GivesUpSeat
    <3>2. CASE left # <<>>
      <4>1. Team(v) # {c} /\ running' = running /\ device' = device /\ made' = made
        BY <2>3, <2>4, <2>8, <3>2
      <4>2. \A w \in VcId : InTable(w)' <=> InTable(w)
        BY <2>9, <3>2
      <4> QED BY <2>1, <2>8, <2>10, <4>1, <4>2 DEF Pool!Leave
    <3> QED BY <3>1, <3>2
  <2> QED BY <2>6, <2>7, <2>11
<1> QED BY <1>1, <1>2

=============================================================================
