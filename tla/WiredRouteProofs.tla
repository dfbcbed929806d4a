--------------------------- MODULE WiredRouteProofs ---------------------------
(***************************************************************************)
(* One pad drives one slot, and once nothing goes on the slots and "known" *)
(* agree, for every set of pads and keys and every number of slots.        *)
(*                                                                         *)
(* WiredInv is the inductive invariant; each conjunct has a lemma that goes*)
(* through the steps:                                                      *)
(*   CoreTyped, ScanTyped  CoreStep, ScanStepTyped  the variables' types   *)
(*   QueueOk               QueueStep    GLOBAL_LOCK's queue                *)
(*   SeatsOk               SeatsStep    who drives what, claims            *)
(*   LivesOk               LivesStep    a live pad keeps its slot          *)
(*   KeysOk                KeysStep     what the attempts and removals of  *)
(*                                      one key may do at the same time    *)
(***************************************************************************)
EXTENDS WiredRoute, PlayerSlotsProofs

-----------------------------------------------------------------------------
(* The inductive invariant *)

\* The attempts that have a claimed_vc, and those that hold their key.
Claiming == {"added", "device", "resumes", "give_wait"}
Busy == Claiming \cup {"opening", "claim_wait", "full", "closing"}

Removals == [st : {"none", "wait", "leds", "closing"}, who : SUBSET Pads, rescan : BOOLEAN]

CoreTyped ==
  /\ adding \subseteq Key /\ overdue \subseteq Key
  /\ known \in [Key -> SUBSET Pads] /\ \A k \in Key : Cardinality(known[k]) <= 1
  /\ attempt \in [Controller -> Attempts]
  /\ claimed \in [Controller -> VcId \cup {NoVc}]
  /\ live \subseteq Pads
  /\ removal \in [Key -> Removals]

ScanTyped ==
  /\ plugged \subseteq Key /\ late \subseteq VcId
  /\ hidden \subseteq Key /\ chosen \subseteq Key
  /\ requests \subseteq Asked \X (Key \cup {NoKey})
  /\ taken \subseteq Asked /\ path \in Key \cup {NoKey}
  /\ retries \in [Key -> 0 .. MaxRetries]
  /\ watcher \in {"idle", "taken", "found", "missing"}

\* GLOBAL_LOCK's queue: each process stands in it once and only while it wants the lock;
\* whoever is in a section that awaits is at its head.
Process == ({"add_pad", "give_back"} \X Controller) \cup ({"remove_pad"} \X Key)
Once(q) == \A n, m \in DOMAIN q : q[n] = q[m] => n = m
Stands(q, p) == \E n \in DOMAIN q : q[n] = p
InQueue(p) == Stands(lockq, p)
QueueOk ==
  /\ lockq \in Seq(Process) /\ Once(lockq)
  /\ \A c \in Controller :
       /\ InQueue(AddPad(c)) => attempt[c] \in {"claim_wait", "added", "full"}
       /\ InQueue(GiveBack(c)) => attempt[c] = "give_wait"
       /\ attempt[c] \in {"added", "full"} => Holds(AddPad(c))
  /\ \A k \in Key :
       /\ InQueue(RemovePad(k)) <=> removal[k].st \in {"wait", "leds"}
       /\ removal[k].st = "leds" => Holds(RemovePad(k))

\* A VirtualController that drives a pad drives nobody else and is in the table; the pad has
\* claimed it, or its attempt is over.  Who has claimed it is the only one it may drive.
SeatsOk ==
  /\ \A c \in Pads, v \in VcId : Drives(v, c) =>
       /\ InTable(v) /\ members[v] = <<c>>
       /\ \A w \in VcId : Drives(w, c) => v = w
       /\ attempt[c] = "over" \/ (attempt[c] \in Claiming /\ claimed[c] = v)
  /\ \A c \in Pads :
       /\ claimed[c] # NoVc <=> attempt[c] \in Claiming
       /\ claimed[c] <= made
       /\ \A d \in Pads, v \in VcId : claimed[c] = v /\ Drives(v, d) => c = d

Driven(c) == \E v \in VcId : Drives(v, c)

\* A pad that lives drives the slot it claimed, until its attempt is over, and when it is
\* known.  What is known has an attempt that is over; what is being removed had one, and if it
\* lives while the removal waits, it is known no more.
LivesOk ==
  /\ \A c \in live :
       /\ attempt[c] \notin {"unused", "full", "closing"}
       /\ attempt[c] \in {"added", "device", "resumes"} => Driven(c)
       /\ c \in known[KeyOf[c]] => Driven(c)
  /\ \A k \in Key :
       /\ \A c \in known[k] : KeyOf[c] = k /\ attempt[c] = "over" /\ known[k] = {c}
       /\ \A c \in removal[k].who :
            /\ KeyOf[c] = k /\ attempt[c] # "unused" /\ removal[k].who = {c}
            /\ removal[k].st = "wait" /\ c \in live => attempt[c] = "over" /\ c \notin known[k]

\* Whoever removes k is before d in the queue, whenever d stands in it.
Ahead(q, p, r) == \A n \in DOMAIN q : q[n] = r => \E m \in DOMAIN q : m < n /\ q[m] = p
Behind(d, k) == Ahead(lockq, RemovePad(k), AddPad(d))

\* Of the pads of a key that has not been given away, one at a time has an attempt under way, and
\* then none is known; a pad that drives a slot is on its way, or known, or about to be removed;
\* and so is a pad that lives.  While a removal waits for the lock the others of the
\* key have not got beyond the queue, behind it.
KeyOk(k) ==
  /\ known[k] # {} => k \notin adding
  /\ \A c \in Pads : KeyOf[c] = k =>
       /\ attempt[c] \in Busy => k \in adding
       /\ \A d \in Pads : KeyOf[d] = k /\ attempt[c] \in Busy /\ attempt[d] \in Busy => c = d
       /\ Driven(c) => \/ attempt[c] \in Claiming \/ c \in known[k]
                       \/ removal[k].st = "wait" /\ c \in removal[k].who
       /\ c \in live => \/ attempt[c] \in Busy \/ c \in known[k]
                        \/ removal[k].st \in {"wait", "leds"} /\ c \in removal[k].who
       /\ removal[k].st = "wait" /\ c \notin removal[k].who =>
            c \notin known[k] /\ attempt[c] \notin Claiming \cup {"full"} /\ Behind(c, k)

KeysOk == \A k \in Key \ overdue : KeyOk(k)

WiredInv == SlotsInv /\ CoreTyped /\ ScanTyped /\ QueueOk /\ SeatsOk /\ LivesOk /\ KeysOk

-----------------------------------------------------------------------------
(* The queue *)

LEMMA Processes ==
  /\ \A c \in Controller : AddPad(c) \in Process /\ GiveBack(c) \in Process
  /\ \A k \in Key : RemovePad(k) \in Process
  /\ \A c, d : AddPad(c) = AddPad(d) => c = d
  /\ \A c, d : GiveBack(c) = GiveBack(d) => c = d
  /\ \A k, l : RemovePad(k) = RemovePad(l) => k = l
  /\ \A c, d : AddPad(c) # GiveBack(d)
  /\ \A c, k : AddPad(c) # RemovePad(k) /\ GiveBack(c) # RemovePad(k)
BY DEF Process, AddPad, GiveBack, RemovePad

\* What joining asyncio.Lock's queue does to it.
LEMMA Joining ==
  ASSUME NEW q \in Seq(Process), NEW p \in Process, Once(q), ~Stands(q, p), NEW r, r = Append(q, p)
  PROVE  /\ r \in Seq(Process) /\ Once(r) /\ r # <<>>
         /\ \A x : Stands(r, x) <=> Stands(q, x) \/ x = p
         /\ q # <<>> => Head(r) = Head(q)
         /\ q = <<>> => Head(r) = p
         /\ \A x, y : Ahead(q, x, y) /\ Stands(q, x) => Ahead(r, x, y)
<1> DEFINE N == Len(q)
<1>1. N \in Nat /\ DOMAIN q = 1 .. N
  BY LenProperties
<1>2. r \in Seq(Process) /\ Len(r) = N + 1 /\ r[N + 1] = p /\ \A n \in 1 .. N : r[n] = q[n]
  BY <1>1, AppendProperties
<1>3. DOMAIN r = 1 .. N + 1
  BY <1>2, LenProperties
<1> HIDE DEF N
<1>4. \A n \in DOMAIN r : n = N + 1 \/ n \in DOMAIN q
  BY <1>1, <1>3
<1>5. \A n \in DOMAIN q : n \in DOMAIN r /\ r[n] = q[n] /\ n < N + 1
  BY <1>1, <1>2, <1>3
<1>6. N + 1 \in DOMAIN r
  BY <1>1, <1>3
<1>7. Once(r)
  BY <1>2, <1>4, <1>5 DEF Once, Stands
<1>8. \A x : Stands(r, x) <=> Stands(q, x) \/ x = p
  BY <1>2, <1>4, <1>5, <1>6 DEF Stands
<1>9. r # <<>> /\ (q # <<>> => Head(r) = Head(q)) /\ (q = <<>> => Head(r) = p)
  <2>1. r # <<>> /\ Head(r) = r[1]
    BY <1>2, <1>1, HeadTailProperties, LenProperties
  <2>2. ASSUME q # <<>> PROVE Head(r) = Head(q)
    <3>1. 1 \in 1 .. N /\ Head(q) = q[1]
      BY <1>1, <2>2, HeadTailProperties, EmptySeq DEF N
    <3> QED BY <1>2, <2>1, <3>1
  <2>3. ASSUME q = <<>> PROVE Head(r) = p
    BY <1>2, <2>1, <2>3, EmptySeq DEF N
  <2> QED BY <2>1, <2>2, <2>3
<1>10. ASSUME NEW x, NEW y, Ahead(q, x, y), Stands(q, x) PROVE Ahead(r, x, y)
  <2> SUFFICES ASSUME NEW n \in DOMAIN r, r[n] = y PROVE \E m \in DOMAIN r : m < n /\ r[m] = x
    BY DEF Ahead
  <2>1. CASE n \in DOMAIN q
    BY <1>5, <1>10, <2>1 DEF Ahead
  <2>2. CASE n = N + 1
    BY <1>5, <1>10, <2>2 DEF Stands
  <2> QED BY <1>4, <2>1, <2>2
<1> QED BY <1>2, <1>7, <1>8, <1>9, <1>10

\* What leaving it does.
LEMMA Leaving ==
  ASSUME NEW q \in Seq(Process), Once(q), q # <<>>, NEW r, r = Tail(q)
  PROVE  /\ r \in Seq(Process) /\ Once(r)
         /\ \A x : Stands(r, x) <=> Stands(q, x) /\ x # Head(q)
         /\ \A x, y : Ahead(q, x, y) /\ x # Head(q) => Ahead(r, x, y)
<1> DEFINE N == Len(q)
<1>1. N \in Nat /\ DOMAIN q = 1 .. N /\ N # 0
  BY LenProperties, EmptySeq
<1>2. r \in Seq(Process) /\ Len(r) = N - 1 /\ Head(q) = q[1] /\ \A n \in 1 .. N - 1 : r[n] = q[n + 1]
  BY <1>1, HeadTailProperties
<1>3. DOMAIN r = 1 .. N - 1
  BY <1>2, LenProperties
<1> HIDE DEF N
<1>4. \A n \in DOMAIN r : n \in Nat /\ n + 1 \in DOMAIN q /\ r[n] = q[n + 1] /\ n + 1 # 1
  BY <1>1, <1>2, <1>3
<1>5. \A n \in DOMAIN q : n \in Nat /\ (n = 1 \/ (n - 1 \in DOMAIN r /\ r[n - 1] = q[n]))
  <2> TAKE n \in DOMAIN q
  <2>1. n \in Nat /\ (n = 1 \/ n - 1 \in 1 .. N - 1)
    BY <1>1
  <2>2. ASSUME n - 1 \in 1 .. N - 1 PROVE r[n - 1] = q[n]
    <3>1. r[n - 1] = q[n - 1 + 1] /\ n - 1 + 1 = n
      BY <1>2, <2>1, <2>2
    <3> QED BY <3>1
  <2> QED BY <1>3, <2>1, <2>2
<1>6. 1 \in DOMAIN q
  BY <1>1
<1>7. Once(r)
  <2> SUFFICES ASSUME NEW n \in DOMAIN r, NEW m \in DOMAIN r, r[n] = r[m] PROVE n = m
    BY DEF Once
  <2>1. n + 1 = m + 1
    BY <1>4 DEF Once
  <2> QED BY <1>4, <2>1
<1>8. ASSUME NEW x PROVE Stands(r, x) <=> Stands(q, x) /\ x # Head(q)
  <2>1. ASSUME NEW n \in DOMAIN r, r[n] = x PROVE Stands(q, x) /\ x # Head(q)
    <3>1. n + 1 \in DOMAIN q /\ q[n + 1] = x /\ n + 1 # 1
      BY <1>4, <2>1
    <3> QED BY <1>2, <1>6, <3>1 DEF Once, Stands
  <2>2. ASSUME NEW n \in DOMAIN q, q[n] = x, x # Head(q) PROVE Stands(r, x)
    BY <1>2, <1>5, <2>2 DEF Stands
  <2> QED BY <2>1, <2>2 DEF Stands
<1>9. ASSUME NEW x, NEW y, Ahead(q, x, y), x # Head(q) PROVE Ahead(r, x, y)
  <2> SUFFICES ASSUME NEW n \in DOMAIN r, r[n] = y PROVE \E m \in DOMAIN r : m < n /\ r[m] = x
    BY DEF Ahead
  <2>1. PICK m \in DOMAIN q : m < n + 1 /\ q[m] = x
    BY <1>4, <1>9 DEF Ahead
  <2>2. m # 1 /\ m \in Nat /\ n \in Nat
    BY <1>2, <1>4, <1>5, <1>9, <2>1
  <2>3. m - 1 \in DOMAIN r /\ r[m - 1] = x /\ m - 1 < n
    BY <1>5, <2>1, <2>2
  <2> QED BY <2>3
<1> QED BY <1>2, <1>7, <1>8, <1>9

\* Nobody is ahead of the head.
LEMMA NobodyAhead ==
  ASSUME NEW q \in Seq(Process), q # <<>>, NEW x
  PROVE  ~Ahead(q, x, Head(q)) /\ Stands(q, Head(q))
<1>1. 1 \in DOMAIN q /\ Head(q) = q[1] /\ \A m \in DOMAIN q : m \in Nat /\ ~(m < 1)
  BY LenProperties, HeadTailProperties, EmptySeq
<1> QED BY <1>1 DEF Ahead, Stands

-----------------------------------------------------------------------------
(* The seats *)

\* No VirtualController comes or gets a controller; one may lose all it has.
Shrinks ==
  /\ made' = made
  /\ \A v \in VcId : \/ members'[v] = members[v] /\ (InTable(v)' <=> InTable(v))
                     \/ DOMAIN members'[v] = {}

\* The pads that are not in S drive what they drove.
OthersSit(S) == \A d \in Pads \ S : Driven(d)' <=> Driven(d)

LEMMA PadsAreControllers == Pads \subseteq Controller
BY DEF Pads

\* A step that leaves the lists and the table as they are, but for its order
LEMMA NobodyMoves ==
  ASSUME UNCHANGED <<made, members>>, \A v \in VcId : InTable(v)' <=> InTable(v)
  PROVE  Shrinks /\ OthersSit({})
BY DEF Shrinks, OthersSit, Driven, Drives

LEMMA SlotsUntouched ==
  ASSUME SlotsInv, UNCHANGED vcVars
  PROVE  SlotsInv' /\ Shrinks /\ OthersSit({})
BY SlotsAlone, NobodyMoves DEF vcVars, InTable

LEMMA OrderOnly ==
  ASSUME SlotsInv, Reorder(table, members), UNCHANGED <<made, members, running, device>>
  PROVE  SlotsInv' /\ Shrinks /\ OthersSit({})
BY ReorderKeepsSlots, NobodyMoves

LEMMA DeviceOnly ==
  ASSUME SlotsInv, NEW v, device' \in Attempted(device, v),
         UNCHANGED <<table, made, members, running, player>>
  PROVE  SlotsInv' /\ Shrinks /\ OthersSit({})
BY AttemptKeepsSlots, NobodyMoves DEF InTable

\* A pad's VirtualController drives nobody else.
LEMMA PadAlone ==
  ASSUME SeatsOk, NEW c \in Pads, NEW v \in VcId, Drives(v, c)
  PROVE  /\ members[v] = <<c>> /\ InTable(v)
         /\ \A d : Drives(v, d) => d = c
         /\ \A w \in VcId : Drives(w, c) => w = v
<1>1. members[v] = <<c>> /\ InTable(v) /\ \A w \in VcId : Drives(w, c) => w = v
  BY DEF SeatsOk
<1> QED BY <1>1 DEF Drives

\* Once a VirtualController is emptied that drives c, or nobody, only c leaves.
LEMMA OneLeaves ==
  ASSUME SeatsOk, NEW c \in Pads, NEW v \in VcId, made' = made,
         members \in [VcId -> Seq(Controller)], members' = [members EXCEPT ![v] = <<>>],
         \A w \in VcId : InTable(w)' <=> InTable(w) /\ w # v,
         \A d \in Pads : Drives(v, d) => d = c,
         \A w \in VcId : Drives(w, c) => w = v
  PROVE  Shrinks /\ OthersSit({c}) /\ ~Driven(c)'
<1>1. /\ DOMAIN members'[v] = {}
      /\ \A w \in VcId : w # v => members'[w] = members[w] /\ (InTable(w)' <=> InTable(w))
  BY EmptySeq
<1>2. Shrinks
  BY <1>1 DEF Shrinks
<1>3. \A w \in VcId, d \in Controller : Drives(w, d)' <=> Drives(w, d) /\ w # v
  BY <1>1 DEF Drives
<1>4. OthersSit({c})
  BY <1>3, PadsAreControllers DEF OthersSit, Driven
<1>5. ~Driven(c)'
  BY <1>3, PadsAreControllers DEF Driven
<1> QED BY <1>2, <1>4, <1>5

\* A pad that is evicted leaves its VirtualController, and nobody else does.
LEMMA PadLeaves ==
  ASSUME SlotsInv, SeatsOk, NEW c \in Pads, Evict(c)
  PROVE  SlotsInv' /\ Shrinks /\ OthersSit({c}) /\ ~Driven(c)'
<1>0. c \in Controller /\ NoVc \notin VcId
  BY SlotsAssumption DEF Pads, VcId, NoVc
<1>1. CASE VcOf(c) = NoVc
  <2>1. \A v \in VcId : ~(InTable(v) /\ Drives(v, c))
    BY <1>0, <1>1 DEF VcOf
  <2>2. ~Driven(c)
    BY <2>1, PadAlone DEF Driven
  <2>3. UNCHANGED vcVars
    BY <1>1 DEF Evict
  <2>4. Driven(c)' <=> Driven(c)
    BY <2>3 DEF vcVars, Driven, Drives
  <2> QED BY <2>2, <2>3, <2>4, SlotsUntouched DEF OthersSit
<1>2. ASSUME NEW v, v = VcOf(c), v # NoVc
      PROVE  Shrinks /\ OthersSit({c}) /\ ~Driven(c)'
  <2>1. v \in VcId /\ InTable(v) /\ Drives(v, c)
    BY <1>2 DEF VcOf
  <2>2. /\ members[v] = <<c>> /\ \A d : Drives(v, d) => d = c
        /\ \A w \in VcId : Drives(w, c) => w = v
    BY <2>1, PadAlone
  <2>3. Without(members[v], c) = <<>>
    <3>1. members[v] \in Seq(Controller) /\ Len(members[v]) = 1 /\ \E n \in DOMAIN members[v] : members[v][n] = c
      BY <1>0, <2>1, <2>2 DEF Drives
    <3>2. Without(members[v], c) \in Seq(Controller) /\ Len(Without(members[v], c)) = Len(members[v]) - 1
      BY <3>1, WithoutShortens
    <3> QED BY <3>1, <3>2, EmptySeq
  <2>4. /\ members' = [members EXCEPT ![v] = <<>>] /\ made' = made
        /\ table' = [i \in Slot |-> IF table[i] = v THEN NoVc ELSE table[i]]
    BY <1>2, <2>3 DEF Evict
  <2>5. \A w \in VcId : InTable(w)' <=> InTable(w) /\ w # v
    BY <1>0, <2>4 DEF InTable
  <2>6. members \in [VcId -> Seq(Controller)]
    BY DEF SlotsInv, SlotsTypeOK
  <2> QED BY <2>1, <2>2, <2>4, <2>5, <2>6, OneLeaves
<1>3. SlotsInv'
  BY <1>0, EvictKeepsSlots
<1>4. VcOf(c) = NoVc \/ \E v : v = VcOf(c) /\ v # NoVc
  OBVIOUS
<1> QED BY <1>1, <1>2, <1>3, <1>4

\* A table that a VirtualController was taken out of, reordered.
LEMMA TakingOut ==
  ASSUME SlotsInv, NEW v \in VcId, UNCHANGED made,
         members' = [members EXCEPT ![v] = <<>>], running' = [running EXCEPT ![v] = FALSE],
         device' = [device EXCEPT ![v] = FALSE],
         Reorder([i \in Slot |-> IF table[i] = v THEN NoVc ELSE table[i]], members')
  PROVE  SlotsInv' /\ \A w \in VcId : InTable(w)' <=> InTable(w) /\ w # v
<1> DEFINE t == [i \in Slot |-> IF table[i] = v THEN NoVc ELSE table[i]]
<1>1. /\ table \in [Slot -> VcId \cup {NoVc}] /\ made \in 0 .. MaxVc /\ MaxVc \in Nat
      /\ members \in [VcId -> Seq(Controller)]
      /\ running \in [VcId -> BOOLEAN] /\ device \in [VcId -> BOOLEAN]
      /\ OncePerTable(table) /\ NoVc \notin VcId
  BY SlotsAssumption DEF SlotsInv, SlotsTypeOK, VcId, NoVc
<1>2. t \in [Slot -> VcId \cup {NoVc}] /\ \A i \in Slot : t[i] = IF table[i] = v THEN NoVc ELSE table[i]
  BY <1>1
<1>3. OncePerTable(t)
  BY <1>1, <1>2 DEF OncePerTable
<1>4. Reorder(t, members')
  OBVIOUS
<1> HIDE DEF t
<1>5. /\ table' \in [Slot -> VcId \cup {NoVc}] /\ player' \in [VcId -> 0 .. Slots]
      /\ \A w \in VcId : InTable(w)' <=> \E i \in Slot : t[i] = w
      /\ OncePerTable(table)'
  BY <1>2, <1>3, <1>4, ReorderPutsInOrder
<1>6. \A w \in VcId : (\E i \in Slot : t[i] = w) <=> InTable(w) /\ w # v
  BY <1>1, <1>2 DEF InTable
<1>7. \A w \in VcId : InTable(w)' <=> InTable(w) /\ w # v
  BY <1>5, <1>6
<1>8. /\ running' \in [VcId -> BOOLEAN] /\ device' \in [VcId -> BOOLEAN]
      /\ members' \in [VcId -> Seq(Controller)] /\ made' \in 0 .. MaxVc
  BY <1>1, EmptySeq
<1>9. /\ \A w \in VcId : running'[w] => running[w] /\ w # v
      /\ \A w \in VcId : device'[w] => device[w] /\ w # v
      /\ \A w \in VcId : running[w] /\ w # v => running'[w]
  BY <1>1
<1>10. /\ \A w \in VcId : running'[w] => InTable(w)'
       /\ \A w \in VcId : device'[w] => running'[w]
  BY <1>7, <1>9 DEF SlotsInv
<1>11. \A i \in Slot : table'[i] <= made'
  <2> TAKE i \in Slot
  <2>1. CASE table'[i] = NoVc
    BY <1>1, <2>1 DEF NoVc
  <2>2. CASE table'[i] \in VcId
    <3>1. PICK w \in VcId : w = table'[i]
      BY <2>2
    <3>2. InTable(w)'
      BY <3>1 DEF InTable
    <3>3. InTable(w)
      BY <1>7, <3>2
    <3> QED BY <3>1, <3>3 DEF SlotsInv, InTable
  <2> QED BY <1>5, <2>1, <2>2
<1> QED BY <1>5, <1>7, <1>8, <1>10, <1>11 DEF SlotsInv, SlotsTypeOK

\* An attempt that hands back what it claimed leaves it, and nobody else does.
LEMMA HandsBack ==
  ASSUME SlotsInv, SeatsOk, CoreTyped, NEW c \in Pads, NEW q, attempt[c] \in Claiming, HandBack(c, q)
  PROVE  SlotsInv' /\ Shrinks /\ OthersSit({c}) /\ ~Driven(c)'
<1>0. PICK v : v = claimed[c]
  OBVIOUS
<1>1. /\ v \in VcId
      /\ \A d \in Pads : Drives(v, d) => d = c
      /\ \A w \in VcId : Drives(w, c) => w = v
  BY <1>0, PadsAreControllers DEF SeatsOk, CoreTyped, Claiming
<1>2. CASE InTable(v)
  <2>1. /\ members' = [members EXCEPT ![v] = <<>>] /\ running' = [running EXCEPT ![v] = FALSE]
        /\ device' = [device EXCEPT ![v] = FALSE] /\ made' = made
        /\ Reorder([i \in Slot |-> IF table[i] = v THEN NoVc ELSE table[i]], members')
    BY <1>0, <1>2 DEF HandBack
  <2>2. SlotsInv' /\ \A w \in VcId : InTable(w)' <=> InTable(w) /\ w # v
    BY <1>1, <2>1, TakingOut
  <2>3. members \in [VcId -> Seq(Controller)]
    BY DEF SlotsInv, SlotsTypeOK
  <2> QED BY <1>1, <2>1, <2>2, <2>3, OneLeaves
<1>3. CASE ~InTable(v)
  <2>1. Reorder(table, members) /\ UNCHANGED <<made, members, running, device>>
    BY <1>0, <1>3 DEF HandBack
  <2>2. SlotsInv' /\ Shrinks /\ OthersSit({})
    BY <2>1, OrderOnly
  <2>3. ~Driven(c)
    BY <1>1, <1>3, PadAlone DEF Driven
  <2>4. Driven(c)' <=> Driven(c)
    BY <2>1 DEF Driven, Drives
  <2> QED BY <2>2, <2>3, <2>4 DEF OthersSit
<1> QED BY <1>2, <1>3

\* A claim that finds an empty slot puts a new VirtualController there.
TakesSeat(c) ==
  /\ NewVc \in VcId /\ ~InTable(NewVc) /\ made' = NewVc /\ members' = [members EXCEPT ![NewVc] = <<c>>]
  /\ \A v \in VcId : InTable(v)' <=> InTable(v) \/ v = NewVc

LEMMA SeatTaken ==
  ASSUME SlotsInv, NEW c \in Controller, NEW q, ClaimSlot(c, q), Occupied(table) # Slot
  PROVE  SlotsInv' /\ TakesSeat(c) /\ lockq' = q /\ AttemptGoto(c, "added")
         /\ claimed' = [claimed EXCEPT ![c] = NewVc] /\ live' = live
<1> DEFINE S == {j \in Slot : table[j] = NoVc}
<1>1. S \in SUBSET Nat /\ S # {} /\ S \subseteq Slot
  BY SlotsAssumption DEF Occupied, Slot
<1>2. First(S) \in S
  <2> HIDE DEF S
  <2> QED BY <1>1, FirstIsLeast
<1>3. PICK i \in Slot : i = First(S) /\ table[i] = NoVc
  BY <1>1, <1>2
<1>4. /\ Create(c) /\ table' = [table EXCEPT ![i] = NewVc] /\ player' = [player EXCEPT ![NewVc] = i]
      /\ lockq' = q /\ AttemptGoto(c, "added") /\ claimed' = [claimed EXCEPT ![c] = NewVc] /\ live' = live
  BY <1>3 DEF ClaimSlot
<1>5. SlotsInv' /\ NewVc \in VcId /\ \A v \in VcId : InTable(v)' <=> InTable(v) \/ v = NewVc
  BY <1>3, <1>4, TakingSeat
<1>6. made' = NewVc /\ members' = [members EXCEPT ![NewVc] = <<c>>]
  BY <1>4 DEF Create
<1>7. ~InTable(NewVc)
  <2>1. made \in Nat /\ \A j \in Slot : table[j] <= made
    BY SlotsAssumption DEF SlotsInv, SlotsTypeOK
  <2> QED BY <2>1 DEF InTable, NewVc
<1> QED BY <1>4, <1>5, <1>6, <1>7 DEF TakesSeat

-----------------------------------------------------------------------------
(* What the steps of an attempt do *)

\* How an attempt goes on.
Goes(x, y) ==
  \/ x = "opening" /\ y \in {"claim_wait", "full", "added", "closing"}
  \/ x = "claim_wait" /\ y \in {"full", "added"}
  \/ x = "added" /\ y \in {"device", "give_wait", "closing"}
  \/ x = "device" /\ y \in {"resumes", "give_wait", "closing"}
  \/ x = "give_wait" /\ y = "closing"
  \/ x \in {"resumes", "full", "closing"} /\ y = "over"

\* What it does to the tasks and to the seats, and to the queue.
PadDoes(c, y) ==
  /\ Goes(attempt[c], y) /\ AttemptGoto(c, y)
  /\ UNCHANGED <<removal, overdue>>
  /\ live' = IF y \in {"closing", "full"} THEN live \ {c} ELSE live
  /\ adding' = IF y = "over" THEN adding \ {KeyOf[c]} ELSE adding
  /\ known' = IF attempt[c] = "resumes" THEN [known EXCEPT ![KeyOf[c]] = {c}] ELSE known
  /\ \E v : /\ claimed' = [claimed EXCEPT ![c] = v]
            /\ v = IF y = "added" THEN NewVc ELSE IF y \in Claiming THEN claimed[c] ELSE NoVc
  /\ IF y = "added" THEN TakesSeat(c)
     ELSE /\ Shrinks /\ OthersSit({c})
          /\ IF y = "closing" THEN ~Driven(c)' ELSE Driven(c)' <=> Driven(c)

PadQueues(c, y) ==
  /\ y = "claim_wait" => lockq' = Append(lockq, AddPad(c)) /\ lockq # <<>>
  /\ y \in {"full", "added"} =>
       \/ attempt[c] = "opening" /\ lockq = <<>> /\ lockq' = Append(lockq, AddPad(c))
       \/ attempt[c] = "claim_wait" /\ lockq' = lockq /\ Holds(AddPad(c))
  /\ attempt[c] \in {"added", "full"} =>
       lockq' = IF y = "give_wait" THEN Append(Tail(lockq), GiveBack(c)) ELSE Tail(lockq)
  /\ attempt[c] = "device" =>
       lockq' = IF y = "give_wait" THEN Append(lockq, GiveBack(c)) ELSE lockq
  /\ attempt[c] = "give_wait" => lockq' = Tail(lockq) /\ Holds(GiveBack(c))
  /\ attempt[c] \in {"resumes", "closing"} \/ (attempt[c] = "opening" /\ y = "closing") => lockq' = lockq

\* A claim finds the table full, or takes a seat.
LEMMA ClaimDoes ==
  ASSUME SlotsInv, CoreTyped, SeatsOk, NEW c \in Pads, NEW q, ClaimSlot(c, q),
         attempt[c] \in {"opening", "claim_wait"},
         UNCHANGED <<known, adding, overdue, removal>>
  PROVE  SlotsInv' /\ lockq' = q /\ \E y \in {"full", "added"} : PadDoes(c, y)
<1>0. c \in Controller /\ claimed[c] = NoVc /\ claimed \in [Controller -> VcId \cup {NoVc}]
  BY PadsAreControllers DEF SeatsOk, CoreTyped, Claiming
<1>1. CASE Occupied(table) = Slot
  <2>1. lockq' = q /\ AttemptGoto(c, "full") /\ live' = live \ {c} /\ UNCHANGED vcVars /\ claimed' = claimed
    BY <1>1 DEF ClaimSlot
  <2>2. SlotsInv' /\ Shrinks /\ OthersSit({c}) /\ (Driven(c)' <=> Driven(c))
    BY <2>1, SlotsUntouched DEF OthersSit, vcVars, Driven, Drives
  <2>3. claimed' = [claimed EXCEPT ![c] = NoVc]
    BY <1>0, <2>1
  <2> QED BY <2>1, <2>2, <2>3 DEF PadDoes, Goes, Claiming
<1>2. CASE Occupied(table) # Slot
  <2>1. SlotsInv' /\ TakesSeat(c) /\ lockq' = q /\ AttemptGoto(c, "added")
        /\ claimed' = [claimed EXCEPT ![c] = NewVc] /\ live' = live
    BY <1>0, <1>2, SeatTaken
  <2> QED BY <2>1 DEF PadDoes, Goes
<1> QED BY <1>1, <1>2

\* An attempt that gives its claim up waits for the lock, or hands the slot back at once.
LEMMA RollbackDoes ==
  ASSUME SlotsInv, CoreTyped, SeatsOk, NEW c \in Pads, NEW q, RollsBack(c, q),
         attempt[c] \in {"added", "device"},
         UNCHANGED <<known, adding, overdue, removal>>
  PROVE  /\ SlotsInv'
         /\ \/ PadDoes(c, "closing") /\ q = <<>> /\ lockq' = <<>>
            \/ PadDoes(c, "give_wait") /\ lockq' = Append(q, GiveBack(c))
<1>0. c \in Controller /\ claimed \in [Controller -> VcId \cup {NoVc}] /\ attempt[c] \in Claiming
  BY PadsAreControllers DEF CoreTyped, Claiming
<1>1. CASE q = <<>>
  <2>1. HandBack(c, <<GiveBack(c)>>)
    BY <1>1 DEF RollsBack
  <2>2. SlotsInv' /\ Shrinks /\ OthersSit({c}) /\ ~Driven(c)'
    BY <1>0, <2>1, HandsBack
  <2>3. /\ lockq' = Tail(<<GiveBack(c)>>) /\ claimed' = [claimed EXCEPT ![c] = NoVc]
        /\ AttemptGoto(c, "closing") /\ live' = live \ {c}
    BY <2>1 DEF HandBack, Closes
  <2>4. lockq' = <<>>
    BY <2>3
  <2> QED BY <1>1, <2>2, <2>3, <2>4 DEF PadDoes, Goes, Claiming
<1>2. CASE q # <<>>
  <2>1. /\ lockq' = Append(q, GiveBack(c)) /\ AttemptGoto(c, "give_wait")
        /\ UNCHANGED vcVars /\ claimed' = claimed /\ live' = live
    BY <1>2 DEF RollsBack
  <2>2. SlotsInv' /\ Shrinks /\ OthersSit({c}) /\ (Driven(c)' <=> Driven(c))
    BY <2>1, SlotsUntouched DEF OthersSit, vcVars, Driven, Drives
  <2>3. claimed' = [claimed EXCEPT ![c] = claimed[c]]
    BY <1>0, <2>1
  <2> QED BY <2>1, <2>2, <2>3 DEF PadDoes, Goes, Claiming
<1> QED BY <1>1, <1>2

\* Every step of an attempt is one of these.
LEMMA PadStepDoes ==
  ASSUME SlotsInv, CoreTyped, SeatsOk, NEW c \in Pads, AddPadStep(c)
  PROVE  SlotsInv' /\ \E y : PadDoes(c, y) /\ PadQueues(c, y)
<1>0. /\ c \in Controller /\ claimed \in [Controller -> VcId \cup {NoVc}]
      /\ claimed[c] # NoVc <=> attempt[c] \in Claiming
      /\ claimed = [claimed EXCEPT ![c] = claimed[c]]
  BY PadsAreControllers DEF CoreTyped, SeatsOk
<1>2. ASSUME NEW y, Goes(attempt[c], y), AttemptGoto(c, y), UNCHANGED vcVars, claimed' = claimed,
             attempt[c] \in {"opening", "full", "closing"}, y \notin {"added"},
             UNCHANGED <<known, removal, overdue>>,
             live' = IF y \in {"closing", "full"} THEN live \ {c} ELSE live,
             adding' = IF y = "over" THEN adding \ {KeyOf[c]} ELSE adding,
             y = "closing" => ~Driven(c)
      PROVE  SlotsInv' /\ PadDoes(c, y)
  <2>1. SlotsInv' /\ Shrinks /\ OthersSit({c}) /\ (Driven(c)' <=> Driven(c))
    BY <1>2, SlotsUntouched DEF OthersSit, vcVars, Driven, Drives
  <2>2. claimed[c] = NoVc /\ y \notin Claiming
    BY <1>0, <1>2 DEF Goes, Claiming
  <2> QED BY <1>0, <1>2, <2>1, <2>2 DEF PadDoes
<1>3. CASE InitDone(c)
  <2>1. CASE LockFree
    <3>1. /\ ClaimSlot(c, <<AddPad(c)>>) /\ attempt[c] = "opening"
          /\ UNCHANGED <<known, adding, overdue, removal>>
      BY <1>3, <2>1 DEF InitDone
    <3>2. PICK y \in {"full", "added"} : SlotsInv' /\ lockq' = <<AddPad(c)>> /\ PadDoes(c, y)
      BY <3>1, ClaimDoes
    <3>3. lockq = <<>> /\ lockq' = Append(lockq, AddPad(c))
      BY <2>1, <3>2 DEF LockFree
    <3> QED BY <3>1, <3>2, <3>3 DEF PadQueues
  <2>2. CASE ~LockFree
    <3>1. /\ lockq' = Append(lockq, AddPad(c)) /\ AttemptGoto(c, "claim_wait") /\ attempt[c] = "opening"
          /\ UNCHANGED <<vcVars, claimed, live, known, adding, overdue, removal>>
          /\ lockq # <<>>
      BY <1>3, <2>2 DEF InitDone, LockFree
    <3>2. SlotsInv' /\ PadDoes(c, "claim_wait")
      BY <1>2, <3>1 DEF Goes
    <3> QED BY <3>1, <3>2 DEF PadQueues
  <2> QED BY <2>1, <2>2
<1>4. CASE InitRaises(c)
  <2>1. /\ attempt[c] = "opening" /\ AttemptGoto(c, "closing") /\ live' = live \ {c} /\ lockq' = lockq
        /\ UNCHANGED <<vcVars, claimed, known, adding, overdue, removal>>
    BY <1>4 DEF InitRaises, Closes, slotVars
  <2>2. ~Driven(c)
    BY <2>1 DEF SeatsOk, Driven, Claiming
  <2>3. SlotsInv' /\ PadDoes(c, "closing")
    BY <1>2, <2>1, <2>2 DEF Goes
  <2> QED BY <2>1, <2>3 DEF PadQueues
<1>5. CASE CloseEnds(c) \/ FullEnds(c)
  <2>1. /\ attempt[c] \in {"closing", "full"} /\ AttemptGoto(c, "over") /\ adding' = adding \ {KeyOf[c]}
        /\ UNCHANGED <<vcVars, claimed, known, live, overdue, removal>>
        /\ lockq' = IF attempt[c] = "full" THEN Tail(lockq) ELSE lockq
    BY <1>5 DEF CloseEnds, FullEnds, slotVars, padState
  <2>2. SlotsInv' /\ PadDoes(c, "over")
    BY <1>2, <2>1 DEF Goes
  <2> QED BY <2>1, <2>2 DEF PadQueues
<1>6. CASE AddGetsLock(c)
  <2>1. /\ attempt[c] = "claim_wait" /\ Holds(AddPad(c)) /\ ClaimSlot(c, lockq)
        /\ UNCHANGED <<known, adding, overdue, removal>>
    BY <1>6 DEF AddGetsLock
  <2>2. PICK y \in {"full", "added"} : SlotsInv' /\ lockq' = lockq /\ PadDoes(c, y)
    BY <2>1, ClaimDoes
  <2> QED BY <2>1, <2>2 DEF PadQueues
<1>7. CASE AddedDone(c)
  <2>1. /\ attempt[c] = "added" /\ Reorder(table, members) /\ lockq' = Tail(lockq)
        /\ AttemptGoto(c, "device") /\ UNCHANGED <<made, members, running, device>>
        /\ UNCHANGED <<claimed, known, adding, live, overdue, removal>>
    BY <1>7 DEF AddedDone, padState
  <2>2. SlotsInv' /\ Shrinks /\ OthersSit({c}) /\ (Driven(c)' <=> Driven(c))
    BY <2>1, OrderOnly DEF OthersSit, Driven, Drives
  <2>3. PadDoes(c, "device")
    BY <1>0, <2>1, <2>2 DEF PadDoes, Goes, Claiming
  <2> QED BY <2>1, <2>2, <2>3 DEF PadQueues
<1>8. CASE AddedRaises(c)
  <2>1. /\ attempt[c] = "added" /\ RollsBack(c, Tail(lockq))
        /\ UNCHANGED <<known, adding, overdue, removal>>
    BY <1>8 DEF AddedRaises
  <2>2. /\ SlotsInv'
        /\ \/ PadDoes(c, "closing") /\ Tail(lockq) = <<>> /\ lockq' = <<>>
           \/ PadDoes(c, "give_wait") /\ lockq' = Append(Tail(lockq), GiveBack(c))
    BY <2>1, RollbackDoes
  <2> QED BY <2>1, <2>2 DEF PadQueues
<1>9. CASE DeviceRaises(c)
  <2>1. /\ attempt[c] = "device" /\ RollsBack(c, lockq)
        /\ UNCHANGED <<known, adding, overdue, removal>>
    BY <1>9 DEF DeviceRaises
  <2>2. /\ SlotsInv'
        /\ \/ PadDoes(c, "closing") /\ lockq = <<>> /\ lockq' = <<>>
           \/ PadDoes(c, "give_wait") /\ lockq' = Append(lockq, GiveBack(c))
    BY <2>1, RollbackDoes
  <2> QED BY <2>1, <2>2 DEF PadQueues
<1>10. CASE GiveBackGetsLock(c)
  <2>1. /\ attempt[c] = "give_wait" /\ Holds(GiveBack(c)) /\ HandBack(c, lockq)
        /\ UNCHANGED <<known, adding, overdue, removal>>
    BY <1>10 DEF GiveBackGetsLock
  <2>2. SlotsInv' /\ Shrinks /\ OthersSit({c}) /\ ~Driven(c)'
    BY <2>1, HandsBack DEF Claiming
  <2>3. /\ lockq' = Tail(lockq) /\ claimed' = [claimed EXCEPT ![c] = NoVc]
        /\ AttemptGoto(c, "closing") /\ live' = live \ {c}
    BY <2>1 DEF HandBack, Closes
  <2>4. PadDoes(c, "closing")
    BY <2>1, <2>2, <2>3 DEF PadDoes, Goes, Claiming
  <2> QED BY <2>1, <2>2, <2>3, <2>4 DEF PadQueues
<1>11. CASE DeviceDone(c)
  <2>1. /\ attempt[c] = "device" /\ device' \in Attempted(device, claimed[c]) /\ lockq' = lockq
        /\ AttemptGoto(c, "resumes") /\ UNCHANGED <<table, made, members, running, player>>
        /\ UNCHANGED <<claimed, known, adding, live, overdue, removal>>
    BY <1>11 DEF DeviceDone, SetupSucceeds, padState
  <2>2. SlotsInv' /\ Shrinks /\ OthersSit({c}) /\ (Driven(c)' <=> Driven(c))
    BY <2>1, DeviceOnly DEF OthersSit, Driven, Drives
  <2>3. PadDoes(c, "resumes")
    BY <1>0, <2>1, <2>2 DEF PadDoes, Goes, Claiming
  <2> QED BY <2>1, <2>2, <2>3 DEF PadQueues
<1>12. CASE AddEnds(c)
  <2>1. /\ attempt[c] = "resumes" /\ AttemptGoto(c, "over") /\ UNCHANGED vcVars /\ lockq' = lockq
        /\ known' = [known EXCEPT ![KeyOf[c]] = {c}] /\ adding' = adding \ {KeyOf[c]}
        /\ claimed' = [claimed EXCEPT ![c] = NoVc] /\ UNCHANGED <<live, overdue, removal>>
    BY <1>12 DEF AddEnds, slotVars, padState
  <2>2. SlotsInv' /\ Shrinks /\ OthersSit({c}) /\ (Driven(c)' <=> Driven(c))
    BY <2>1, SlotsUntouched DEF OthersSit, vcVars, Driven, Drives
  <2>3. PadDoes(c, "over")
    BY <2>1, <2>2 DEF PadDoes, Goes, Claiming
  <2> QED BY <2>1, <2>2, <2>3 DEF PadQueues
<1> QED BY <1>3, <1>4, <1>5, <1>6, <1>7, <1>8, <1>9, <1>10, <1>11, <1>12 DEF AddPadStep

-----------------------------------------------------------------------------
(* What the other steps do *)

\* Nothing but the death of a pad.
Rests ==
  /\ Shrinks /\ OthersSit({}) /\ live' \subseteq live
  /\ UNCHANGED <<lockq, known, adding, attempt, claimed, overdue, removal>>

\* A removal of c begins, with the lock or behind its holder.
Begins(c, st) ==
  /\ removal[KeyOf[c]].st = "none"
  /\ (c \in live /\ live' = live \ {c}) \/ (c \in known[KeyOf[c]] /\ live' = live)
  /\ known' = [known EXCEPT ![KeyOf[c]] = {}]
  /\ \E r \in BOOLEAN :
       removal' = [removal EXCEPT ![KeyOf[c]] = [st |-> st, who |-> {c}, rescan |-> r]]
  /\ lockq' = Append(lockq, RemovePad(KeyOf[c]))
  /\ UNCHANGED <<adding, attempt, claimed, overdue>>
  /\ Shrinks /\ OthersSit({c})
  /\ \/ st = "leds" /\ lockq = <<>> /\ ~Driven(c)'
     \/ st = "wait" /\ lockq # <<>> /\ (Driven(c)' <=> Driven(c))

\* It gets the lock and frees the slot,
GetsLock(k, c) ==
  /\ removal[k].st = "wait" /\ c \in removal[k].who /\ Holds(RemovePad(k))
  /\ removal' = [removal EXCEPT ![k].st = "leds"]
  /\ UNCHANGED <<lockq, known, adding, attempt, claimed, overdue, live>>
  /\ Shrinks /\ OthersSit({c}) /\ ~Driven(c)'

\* releases the lock,
LetsGo(k) ==
  /\ removal[k].st = "leds"
  /\ removal' = [removal EXCEPT ![k].st = "closing"]
  /\ lockq' = Tail(lockq) /\ live' = live \ removal[k].who
  /\ UNCHANGED <<known, adding, attempt, claimed, overdue>>
  /\ Shrinks /\ OthersSit({})

\* and is over.
Ends(k) ==
  /\ removal[k].st = "closing"
  /\ removal' = [removal EXCEPT ![k] = NoRemoval]
  /\ UNCHANGED <<lockq, known, adding, attempt, claimed, overdue, live>>
  /\ Shrinks /\ OthersSit({})

\* A scan opens one new pad of each key in S.
Opens(S) ==
  /\ \A k \in S : k \in Key /\ known[k] = {} /\ k \notin adding /\ NextPad(k) \in Fresh(k)
  /\ adding' = adding \cup S
  /\ attempt' = [c \in Controller |-> IF \E k \in S : c = NextPad(k) THEN "opening" ELSE attempt[c]]
  /\ live' = live \cup {NextPad(k) : k \in S}
  /\ UNCHANGED <<lockq, known, claimed, overdue, removal>>
  /\ Shrinks /\ OthersSit({})

\* A key is given away under its attempt.
Overtakes(k) ==
  /\ adding' = adding \ {k} /\ overdue' = overdue \cup {k}
  /\ UNCHANGED <<lockq, known, attempt, claimed, live, removal>>
  /\ Shrinks /\ OthersSit({})

RemovalDoes ==
  \/ \E c \in Pads, st \in {"leds", "wait"} : Begins(c, st)
  \/ \E k \in Key : (\E c \in Pads : GetsLock(k, c)) \/ LetsGo(k) \/ Ends(k)

\* A call of _remove begins a removal, or finds one under way.
LEMMA BeginDoes ==
  ASSUME SlotsInv, CoreTyped, SeatsOk, NEW c \in Pads, \E r \in BOOLEAN : RemoveBegins(c, r),
         (c \in live /\ live' = live \ {c}) \/ (c \in known[KeyOf[c]] /\ live' = live),
         UNCHANGED <<adding, attempt, claimed, overdue>>
  PROVE  SlotsInv' /\ (Rests \/ \E st \in {"leds", "wait"} : Begins(c, st))
<1>0. PICK r \in BOOLEAN : RemoveBegins(c, r)
  OBVIOUS
<1>1. CASE removal[KeyOf[c]].st # "none"
  <2>1. UNCHANGED <<lockq, vcVars, known, removal>>
    BY <1>0, <1>1 DEF RemoveBegins, slotVars
  <2> QED BY <2>1, SlotsUntouched DEF Rests
<1>2. CASE removal[KeyOf[c]].st = "none" /\ LockFree
  <2>1. /\ known' = [known EXCEPT ![KeyOf[c]] = {}] /\ Evict(c) /\ lockq' = <<RemovePad(KeyOf[c])>>
        /\ removal' = [removal EXCEPT ![KeyOf[c]] = [st |-> "leds", who |-> {c}, rescan |-> r]]
    BY <1>0, <1>2 DEF RemoveBegins, RemovalOf
  <2>2. SlotsInv' /\ Shrinks /\ OthersSit({c}) /\ ~Driven(c)'
    BY <2>1, PadLeaves
  <2>3. lockq = <<>> /\ lockq' = Append(lockq, RemovePad(KeyOf[c]))
    BY <1>2, <2>1 DEF LockFree
  <2>4. Begins(c, "leds")
    BY <1>0, <1>2, <2>1, <2>2, <2>3 DEF Begins
  <2> QED BY <2>2, <2>4
<1>3. CASE removal[KeyOf[c]].st = "none" /\ ~LockFree
  <2>1. /\ known' = [known EXCEPT ![KeyOf[c]] = {}] /\ UNCHANGED vcVars
        /\ lockq' = Append(lockq, RemovePad(KeyOf[c])) /\ lockq # <<>>
        /\ removal' = [removal EXCEPT ![KeyOf[c]] = [st |-> "wait", who |-> {c}, rescan |-> r]]
    BY <1>0, <1>3 DEF RemoveBegins, RemovalOf, LockFree
  <2>2. SlotsInv' /\ Shrinks /\ OthersSit({c}) /\ (Driven(c)' <=> Driven(c))
    BY <2>1, SlotsUntouched DEF OthersSit, vcVars, Driven, Drives
  <2>3. Begins(c, "wait")
    BY <1>0, <1>3, <2>1, <2>2 DEF Begins
  <2> QED BY <2>2, <2>3
<1> QED BY <1>1, <1>2, <1>3

\* Every step of a removal is one of these.
LEMMA RemovalStepDoes ==
  ASSUME SlotsInv, CoreTyped, SeatsOk, LivesOk,
         \/ \E c \in Pads : Dies(c)
         \/ \E k \in Key : RemovePadStep(k) \/ SweepDead(k) \/ MissingRemoved(k)
  PROVE  SlotsInv' /\ (Rests \/ RemovalDoes)
<1>1. ASSUME NEW c \in Pads, Dies(c) PROVE SlotsInv' /\ (Rests \/ RemovalDoes)
  <2>1. RemoveBegins(c, TRUE)
    BY <1>1 DEF Dies
  <2>2. \E r \in BOOLEAN : RemoveBegins(c, r)
    BY <2>1
  <2>3. (c \in live /\ live' = live \ {c}) \/ (c \in known[KeyOf[c]] /\ live' = live)
    BY <1>1 DEF Dies
  <2>4. UNCHANGED <<adding, attempt, claimed, overdue>>
    BY <1>1 DEF Dies
  <2>5. SlotsInv' /\ (Rests \/ \E st \in {"leds", "wait"} : Begins(c, st))
    BY <2>2, <2>3, <2>4, BeginDoes
  <2> QED BY <2>5 DEF RemovalDoes
<1>2. ASSUME NEW k \in Key, NEW c \in known[k], \E r \in BOOLEAN : RemoveBegins(c, r), live' = live,
             UNCHANGED <<adding, attempt, claimed, overdue>>
      PROVE  SlotsInv' /\ (Rests \/ RemovalDoes)
  <2>1. c \in Pads /\ KeyOf[c] = k
    BY DEF LivesOk, CoreTyped
  <2> QED BY <1>2, <2>1, BeginDoes DEF RemovalDoes
<1>3. ASSUME NEW k \in Key, SweepDead(k) PROVE SlotsInv' /\ (Rests \/ RemovalDoes)
  <2>1. PICK c \in known[k] : RemoveBegins(c, TRUE)
    BY <1>3 DEF SweepDead
  <2>2. \E r \in BOOLEAN : RemoveBegins(c, r)
    BY <2>1
  <2> QED BY <1>2, <1>3, <2>2 DEF SweepDead, padState
<1>4. ASSUME NEW k \in Key, MissingRemoved(k) PROVE SlotsInv' /\ (Rests \/ RemovalDoes)
  <2>1. CASE known[k] = {}
    <3>1. UNCHANGED <<lockq, vcVars, known, removal, live, adding, attempt, claimed, overdue>>
      BY <1>4, <2>1 DEF MissingRemoved, slotVars, padState
    <3> QED BY <3>1, SlotsUntouched DEF Rests
  <2>2. CASE known[k] # {}
    <3>1. PICK c \in known[k] : RemoveBegins(c, FALSE)
      BY <1>4, <2>2 DEF MissingRemoved
    <3>2. \E r \in BOOLEAN : RemoveBegins(c, r)
      BY <3>1
    <3> QED BY <1>2, <1>4, <3>2 DEF MissingRemoved, padState
  <2> QED BY <2>1, <2>2
<1>5. ASSUME NEW k \in Key, RemoveGetsLock(k) PROVE SlotsInv' /\ RemovalDoes
  <2>1. PICK c \in removal[k].who : Evict(c)
    BY <1>5 DEF RemoveGetsLock
  <2>2. c \in Pads
    BY <2>1 DEF CoreTyped, Removals
  <2>3. SlotsInv' /\ Shrinks /\ OthersSit({c}) /\ ~Driven(c)'
    BY <2>1, <2>2, PadLeaves
  <2>4. GetsLock(k, c)
    BY <1>5, <2>1, <2>3 DEF RemoveGetsLock, GetsLock, taskState, padState
  <2> QED BY <2>2, <2>3, <2>4 DEF RemovalDoes
<1>6. ASSUME NEW k \in Key, RemoveReorders(k) PROVE SlotsInv' /\ RemovalDoes
  <2>1. SlotsInv' /\ Shrinks /\ OthersSit({})
    BY <1>6, OrderOnly DEF RemoveReorders
  <2>2. LetsGo(k)
    BY <1>6, <2>1 DEF RemoveReorders, LetsGo, taskState
  <2> QED BY <2>1, <2>2 DEF RemovalDoes
<1>7. ASSUME NEW k \in Key, RemoveEnds(k) PROVE SlotsInv' /\ RemovalDoes
  <2>1. SlotsInv' /\ Shrinks /\ OthersSit({})
    BY <1>7, SlotsUntouched DEF RemoveEnds, slotVars
  <2>2. Ends(k)
    BY <1>7, <2>1 DEF RemoveEnds, Ends, taskState, padState, slotVars
  <2> QED BY <2>1, <2>2 DEF RemovalDoes
<1> QED BY <1>1, <1>3, <1>4, <1>5, <1>6, <1>7 DEF RemovePadStep

\* So is every step of the whole route.
LEMMA StepDoes ==
  ASSUME SlotsInv, CoreTyped, ScanTyped, SeatsOk, LivesOk, [WiredNext]_wiredVars
  PROVE  /\ SlotsInv'
         /\ \/ Rests \/ RemovalDoes
            \/ \E c \in Pads : \E y : PadDoes(c, y) /\ PadQueues(c, y)
            \/ \E S : Opens(S)
            \/ \E k \in Key : Overtakes(k)
<1>1. CASE \/ UNCHANGED wiredVars \/ ManualScan \/ TakeRequests \/ Enumerate \/ ScanEnds
           \/ \E k \in Key : Plug(k) \/ Unplug(k) \/ RetryFires(k)
  <2>1. UNCHANGED <<slotVars, taskState, live, removal>>
    BY <1>1 DEF wiredVars, ManualScan, TakeRequests, Enumerate, ScanEnds, Plug, Unplug, RetryFires, padState
  <2> QED BY <2>1, SlotsUntouched DEF slotVars, taskState, Rests
<1>2. CASE \E c \in Pads : AddPadStep(c)
  BY <1>2, PadStepDoes
<1>3. CASE \/ \E c \in Pads : Dies(c)
           \/ \E k \in Key : RemovePadStep(k) \/ SweepDead(k) \/ MissingRemoved(k)
  BY <1>3, RemovalStepDoes
<1>4. ASSUME NEW v \in VcId, LateSetup(v) PROVE SlotsInv' /\ Rests
  <2>1. SlotsInv' /\ Shrinks /\ OthersSit({})
    BY <1>4, DeviceOnly DEF LateSetup, SetupRaises
  <2> QED BY <1>4, <2>1 DEF LateSetup, Rests, padState
<1>5. ASSUME ScanActs PROVE SlotsInv' /\ Opens(NewPads)
  <2>1. SlotsInv' /\ Shrinks /\ OthersSit({}) /\ lockq' = lockq
    BY <1>5, SlotsUntouched DEF ScanActs, slotVars
  <2>2. \A k \in NewPads : k \in Key /\ known[k] = {} /\ k \notin adding /\ NextPad(k) \in Fresh(k)
    <3> TAKE k \in NewPads
    <3>1. k \in Key /\ known[k] = {} /\ k \notin adding /\ Fresh(k) # {}
      BY DEF NewPads, ScanTyped
    <3>2. NextPad(k) \in Fresh(k)
      BY <3>1, Zenon DEF NextPad
    <3> QED BY <3>1, <3>2
  <2> QED BY <1>5, <2>1, <2>2 DEF ScanActs, Opens
<1>6. ASSUME NEW k \in Key, SweepStale(k) PROVE SlotsInv' /\ Overtakes(k)
  <2>1. SlotsInv' /\ Shrinks /\ OthersSit({}) /\ lockq' = lockq
    BY <1>6, SlotsUntouched DEF SweepStale, slotVars
  <2> QED BY <1>6, <2>1 DEF SweepStale, Overtakes, padState
<1> QED BY <1>1, <1>2, <1>3, <1>4, <1>5, <1>6 DEF WiredNext, OwnStep, ScanStep

-----------------------------------------------------------------------------
(* The types *)

\* What the steps of the route do, of what the invariant is about.
Effects ==
  \/ Rests \/ RemovalDoes
  \/ \E c \in Pads : \E y : PadDoes(c, y) /\ PadQueues(c, y)
  \/ \E S : Opens(S)
  \/ \E k \in Key : Overtakes(k)

LEMMA StepEffects ==
  ASSUME SlotsInv, CoreTyped, ScanTyped, SeatsOk, LivesOk, [WiredNext]_wiredVars
  PROVE  SlotsInv' /\ Effects
BY StepDoes DEF Effects

LEMMA CoreStep ==
  ASSUME CoreTyped, Effects
  PROVE  CoreTyped'
<1> USE DEF CoreTyped
<1>1. CASE Rests
  BY <1>1 DEF Rests
<1>2. ASSUME NEW c \in Pads, NEW st \in {"leds", "wait"}, Begins(c, st) PROVE CoreTyped'
  <2>0. KeyOf[c] \in Key
    BY DEF Pads
  <2>1. PICK r \in BOOLEAN :
          removal' = [removal EXCEPT ![KeyOf[c]] = [st |-> st, who |-> {c}, rescan |-> r]]
    BY <1>2 DEF Begins
  <2>2. [st |-> st, who |-> {c}, rescan |-> r] \in Removals
    BY DEF Removals
  <2>3. removal' \in [Key -> Removals]
    BY <2>1, <2>2
  <2>4. /\ known' = [known EXCEPT ![KeyOf[c]] = {}] /\ live' \subseteq live
        /\ UNCHANGED <<adding, attempt, claimed, overdue>>
    BY <1>2 DEF Begins
  <2>5. known' \in [Key -> SUBSET Pads] /\ \A k \in Key : known'[k] = {} \/ known'[k] = known[k]
    BY <2>4
  <2>6. \A k \in Key : Cardinality(known'[k]) <= 1
    <3>1. Cardinality({}) <= 1
      BY FS_EmptySet
    <3> TAKE k \in Key
    <3>2. CASE known'[k] = {}
      BY <3>1, <3>2
    <3>3. CASE known'[k] = known[k]
      BY <3>3
    <3> QED BY <2>5, <3>2, <3>3
  <2> QED BY <2>3, <2>4, <2>5, <2>6
<1>3. ASSUME NEW k \in Key, NEW c \in Pads, GetsLock(k, c) PROVE CoreTyped'
  <2>1. removal' = [removal EXCEPT ![k].st = "leds"]
        /\ UNCHANGED <<known, adding, attempt, claimed, overdue, live>>
    BY <1>3 DEF GetsLock
  <2>2. removal' \in [Key -> Removals]
    BY <2>1 DEF Removals
  <2> QED BY <2>1, <2>2
<1>4. ASSUME NEW k \in Key, LetsGo(k) PROVE CoreTyped'
  <2>1. removal' = [removal EXCEPT ![k].st = "closing"] /\ live' \subseteq live
        /\ UNCHANGED <<known, adding, attempt, claimed, overdue>>
    BY <1>4 DEF LetsGo
  <2>2. removal' \in [Key -> Removals]
    BY <2>1 DEF Removals
  <2> QED BY <2>1, <2>2
<1>5. ASSUME NEW k \in Key, Ends(k) PROVE CoreTyped'
  <2>1. removal' = [removal EXCEPT ![k] = NoRemoval]
        /\ UNCHANGED <<known, adding, attempt, claimed, overdue, live>>
    BY <1>5 DEF Ends
  <2>2. removal' \in [Key -> Removals]
    BY <2>1 DEF Removals, NoRemoval
  <2> QED BY <2>1, <2>2
<1>6. ASSUME NEW c \in Pads, NEW y, PadDoes(c, y) PROVE CoreTyped'
  <2>0. KeyOf[c] \in Key /\ c \in Controller
    BY DEF Pads
  <2>1. /\ attempt' = [attempt EXCEPT ![c] = y] /\ y \in Attempts
        /\ UNCHANGED <<removal, overdue>> /\ live' \subseteq live /\ adding' \subseteq adding
    BY <1>6 DEF PadDoes, AttemptGoto, Goes, Attempts
  <2>2. attempt' \in [Controller -> Attempts]
    BY <2>0, <2>1
  <2>3. known' = [known EXCEPT ![KeyOf[c]] = {c}] \/ known' = known
    BY <1>6 DEF PadDoes
  <2>4. known' \in [Key -> SUBSET Pads] /\ \A k \in Key : known'[k] = {c} \/ known'[k] = known[k]
    BY <2>3
  <2>5. \A k \in Key : Cardinality(known'[k]) <= 1
    <3>1. Cardinality({c}) <= 1
      <4>1. Cardinality({c}) = 1
        BY FS_Singleton
      <4> QED BY <4>1
    <3> TAKE k \in Key
    <3>2. CASE known'[k] = {c}
      BY <3>1, <3>2
    <3>3. CASE known'[k] = known[k]
      BY <3>3
    <3> QED BY <2>4, <3>2, <3>3
  <2>6. PICK v : claimed' = [claimed EXCEPT ![c] = v] /\ v \in VcId \cup {NoVc}
    BY <1>6, <2>0 DEF PadDoes, TakesSeat
  <2>7. claimed' \in [Controller -> VcId \cup {NoVc}]
    BY <2>6
  <2> QED BY <2>1, <2>2, <2>4, <2>5, <2>7
<1>7. ASSUME NEW S, Opens(S) PROVE CoreTyped'
  <2>1. \A k \in S : k \in Key /\ NextPad(k) \in Pads
    BY <1>7 DEF Opens, Fresh
  <2>2. adding' \subseteq Key /\ live' \subseteq Pads /\ UNCHANGED <<known, claimed, overdue, removal>>
    BY <1>7, <2>1 DEF Opens
  <2>3. attempt' \in [Controller -> Attempts]
    BY <1>7 DEF Opens, Attempts
  <2> QED BY <2>2, <2>3
<1>8. ASSUME NEW k \in Key, Overtakes(k) PROVE CoreTyped'
  BY <1>8 DEF Overtakes
<1> QED BY <1>1, <1>2, <1>3, <1>4, <1>5, <1>6, <1>7, <1>8 DEF Effects, RemovalDoes

LEMMA ScanStepTyped ==
  ASSUME CoreTyped, ScanTyped, SeatsOk, LivesOk, [WiredNext]_wiredVars
  PROVE  ScanTyped'
<1> USE WiredAssumption DEF ScanTyped
<1>1. CASE UNCHANGED <<plugged, late, hidden, scanState>>
  BY <1>1 DEF scanState
<1>2. CASE \E c \in Pads : AddPadStep(c)
  <2>1. PICK c \in Pads : AddPadStep(c)
    BY <1>2
  <2>2. late' = late \/ (attempt[c] = "device" /\ \E slow \in {{}, {claimed[c]}} : late' = late \cup slow)
    BY <2>1 DEF AddPadStep, InitDone, InitRaises, AddGetsLock, FullEnds, AddedDone, AddedRaises,
                GiveBackGetsLock, DeviceDone, AddEnds, DeviceRaises, CloseEnds
  <2>3. attempt[c] = "device" => claimed[c] \in VcId
    BY PadsAreControllers DEF SeatsOk, CoreTyped, Claiming
  <2>4. late' \subseteq VcId
    BY <2>2, <2>3
  <2>5. plugged' = plugged /\ hidden' \subseteq hidden /\ UNCHANGED scanState
    BY <2>1 DEF AddPadStep, InitDone, InitRaises, AddGetsLock, FullEnds, AddedDone, AddedRaises,
                GiveBackGetsLock, DeviceDone, AddEnds, DeviceRaises, CloseEnds, padState
  <2> QED BY <2>4, <2>5 DEF scanState
<1>3. ASSUME NEW v \in VcId, LateSetup(v) PROVE ScanTyped'
  BY <1>3 DEF LateSetup, scanState, padState
<1>4. ASSUME NEW k \in Key, RemovePadStep(k) PROVE ScanTyped'
  <2>1. CASE RemoveEnds(k)
    <3>1. requests' \subseteq requests \cup {<<"recovery", k>>}
      BY <2>1 DEF RemoveEnds
    <3>2. retries' \in [Key -> 0 .. MaxRetries]
      BY <2>1 DEF RemoveEnds
    <3>3. <<"recovery", k>> \in Asked \X (Key \cup {NoKey})
      BY DEF Asked
    <3> QED BY <2>1, <3>1, <3>2, <3>3 DEF RemoveEnds, taskState, padState
  <2>2. CASE RemoveGetsLock(k) \/ RemoveReorders(k)
    BY <2>2, <1>1 DEF RemoveGetsLock, RemoveReorders, taskState, padState
  <2> QED BY <1>4, <2>1, <2>2 DEF RemovePadStep
<1>5. ASSUME NEW k \in Key, SweepStale(k) \/ SweepDead(k) \/ MissingRemoved(k) PROVE ScanTyped'
  BY <1>5 DEF SweepStale, SweepDead, MissingRemoved, scanState, padState
<1>6. ASSUME NEW k \in Key \cup {NoKey}, NEW why \in Asked, Asks(why, k) PROVE requests' \subseteq Asked \X (Key \cup {NoKey})
  <2>1. <<why, k>> \in Asked \X (Key \cup {NoKey})
    OBVIOUS
  <2> QED BY <1>6, <2>1 DEF Asks
<1>7. ASSUME NEW k \in Key, Plug(k) \/ Unplug(k) PROVE ScanTyped'
  <2>1. requests' \subseteq Asked \X (Key \cup {NoKey})
    BY <1>6, <1>7 DEF Plug, Unplug, Asked
  <2> QED BY <1>7, <2>1 DEF Plug, Unplug, taskState
<1>8. ASSUME NEW k \in Key, RetryFires(k) PROVE ScanTyped'
  <2>1. requests' \subseteq Asked \X (Key \cup {NoKey})
    BY <1>6, <1>8 DEF RetryFires, Asked
  <2>2. retries' \in [Key -> 0 .. MaxRetries]
    BY <1>8 DEF RetryFires
  <2> QED BY <1>8, <2>1, <2>2 DEF RetryFires, taskState, padState
<1>9. CASE ManualScan
  <2>1. requests' \subseteq Asked \X (Key \cup {NoKey})
    BY <1>6, <1>9 DEF ManualScan, Asked
  <2> QED BY <1>9, <2>1 DEF ManualScan, taskState, padState
<1>10. CASE TakeRequests
  <2>1. /\ watcher' = "taken" /\ taken' = {r[1] : r \in requests} /\ requests' = {}
        /\ retries' = [k \in Key |-> IF "removal" \in taken' /\ k = path' THEN 0 ELSE retries[k]]
        /\ UNCHANGED <<plugged, late, hidden, chosen>>
    BY <1>10 DEF TakeRequests, taskState, padState
  <2>2. \A r \in requests : r[1] \in Asked /\ r[2] \in Key \cup {NoKey}
    OBVIOUS
  <2>3. path' \in Key \cup {NoKey}
    BY <1>10, <2>2 DEF TakeRequests
  <2>4. taken' \subseteq Asked
    BY <2>1, <2>2
  <2>5. retries' \in [Key -> 0 .. MaxRetries]
    BY <2>1
  <2> QED BY <2>1, <2>3, <2>4, <2>5
<1>11. CASE Enumerate
  BY <1>11 DEF Enumerate, taskState, padState
<1>12. CASE ScanActs
  <2>1. /\ watcher' = "missing" /\ taken' = {} /\ path' = NoKey /\ UNCHANGED <<late, plugged, requests>>
        /\ hidden' = hidden \cup NewPads /\ chosen' \subseteq Key
    BY <1>12 DEF ScanActs
  <2>2. NewPads \subseteq Key
    BY DEF NewPads
  <2>3. retries' \in [Key -> 0 .. MaxRetries]
    BY <1>12 DEF ScanActs
  <2> QED BY <2>1, <2>2, <2>3
<1>13. CASE ScanEnds
  BY <1>13 DEF ScanEnds, taskState, padState
<1>14. ASSUME NEW c \in Pads, Dies(c) PROVE ScanTyped'
  BY <1>1, <1>14 DEF Dies
<1>15. CASE UNCHANGED wiredVars
  BY <1>1, <1>15 DEF wiredVars, taskState, padState
<1> QED
  BY <1>2, <1>3, <1>4, <1>5, <1>7, <1>8, <1>9, <1>10, <1>11, <1>12, <1>13, <1>14, <1>15
     DEF WiredNext, OwnStep, ScanStep

-----------------------------------------------------------------------------
(* The queue goes on *)

\* The processes in out leave it, from its head, and those in join join it.
QueueMoves(out, join) ==
  /\ lockq' \in Seq(Process) /\ Once(lockq)'
  /\ \A x : InQueue(x)' <=> (InQueue(x) /\ x \notin out) \/ x \in join
  /\ \A x : Holds(x) /\ x \notin out => Holds(x)'
  /\ \A x \in join : lockq = <<>> => Holds(x)'
  /\ \A d, k : Behind(d, k) /\ InQueue(RemovePad(k)) /\ RemovePad(k) \notin out => Behind(d, k)'

LEMMA QueueStays ==
  ASSUME QueueOk, lockq' = lockq
  PROVE  QueueMoves({}, {})
BY DEF QueueMoves, QueueOk, InQueue, Holds, Behind

LEMMA Joined ==
  ASSUME QueueOk, NEW p \in Process, ~InQueue(p), lockq' = Append(lockq, p)
  PROVE  QueueMoves({}, {p})
<1>1. PICK q \in Seq(Process) : q = lockq /\ Once(q) /\ ~Stands(q, p)
  BY DEF QueueOk, InQueue
<1>2. PICK r : r = lockq' /\ r = Append(q, p)
  BY <1>1
<1>3. /\ r \in Seq(Process) /\ Once(r) /\ r # <<>>
      /\ \A x : Stands(r, x) <=> Stands(q, x) \/ x = p
      /\ q # <<>> => Head(r) = Head(q)
      /\ q = <<>> => Head(r) = p
      /\ \A x, y : Ahead(q, x, y) /\ Stands(q, x) => Ahead(r, x, y)
  BY <1>1, <1>2, Joining
<1> QED BY <1>1, <1>2, <1>3 DEF QueueMoves, InQueue, Holds, Behind

LEMMA Left ==
  ASSUME QueueOk, NEW p, Holds(p), lockq' = Tail(lockq)
  PROVE  QueueMoves({p}, {})
<1>1. PICK q \in Seq(Process) : q = lockq /\ Once(q) /\ q # <<>> /\ Head(q) = p
  BY DEF QueueOk, Holds
<1>2. PICK r : r = lockq' /\ r = Tail(q)
  BY <1>1
<1>3. /\ r \in Seq(Process) /\ Once(r)
      /\ \A x : Stands(r, x) <=> Stands(q, x) /\ x # p
      /\ \A x, y : Ahead(q, x, y) /\ x # p => Ahead(r, x, y)
  BY <1>1, <1>2, Leaving
<1> QED BY <1>1, <1>2, <1>3 DEF QueueMoves, InQueue, Holds, Behind

LEMMA Swapped ==
  ASSUME QueueOk, NEW p, NEW s \in Process, Holds(p), ~InQueue(s), lockq' = Append(Tail(lockq), s)
  PROVE  QueueMoves({p}, {s})
<1>1. PICK q \in Seq(Process) : q = lockq /\ Once(q) /\ q # <<>> /\ Head(q) = p /\ ~Stands(q, s)
  BY DEF QueueOk, Holds, InQueue
<1>2. PICK t : t = Tail(q)
  OBVIOUS
<1>3. /\ t \in Seq(Process) /\ Once(t)
      /\ \A x : Stands(t, x) <=> Stands(q, x) /\ x # p
      /\ \A x, y : Ahead(q, x, y) /\ x # p => Ahead(t, x, y)
  BY <1>1, <1>2, Leaving
<1>4. PICK r : r = lockq' /\ r = Append(t, s)
  BY <1>1, <1>2
<1>5. ~Stands(t, s)
  BY <1>1, <1>3
<1>6. /\ r \in Seq(Process) /\ Once(r)
      /\ \A x : Stands(r, x) <=> Stands(t, x) \/ x = s
      /\ \A x, y : Ahead(t, x, y) /\ Stands(t, x) => Ahead(r, x, y)
  BY <1>3, <1>4, <1>5, Joining
<1> QED BY <1>1, <1>3, <1>4, <1>6 DEF QueueMoves, InQueue, Holds, Behind

\* What an attempt does to the queue
PadOut(c) == IF attempt[c] \in {"added", "full"} THEN {AddPad(c)}
             ELSE IF attempt[c] = "give_wait" THEN {GiveBack(c)} ELSE {}
PadJoin(c, y) == IF y = "give_wait" THEN {GiveBack(c)}
                 ELSE IF attempt[c] = "opening" /\ y # "closing" THEN {AddPad(c)} ELSE {}

LEMMA PadMoves ==
  ASSUME QueueOk, NEW c \in Pads, NEW y, PadDoes(c, y), PadQueues(c, y)
  PROVE  QueueMoves(PadOut(c), PadJoin(c, y))
<1>0. c \in Controller /\ AddPad(c) \in Process /\ GiveBack(c) \in Process /\ Goes(attempt[c], y)
  BY PadsAreControllers, Processes DEF PadDoes
<1>1. /\ InQueue(AddPad(c)) => attempt[c] \in {"claim_wait", "added", "full"}
      /\ InQueue(GiveBack(c)) => attempt[c] = "give_wait"
      /\ attempt[c] \in {"added", "full"} => Holds(AddPad(c))
  BY <1>0 DEF QueueOk
<1>2. CASE attempt[c] = "opening" /\ y # "closing"
  <2>1. lockq' = Append(lockq, AddPad(c))
    BY <1>0, <1>2 DEF PadQueues, Goes
  <2>2. QueueMoves({}, {AddPad(c)})
    BY <1>0, <1>1, <1>2, <2>1, Joined
  <2> QED BY <1>0, <1>2, <2>2 DEF PadOut, PadJoin, Goes
<1>3. CASE attempt[c] \in {"claim_wait", "resumes", "closing"} \/ (attempt[c] = "opening" /\ y = "closing")
           \/ (attempt[c] = "device" /\ y # "give_wait")
  <2>1. lockq' = lockq
    BY <1>0, <1>3 DEF PadQueues, Goes
  <2> QED BY <1>0, <1>3, <2>1, QueueStays DEF PadOut, PadJoin, Goes
<1>4. CASE attempt[c] \in {"added", "full"} /\ y # "give_wait"
  <2>1. lockq' = Tail(lockq)
    BY <1>0, <1>4 DEF PadQueues, Goes
  <2>2. QueueMoves({AddPad(c)}, {})
    BY <1>1, <1>4, <2>1, Left
  <2> QED BY <1>0, <1>4, <2>2 DEF PadOut, PadJoin, Goes
<1>5. CASE attempt[c] = "added" /\ y = "give_wait"
  <2>1. lockq' = Append(Tail(lockq), GiveBack(c))
    BY <1>0, <1>5 DEF PadQueues, Goes
  <2>2. QueueMoves({AddPad(c)}, {GiveBack(c)})
    BY <1>0, <1>1, <1>5, <2>1, Swapped
  <2> QED BY <1>5, <2>2 DEF PadOut, PadJoin
<1>6. CASE attempt[c] = "device" /\ y = "give_wait"
  <2>1. lockq' = Append(lockq, GiveBack(c))
    BY <1>6 DEF PadQueues
  <2>2. QueueMoves({}, {GiveBack(c)})
    BY <1>0, <1>1, <1>6, <2>1, Joined
  <2> QED BY <1>6, <2>2 DEF PadOut, PadJoin
<1>7. CASE attempt[c] = "give_wait"
  <2>1. lockq' = Tail(lockq) /\ Holds(GiveBack(c))
    BY <1>7 DEF PadQueues
  <2>2. QueueMoves({GiveBack(c)}, {})
    BY <2>1, Left
  <2> QED BY <1>0, <1>7, <2>2 DEF PadOut, PadJoin, Goes
<1> QED BY <1>0, <1>2, <1>3, <1>4, <1>5, <1>6, <1>7 DEF Goes

\* Who has begun to remove a key joins the queue, with the lock or behind its holder.
LEMMA BeginMoves ==
  ASSUME QueueOk, NEW c \in Pads, NEW st, Begins(c, st)
  PROVE  QueueMoves({}, {RemovePad(KeyOf[c])}) /\ ~InQueue(RemovePad(KeyOf[c]))
<1>1. KeyOf[c] \in Key
  BY DEF Pads
<1>2. ~InQueue(RemovePad(KeyOf[c])) /\ lockq' = Append(lockq, RemovePad(KeyOf[c]))
  BY <1>1 DEF Begins, QueueOk
<1>3. RemovePad(KeyOf[c]) \in Process
  BY <1>1, Processes
<1> QED BY <1>2, <1>3, Joined

LEMMA QueueStep ==
  ASSUME CoreTyped, QueueOk, Effects
  PROVE  QueueOk'
<1> USE Processes
<1>1. ASSUME lockq' = lockq, attempt' = attempt,
             \A k \in Key : removal'[k].st = "leds" <=> removal[k].st = "leds",
             \A k \in Key : removal'[k].st \in {"wait", "leds"} <=> removal[k].st \in {"wait", "leds"}
      PROVE  QueueOk'
  BY <1>1 DEF QueueOk, InQueue, Holds
<1>2. CASE Rests \/ \E k \in Key : Overtakes(k)
  BY <1>1, <1>2 DEF Rests, Overtakes
<1>3. ASSUME NEW k \in Key, Ends(k) PROVE QueueOk'
  <2>1. \A l \in Key : removal'[l] = IF l = k THEN NoRemoval ELSE removal[l]
    BY <1>3 DEF Ends, CoreTyped
  <2> QED BY <1>1, <1>3, <2>1 DEF Ends, NoRemoval
<1>4. ASSUME NEW k \in Key, NEW c \in Pads, GetsLock(k, c) PROVE QueueOk'
  <2>1. \A l \in Key : removal'[l].st = IF l = k THEN "leds" ELSE removal[l].st
    BY <1>4 DEF GetsLock, CoreTyped, Removals
  <2> QED BY <1>4, <2>1 DEF GetsLock, QueueOk, InQueue, Holds
<1>5. ASSUME NEW S, Opens(S) PROVE QueueOk'
  <2>1. \A c \in Controller : attempt'[c] = attempt[c] \/ (attempt[c] = "unused" /\ attempt'[c] = "opening")
    BY <1>5 DEF Opens, Fresh, CoreTyped
  <2> QED BY <1>5, <2>1 DEF Opens, QueueOk, InQueue, Holds
<1>6. ASSUME NEW c \in Pads, NEW st \in {"leds", "wait"}, Begins(c, st) PROVE QueueOk'
  <2>0. PICK k \in Key : k = KeyOf[c]
    BY DEF Pads
  <2>1. QueueMoves({}, {RemovePad(k)})
    BY <1>6, <2>0, BeginMoves
  <2>2. \A l \in Key : removal'[l].st = IF l = k THEN st ELSE removal[l].st
    BY <1>6, <2>0 DEF Begins, CoreTyped, Removals
  <2>3. attempt' = attempt /\ (st = "leds" => lockq = <<>>)
    BY <1>6 DEF Begins
  <2>4. st = "leds" => Holds(RemovePad(k))'
    BY <2>1, <2>3 DEF QueueMoves
  <2> QED BY <2>0, <2>1, <2>2, <2>3, <2>4 DEF QueueMoves, QueueOk
<1>7. ASSUME NEW k \in Key, LetsGo(k) PROVE QueueOk'
  <2>1. Holds(RemovePad(k)) /\ lockq' = Tail(lockq) /\ attempt' = attempt
    BY <1>7 DEF LetsGo, QueueOk
  <2>2. QueueMoves({RemovePad(k)}, {})
    BY <2>1, Left
  <2>3. \A l \in Key : removal'[l].st = IF l = k THEN "closing" ELSE removal[l].st
    BY <1>7 DEF LetsGo, CoreTyped, Removals
  <2> QED BY <2>1, <2>2, <2>3 DEF QueueMoves, QueueOk
<1>8. ASSUME NEW c \in Pads, NEW y, PadDoes(c, y), PadQueues(c, y) PROVE QueueOk'
  <2>0. c \in Controller /\ Goes(attempt[c], y)
    BY <1>8, PadsAreControllers DEF PadDoes
  <2>1. QueueMoves(PadOut(c), PadJoin(c, y))
    BY <1>8, PadMoves
  <2>2. (\A d \in Controller : attempt'[d] = IF d = c THEN y ELSE attempt[d]) /\ removal' = removal
    BY <1>8, <2>0 DEF PadDoes, AttemptGoto, CoreTyped
  <2>3. PadOut(c) \subseteq {AddPad(c), GiveBack(c)} /\ PadJoin(c, y) \subseteq {AddPad(c), GiveBack(c)}
    BY DEF PadOut, PadJoin
  <2>4. lockq' \in Seq(Process) /\ Once(lockq)'
    BY <2>1 DEF QueueMoves
  <2>5. \A k \in Key : /\ InQueue(RemovePad(k))' <=> InQueue(RemovePad(k))
                       /\ Holds(RemovePad(k)) => Holds(RemovePad(k))'
    BY <2>1, <2>3 DEF QueueMoves
  <2>6. ASSUME NEW d \in Controller, d # c
        PROVE  /\ InQueue(AddPad(d))' <=> InQueue(AddPad(d))
               /\ InQueue(GiveBack(d))' <=> InQueue(GiveBack(d))
               /\ Holds(AddPad(d)) => Holds(AddPad(d))'
    BY <2>1, <2>3, <2>6 DEF QueueMoves
  <2>7. /\ InQueue(AddPad(c))' => y \in {"claim_wait", "added", "full"}
        /\ InQueue(GiveBack(c))' => y = "give_wait"
    BY <2>0, <2>1 DEF QueueMoves, QueueOk, PadOut, PadJoin, Goes
  <2>8. ASSUME y \in {"added", "full"} PROVE Holds(AddPad(c))'
    <3>1. CASE attempt[c] = "opening"
      <4>1. lockq = <<>> /\ AddPad(c) \in PadJoin(c, y)
        BY <1>8, <2>8, <3>1 DEF PadQueues, PadJoin
      <4> QED BY <2>1, <4>1 DEF QueueMoves
    <3>2. CASE attempt[c] = "claim_wait"
      <4>1. Holds(AddPad(c)) /\ lockq' = lockq
        BY <1>8, <2>8, <3>2 DEF PadQueues
      <4> QED BY <4>1 DEF Holds
    <3> QED BY <2>0, <2>8, <3>1, <3>2 DEF Goes
  <2> QED BY <2>0, <2>2, <2>4, <2>5, <2>6, <2>7, <2>8 DEF QueueOk
<1> QED BY <1>2, <1>3, <1>4, <1>5, <1>6, <1>7, <1>8 DEF Effects, RemovalDoes

-----------------------------------------------------------------------------
(* The seats go on *)

\* A pad keeps its claim, or has none and drives nobody unless its attempt is over.
LEMMA ClaimsKept ==
  ASSUME SlotsInv, SeatsOk, Shrinks,
         \A c \in Pads :
           \/ /\ claimed'[c] = claimed[c] /\ (attempt'[c] \in Claiming <=> attempt[c] \in Claiming)
              /\ attempt[c] = "over" => attempt'[c] = "over"
           \/ /\ claimed'[c] = NoVc /\ attempt'[c] \notin Claiming
              /\ attempt'[c] = "over" \/ ~Driven(c)'
  PROVE  SeatsOk'
<1>0. NoVc \notin VcId /\ made \in Nat /\ NoVc <= made
  BY SlotsAssumption DEF VcId, NoVc, SlotsInv, SlotsTypeOK
<1>1. ASSUME NEW c, NEW v \in VcId, Drives(v, c)'
      PROVE  Drives(v, c) /\ members'[v] = members[v] /\ (InTable(v)' <=> InTable(v))
  BY <1>1 DEF Shrinks, Drives
<1>2. made' = made
  BY DEF Shrinks
<1>3. ASSUME NEW c \in Pads, NEW v \in VcId, Drives(v, c)'
      PROVE  /\ InTable(v)' /\ members'[v] = <<c>>
             /\ \A w \in VcId : Drives(w, c)' => v = w
             /\ attempt'[c] = "over" \/ (attempt'[c] \in Claiming /\ claimed'[c] = v)
  <2>1. Drives(v, c) /\ members'[v] = members[v] /\ (InTable(v)' <=> InTable(v)) /\ Driven(c)'
    BY <1>1, <1>3 DEF Driven
  <2>2. /\ InTable(v) /\ members[v] = <<c>> /\ \A w \in VcId : Drives(w, c) => v = w
        /\ attempt[c] = "over" \/ (attempt[c] \in Claiming /\ claimed[c] = v)
    BY <2>1 DEF SeatsOk
  <2>3. \A w \in VcId : Drives(w, c)' => v = w
    BY <1>1, <2>2
  <2> QED BY <2>1, <2>2, <2>3
<1>4. ASSUME NEW c \in Pads
      PROVE  /\ claimed'[c] # NoVc <=> attempt'[c] \in Claiming
             /\ claimed'[c] <= made'
             /\ \A d \in Pads, v \in VcId : claimed'[c] = v /\ Drives(v, d)' => c = d
  <2>1. /\ claimed[c] # NoVc <=> attempt[c] \in Claiming
        /\ claimed[c] <= made
        /\ \A d \in Pads, v \in VcId : claimed[c] = v /\ Drives(v, d) => c = d
    BY DEF SeatsOk
  <2>2. claimed'[c] = claimed[c] \/ claimed'[c] = NoVc
    OBVIOUS
  <2>3. \A d \in Pads, v \in VcId : claimed'[c] = v /\ Drives(v, d)' => c = d
    BY <1>0, <1>1, <2>1, <2>2
  <2>4. claimed'[c] <= made'
    BY <1>0, <1>2, <2>1, <2>2
  <2> QED BY <2>1, <2>3, <2>4
<1> QED BY <1>3, <1>4 DEF SeatsOk

\* Who takes a seat drives a new VirtualController.
LEMMA SeatClaimed ==
  ASSUME SlotsInv, CoreTyped, SeatsOk, NEW c \in Pads, TakesSeat(c), attempt[c] \notin Claiming \cup {"over"},
         AttemptGoto(c, "added"), claimed' = [claimed EXCEPT ![c] = NewVc]
  PROVE  SeatsOk' /\ Driven(c)' /\ OthersSit({c})
<1>0. PICK n \in VcId : n = NewVc
  BY DEF TakesSeat
<1>1. /\ made \in Nat /\ made' = n /\ n = made + 1 /\ NoVc \notin VcId /\ c \in Controller
      /\ members \in [VcId -> Seq(Controller)]
  BY <1>0, SlotsAssumption, PadsAreControllers DEF TakesSeat, NewVc, VcId, NoVc, SlotsInv, SlotsTypeOK
<1>2. \A v \in VcId : members'[v] = IF v = n THEN <<c>> ELSE members[v]
  BY <1>0, <1>1 DEF TakesSeat
<1>3. \A v \in VcId : InTable(v)' <=> InTable(v) \/ v = n
  BY <1>0 DEF TakesSeat
<1>4. /\ \A d \in Pads : claimed'[d] = IF d = c THEN n ELSE claimed[d]
      /\ \A d \in Pads : attempt'[d] = IF d = c THEN "added" ELSE attempt[d]
  BY <1>0, PadsAreControllers DEF CoreTyped, AttemptGoto
<1>5. \A d, v : v \in VcId => (Drives(v, d)' <=> IF v = n THEN d = c ELSE Drives(v, d))
  <2> TAKE d, v
  <2>1. Drives(n, d)' <=> d = c
    <3>1. members'[n] = <<c>>
      BY <1>2
    <3> QED BY <3>1 DEF Drives
  <2> QED BY <1>2, <2>1 DEF Drives
<1>6. \A v \in VcId : ~Drives(v, c)
  BY DEF SeatsOk
<1>7. ASSUME NEW d \in Pads, NEW v \in VcId, Drives(v, d)'
      PROVE  /\ InTable(v)' /\ members'[v] = <<d>>
             /\ \A w \in VcId : Drives(w, d)' => v = w
             /\ attempt'[d] = "over" \/ (attempt'[d] \in Claiming /\ claimed'[d] = v)
  <2>1. CASE v = n
    <3>1. d = c
      BY <1>5, <1>7, <2>1
    <3> QED BY <1>2, <1>3, <1>4, <1>5, <1>6, <2>1, <3>1 DEF Claiming
  <2>2. CASE v # n
    <3>1. Drives(v, d) /\ d # c
      BY <1>5, <1>6, <1>7, <2>2
    <3>2. /\ InTable(v) /\ members[v] = <<d>> /\ \A w \in VcId : Drives(w, d) => v = w
          /\ attempt[d] = "over" \/ (attempt[d] \in Claiming /\ claimed[d] = v)
      BY <3>1 DEF SeatsOk
    <3> QED BY <1>2, <1>3, <1>4, <1>5, <2>2, <3>1, <3>2
  <2> QED BY <2>1, <2>2
<1>8. ASSUME NEW d \in Pads
      PROVE  /\ claimed'[d] # NoVc <=> attempt'[d] \in Claiming
             /\ claimed'[d] <= made'
             /\ \A e \in Pads, v \in VcId : claimed'[d] = v /\ Drives(v, e)' => d = e
  <2>1. CASE d = c
    <3>1. claimed'[d] = n /\ attempt'[d] = "added"
      BY <1>4, <2>1
    <3>2. \A e \in Pads, v \in VcId : claimed'[d] = v /\ Drives(v, e)' => d = e
      BY <1>5, <2>1, <3>1
    <3>3. claimed'[d] # NoVc /\ claimed'[d] <= made'
      BY <1>1, <3>1
    <3> QED BY <3>1, <3>2, <3>3 DEF Claiming
  <2>2. CASE d # c
    <3>1. /\ claimed[d] # NoVc <=> attempt[d] \in Claiming
          /\ claimed[d] <= made /\ claimed[d] \in VcId \cup {NoVc}
          /\ \A e \in Pads, v \in VcId : claimed[d] = v /\ Drives(v, e) => d = e
      BY PadsAreControllers DEF SeatsOk, CoreTyped
    <3>2. claimed'[d] = claimed[d] /\ attempt'[d] = attempt[d]
      BY <1>4, <2>2
    <3>3. claimed[d] # n /\ claimed[d] <= n
      BY <1>1, <3>1 DEF VcId, NoVc
    <3>4. \A e \in Pads, v \in VcId : claimed'[d] = v /\ Drives(v, e)' => d = e
      BY <1>5, <3>1, <3>2, <3>3
    <3> QED BY <1>1, <3>1, <3>2, <3>3, <3>4
  <2> QED BY <2>1, <2>2
<1>9. Driven(c)'
  BY <1>5 DEF Driven
<1>10. \A d \in Pads : ~Drives(n, d)
  BY <1>0 DEF SeatsOk, TakesSeat
<1>11. OthersSit({c})
  BY <1>5, <1>10 DEF OthersSit, Driven
<1> QED BY <1>7, <1>8, <1>9, <1>11 DEF SeatsOk

LEMMA SeatsStep ==
  ASSUME SlotsInv, CoreTyped, SeatsOk, Effects
  PROVE  SeatsOk'
<1>1. ASSUME Shrinks, UNCHANGED <<attempt, claimed>> PROVE SeatsOk'
  BY <1>1, ClaimsKept
<1>2. CASE Rests \/ RemovalDoes \/ \E k \in Key : Overtakes(k)
  BY <1>1, <1>2 DEF Rests, RemovalDoes, Begins, GetsLock, LetsGo, Ends, Overtakes
<1>3. ASSUME NEW S, Opens(S) PROVE SeatsOk'
  <2>1. \A c \in Pads : attempt'[c] = attempt[c] \/ (attempt[c] = "unused" /\ attempt'[c] = "opening")
    BY <1>3, PadsAreControllers DEF Opens, Fresh, CoreTyped
  <2>2. Shrinks /\ claimed' = claimed
    BY <1>3 DEF Opens
  <2> QED BY <2>1, <2>2, ClaimsKept DEF Claiming
<1>4. ASSUME NEW c \in Pads, NEW y, PadDoes(c, y) PROVE SeatsOk'
  <2>0. c \in Controller /\ Goes(attempt[c], y) /\ AttemptGoto(c, y)
    BY <1>4, PadsAreControllers DEF PadDoes
  <2>1. CASE y = "added"
    <3>1. TakesSeat(c) /\ claimed' = [claimed EXCEPT ![c] = NewVc]
      BY <1>4, <2>1 DEF PadDoes
    <3>2. attempt[c] \notin Claiming \cup {"over"}
      BY <2>0, <2>1 DEF Goes, Claiming
    <3> QED BY <2>0, <2>1, <3>1, <3>2, SeatClaimed
  <2>2. CASE y # "added"
    <3>1. Shrinks /\ (y = "closing" => ~Driven(c)')
      BY <1>4, <2>2 DEF PadDoes
    <3>2. PICK v : claimed' = [claimed EXCEPT ![c] = v] /\ v = IF y \in Claiming THEN claimed[c] ELSE NoVc
      BY <1>4, <2>2 DEF PadDoes
    <3>3. \A d \in Pads : /\ claimed'[d] = IF d = c THEN v ELSE claimed[d]
                          /\ attempt'[d] = IF d = c THEN y ELSE attempt[d]
      BY <2>0, <3>2, PadsAreControllers DEF CoreTyped, AttemptGoto
    <3>4. CASE y \in Claiming
      <4>1. attempt[c] \in Claiming
        BY <2>0, <2>2, <3>4 DEF Goes, Claiming
      <4>2. \A d \in Pads : /\ claimed'[d] = claimed[d] /\ (attempt'[d] \in Claiming <=> attempt[d] \in Claiming)
                            /\ attempt[d] = "over" => attempt'[d] = "over"
        BY <3>2, <3>3, <3>4, <4>1 DEF Claiming
      <4> QED BY <3>1, <4>2, ClaimsKept
    <3>5. CASE y \in {"claim_wait", "full"}
      <4>1. attempt[c] \notin Claiming \cup {"over"} /\ claimed[c] = NoVc /\ y \notin Claiming
        BY <2>0, <3>5 DEF Goes, Claiming, SeatsOk
      <4>2. \A d \in Pads : /\ claimed'[d] = claimed[d] /\ (attempt'[d] \in Claiming <=> attempt[d] \in Claiming)
                            /\ attempt[d] = "over" => attempt'[d] = "over"
        BY <3>2, <3>3, <4>1 DEF Claiming
      <4> QED BY <3>1, <4>2, ClaimsKept
    <3>6. CASE y \in {"closing", "over"}
      <4>1. \A d \in Pads \ {c} : claimed'[d] = claimed[d] /\ attempt'[d] = attempt[d]
        BY <3>3
      <4>2. claimed'[c] = NoVc /\ attempt'[c] \notin Claiming /\ (attempt'[c] = "over" \/ ~Driven(c)')
        BY <3>1, <3>2, <3>3, <3>6 DEF Claiming
      <4>3. \A d \in Pads :
               \/ /\ claimed'[d] = claimed[d] /\ (attempt'[d] \in Claiming <=> attempt[d] \in Claiming)
                  /\ attempt[d] = "over" => attempt'[d] = "over"
               \/ /\ claimed'[d] = NoVc /\ attempt'[d] \notin Claiming
                  /\ attempt'[d] = "over" \/ ~Driven(d)'
        <5> TAKE d \in Pads
        <5>1. CASE d = c
          BY <4>2, <5>1
        <5>2. CASE d # c
          BY <4>1, <5>2
        <5> QED BY <5>1, <5>2
      <4> QED BY <3>1, <4>3, ClaimsKept
    <3> QED BY <2>0, <2>2, <3>4, <3>5, <3>6 DEF Goes, Claiming
  <2> QED BY <2>1, <2>2
<1> QED BY <1>2, <1>3, <1>4 DEF Effects

\* What a step of an attempt does to who drives what
LEMMA PadSeats ==
  ASSUME SlotsInv, CoreTyped, SeatsOk, NEW c \in Pads, NEW y, PadDoes(c, y)
  PROVE  /\ \A d \in Pads : d # c => (Driven(d)' <=> Driven(d))
         /\ y = "added" => Driven(c)'
         /\ y \notin {"added", "closing"} => (Driven(c)' <=> Driven(c))
<1>1. CASE y = "added"
  <2>1. TakesSeat(c) /\ AttemptGoto(c, "added") /\ claimed' = [claimed EXCEPT ![c] = NewVc]
    BY <1>1 DEF PadDoes
  <2>2. attempt[c] \notin Claiming \cup {"over"}
    BY <1>1 DEF PadDoes, Goes, Claiming
  <2>3. Driven(c)' /\ OthersSit({c})
    BY <2>1, <2>2, SeatClaimed
  <2> QED BY <1>1, <2>3 DEF OthersSit
<1>2. CASE y # "added"
  BY <1>2 DEF PadDoes, OthersSit
<1> QED BY <1>1, <1>2

-----------------------------------------------------------------------------
(* The lives of the pads go on *)

LEMMA LivesStep ==
  ASSUME SlotsInv, CoreTyped, SeatsOk, LivesOk, Effects
  PROVE  LivesOk'
<1> USE PadsAreControllers
<1>0. /\ \A k \in Key : known[k] \subseteq Pads /\ removal[k].who \subseteq Pads
      /\ live \subseteq Pads /\ \A c \in Pads : KeyOf[c] \in Key
  BY DEF CoreTyped, Removals, Pads
<1>1. ASSUME live' \subseteq live, OthersSit({}), UNCHANGED <<known, attempt>>,
             \A k \in Key : /\ removal'[k].who = removal[k].who \/ removal'[k].who = {}
                            /\ removal'[k].st = "wait" => removal[k].st = "wait"
      PROVE  LivesOk'
  BY <1>0, <1>1 DEF LivesOk, OthersSit
<1>2. CASE Rests \/ \E k \in Key : Overtakes(k)
  BY <1>1, <1>2 DEF Rests, Overtakes
<1>3. ASSUME NEW k \in Key, Ends(k) PROVE LivesOk'
  <2>1. \A l \in Key : removal'[l] = IF l = k THEN NoRemoval ELSE removal[l]
    BY <1>3 DEF Ends, CoreTyped
  <2> QED BY <1>1, <1>3, <2>1 DEF Ends, NoRemoval
<1>4. ASSUME NEW k \in Key, LetsGo(k) PROVE LivesOk'
  <2>1. \A l \in Key : removal'[l].who = removal[l].who
                       /\ removal'[l].st = IF l = k THEN "closing" ELSE removal[l].st
    BY <1>4 DEF LetsGo, CoreTyped, Removals
  <2> QED BY <1>1, <1>4, <2>1 DEF LetsGo
<1>5. ASSUME NEW k \in Key, NEW c \in Pads, GetsLock(k, c) PROVE LivesOk'
  <2>1. \A l \in Key : removal'[l].who = removal[l].who
                       /\ removal'[l].st = IF l = k THEN "leds" ELSE removal[l].st
    BY <1>5 DEF GetsLock, CoreTyped, Removals
  <2>2. c \in live => attempt[c] = "over" /\ c \notin known[KeyOf[c]]
    BY <1>5 DEF GetsLock, LivesOk
  <2>3. UNCHANGED <<known, attempt, live>> /\ \A d \in Pads : d # c => (Driven(d)' <=> Driven(d))
    BY <1>5 DEF GetsLock, OthersSit
  <2> QED BY <1>0, <2>1, <2>2, <2>3 DEF LivesOk
<1>6. ASSUME NEW c \in Pads, NEW st \in {"leds", "wait"}, Begins(c, st) PROVE LivesOk'
  <2>0. PICK k \in Key : k = KeyOf[c]
    BY <1>0
  <2>1. /\ \A l \in Key : l # k => removal'[l] = removal[l]
        /\ removal'[k].who = {c} /\ removal'[k].st = st
    BY <1>6, <2>0 DEF Begins, CoreTyped
  <2>2. \A l \in Key : known'[l] = IF l = k THEN {} ELSE known[l]
    BY <1>6, <2>0 DEF Begins, CoreTyped
  <2>3. /\ live' \subseteq live /\ attempt' = attempt
        /\ c \notin live' \/ (c \in known[k] /\ attempt[c] = "over")
    BY <1>6, <2>0 DEF Begins, LivesOk
  <2>4. attempt[c] # "unused"
    BY <1>6, <2>0 DEF Begins, LivesOk
  <2>5. \A d \in Pads : d # c => (Driven(d)' <=> Driven(d))
    BY <1>6 DEF Begins, OthersSit
  <2>6. ASSUME NEW d \in live'
        PROVE  /\ attempt'[d] \notin {"unused", "full", "closing"}
               /\ attempt'[d] \in {"added", "device", "resumes"} => Driven(d)'
               /\ d \in known'[KeyOf[d]] => Driven(d)'
    BY <1>0, <2>0, <2>2, <2>3, <2>5 DEF LivesOk
  <2>7. ASSUME NEW l \in Key
        PROVE  \A d \in known'[l] : KeyOf[d] = l /\ attempt'[d] = "over" /\ known'[l] = {d}
    BY <2>2, <2>3 DEF LivesOk
  <2>8. ASSUME NEW l \in Key, NEW d \in removal'[l].who
        PROVE  /\ KeyOf[d] = l /\ attempt'[d] # "unused" /\ removal'[l].who = {d}
               /\ removal'[l].st = "wait" /\ d \in live' => attempt'[d] = "over" /\ d \notin known'[l]
    BY <2>0, <2>1, <2>2, <2>3, <2>4 DEF LivesOk
  <2> QED BY <2>6, <2>7, <2>8 DEF LivesOk
<1>7. ASSUME NEW S, Opens(S) PROVE LivesOk'
  <2>1. \A d \in Pads : \/ attempt'[d] = attempt[d] /\ (d \in live' => d \in live)
                        \/ attempt[d] = "unused" /\ attempt'[d] = "opening"
    BY <1>7 DEF Opens, Fresh, CoreTyped
  <2>2. UNCHANGED <<known, removal>> /\ live' \subseteq Pads /\ \A d \in Pads : Driven(d)' <=> Driven(d)
    BY <1>0, <1>7 DEF Opens, Fresh, OthersSit
  <2> QED BY <1>0, <2>1, <2>2 DEF LivesOk
<1>8. ASSUME NEW c \in Pads, NEW y, PadDoes(c, y) PROVE LivesOk'
  <2>0. PICK k \in Key : k = KeyOf[c]
    BY <1>0
  <2>1. Goes(attempt[c], y) /\ \A d \in Pads : attempt'[d] = IF d = c THEN y ELSE attempt[d]
    BY <1>8 DEF PadDoes, AttemptGoto, CoreTyped
  <2>2. /\ \A d \in Pads : d # c => (Driven(d)' <=> Driven(d))
        /\ y = "added" => Driven(c)'
        /\ y \notin {"added", "closing"} => (Driven(c)' <=> Driven(c))
    BY <1>8, PadSeats
  <2>3. /\ \A l \in Key : known'[l] = IF l = k /\ attempt[c] = "resumes" THEN {c} ELSE known[l]
        /\ removal' = removal /\ live' \subseteq live /\ (y \in {"closing", "full"} => c \notin live')
    BY <1>8, <2>0 DEF PadDoes, CoreTyped
  <2>4. c \notin known[k] /\ \A l \in Key : c \notin known[l]
    BY <2>0, <2>1 DEF LivesOk, Goes
  <2>5. ASSUME NEW d \in live'
        PROVE  /\ attempt'[d] \notin {"unused", "full", "closing"}
               /\ attempt'[d] \in {"added", "device", "resumes"} => Driven(d)'
               /\ d \in known'[KeyOf[d]] => Driven(d)'
    <3>1. CASE d # c
      BY <1>0, <2>0, <2>1, <2>2, <2>3, <3>1 DEF LivesOk
    <3>2. CASE d = c
      <4>1. attempt[c] \in {"added", "device", "resumes"} => Driven(c)
        BY <2>3, <3>2 DEF LivesOk
      <4>2. attempt'[c] = y /\ y \notin {"closing", "full", "unused"}
        BY <2>1, <2>3, <3>2 DEF Goes
      <4>3. y \in {"added", "device", "resumes"} => Driven(c)'
        BY <2>1, <2>2, <4>1 DEF Goes
      <4>4. c \in known'[k] => Driven(c)'
        BY <2>1, <2>2, <2>3, <2>4, <4>1 DEF Goes
      <4> QED BY <2>0, <3>2, <4>2, <4>3, <4>4
    <3> QED BY <3>1, <3>2
  <2>6. ASSUME NEW l \in Key, NEW d \in known'[l]
        PROVE  KeyOf[d] = l /\ attempt'[d] = "over" /\ known'[l] = {d}
    <3>1. CASE l = k /\ attempt[c] = "resumes"
      BY <2>0, <2>1, <2>3, <3>1 DEF Goes
    <3>2. CASE ~(l = k /\ attempt[c] = "resumes")
      <4>1. known'[l] = known[l] /\ d \in Pads /\ d # c
        BY <1>0, <2>3, <2>4, <3>2
      <4> QED BY <2>1, <4>1 DEF LivesOk
    <3> QED BY <3>1, <3>2
  <2>7. ASSUME NEW l \in Key, NEW d \in removal'[l].who
        PROVE  /\ KeyOf[d] = l /\ attempt'[d] # "unused" /\ removal'[l].who = {d}
               /\ removal'[l].st = "wait" /\ d \in live' => attempt'[d] = "over" /\ d \notin known'[l]
    <3>1. /\ KeyOf[d] = l /\ attempt[d] # "unused" /\ removal[l].who = {d} /\ d \in Pads
          /\ removal[l].st = "wait" /\ d \in live => attempt[d] = "over" /\ d \notin known[l]
      BY <1>0, <2>3 DEF LivesOk
    <3> QED BY <2>1, <2>3, <3>1 DEF Goes
  <2> QED BY <2>5, <2>6, <2>7 DEF LivesOk
<1> QED BY <1>2, <1>3, <1>4, <1>5, <1>6, <1>7, <1>8 DEF Effects, RemovalDoes

-----------------------------------------------------------------------------
(* The keys go on *)

\* Nothing new of a key
LEMMA KeyRests ==
  ASSUME NEW k \in Key, KeyOk(k), known'[k] = known[k], removal'[k] = removal[k],
         k \in adding' <=> k \in adding,
         \A c \in Pads : KeyOf[c] = k =>
           /\ attempt'[c] = attempt[c] /\ (Driven(c)' <=> Driven(c)) /\ (c \in live' => c \in live)
           /\ removal[k].st = "wait" /\ Behind(c, k) => Behind(c, k)'
  PROVE  KeyOk(k)'
BY DEF KeyOk

\* Who waits behind a removal that stays in the queue does so in what becomes of it.
LEMMA StaysBehind ==
  ASSUME QueueOk, NEW out, NEW join, QueueMoves(out, join), NEW k \in Key, removal[k].st = "wait",
         RemovePad(k) \notin out, NEW c, Behind(c, k)
  PROVE  Behind(c, k)'
BY DEF QueueOk, QueueMoves

\* When a removal of c begins, only c may be on its way and only c may be known.
LEMMA KeyBegins ==
  ASSUME CoreTyped, QueueOk, LivesOk, NEW c \in Pads, NEW st \in {"leds", "wait"}, Begins(c, st), KeyOk(KeyOf[c])
  PROVE  KeyOk(KeyOf[c])'
<1>0. PICK k \in Key : k = KeyOf[c]
  BY DEF Pads
<1>1. /\ removal[k].st = "none" /\ removal'[k].st = st /\ removal'[k].who = {c} /\ known'[k] = {}
      /\ c \in live \/ c \in known[k]
      /\ c \in known[k] \/ c \notin live'
      /\ live' \subseteq live /\ UNCHANGED <<adding, attempt>>
      /\ \A d \in Pads : d # c => (Driven(d)' <=> Driven(d))
      /\ st = "leds" => ~Driven(c)'
  BY <1>0 DEF Begins, CoreTyped, OthersSit
<1>2. QueueMoves({}, {RemovePad(k)})
  BY <1>0, <1>1, BeginMoves
<1>3. c \in known[k] \/ (attempt[c] \in Busy /\ known[k] = {})
  BY <1>0, <1>1 DEF KeyOk
<1>4. ASSUME NEW d \in Pads, KeyOf[d] = k, d # c PROVE d \notin known[k] /\ attempt[d] \notin Busy
  <2>1. d \notin known[k]
    BY <1>3, <1>4 DEF LivesOk
  <2>2. attempt[d] \notin Busy
    BY <1>0, <1>3, <1>4 DEF KeyOk
  <2> QED BY <2>1, <2>2
<1>5. ASSUME NEW d \in Pads, KeyOf[d] = k, d # c PROVE Behind(d, k)'
  <2>1. d \in Controller /\ ~InQueue(AddPad(d)) /\ AddPad(d) # RemovePad(k)
    BY <1>4, <1>5, PadsAreControllers, Processes DEF QueueOk, Busy, Claiming
  <2>2. ~InQueue(AddPad(d))'
    BY <1>2, <2>1 DEF QueueMoves
  <2> QED BY <2>2 DEF InQueue, Stands, Behind, Ahead
<1>6. ASSUME NEW d \in Pads, KeyOf[d] = k
      PROVE  /\ attempt'[d] \in Busy => k \in adding'
             /\ \A e \in Pads : KeyOf[e] = k /\ attempt'[d] \in Busy /\ attempt'[e] \in Busy => d = e
             /\ Driven(d)' => attempt'[d] \in Claiming \/ (removal'[k].st = "wait" /\ d \in removal'[k].who)
             /\ d \in live' => removal'[k].st \in {"wait", "leds"} /\ d \in removal'[k].who
             /\ removal'[k].st = "wait" /\ d \notin removal'[k].who =>
                  attempt'[d] \notin Claiming \cup {"full"} /\ Behind(d, k)'
  <2>1. CASE d = c
    BY <1>0, <1>1, <2>1 DEF KeyOk
  <2>2. CASE d # c
    <3>1. d \notin known[k] /\ attempt[d] \notin Busy /\ Behind(d, k)'
      BY <1>4, <1>5, <1>6, <2>2
    <3>2. ~Driven(d) /\ d \notin live
      BY <1>0, <1>1, <1>6, <3>1 DEF KeyOk, Busy
    <3> QED BY <1>1, <2>2, <3>1, <3>2 DEF Busy
  <2> QED BY <2>1, <2>2
<1>7. KeyOk(k)'
  BY <1>1, <1>6 DEF KeyOk
<1> QED BY <1>0, <1>7

\* A step of an attempt, for its key
LEMMA KeyPad ==
  ASSUME SlotsInv, CoreTyped, QueueOk, SeatsOk, LivesOk,
         NEW c \in Pads, NEW y, PadDoes(c, y), PadQueues(c, y), KeyOk(KeyOf[c])
  PROVE  KeyOk(KeyOf[c])'
<1>0. PICK k \in Key : k = KeyOf[c]
  BY DEF Pads
<1>1. /\ Goes(attempt[c], y) /\ \A d \in Pads : attempt'[d] = IF d = c THEN y ELSE attempt[d]
      /\ removal' = removal /\ live' \subseteq live
      /\ k \in adding' <=> k \in adding /\ y # "over"
      /\ known'[k] = IF attempt[c] = "resumes" THEN {c} ELSE known[k]
  BY <1>0, PadsAreControllers DEF PadDoes, AttemptGoto, CoreTyped
<1>2. /\ \A d \in Pads : d # c => (Driven(d)' <=> Driven(d))
      /\ y \notin {"added", "closing"} => (Driven(c)' <=> Driven(c))
      /\ y = "closing" => ~Driven(c)'
  BY <1>1, PadSeats DEF PadDoes
<1>3. attempt[c] \in Busy /\ k \in adding /\ known[k] = {}
  BY <1>0, <1>1 DEF Goes, Busy, Claiming, KeyOk
<1>4. \A d \in Pads : KeyOf[d] = k /\ d # c => attempt[d] \notin Busy
  BY <1>0, <1>3 DEF KeyOk
<1>5. QueueMoves(PadOut(c), PadJoin(c, y)) /\ RemovePad(k) \notin PadOut(c)
  BY PadMoves, Processes DEF PadOut
<1>6. ASSUME removal[k].st = "wait", c \notin removal[k].who
      PROVE  attempt[c] # "resumes" /\ y \notin Claiming \cup {"full"}
  <2>1. attempt[c] \notin Claiming /\ Behind(c, k) /\ InQueue(RemovePad(k))
    BY <1>0, <1>6 DEF KeyOk, QueueOk
  <2>2. lockq \in Seq(Process) /\ (lockq # <<>> => ~Holds(AddPad(c)))
    <3>1. lockq \in Seq(Process)
      BY DEF QueueOk
    <3> QED BY <2>1, <3>1, NobodyAhead DEF Behind, Holds
  <2>3. lockq # <<>>
    BY <2>1 DEF InQueue, Stands
  <2>4. y \notin {"added", "full"}
    BY <2>2, <2>3 DEF PadQueues, Holds
  <2> QED BY <1>1, <2>1, <2>4 DEF Goes, Claiming
<1>7. ASSUME NEW d \in Pads, KeyOf[d] = k, removal[k].st = "wait", d \notin removal[k].who
      PROVE  d \notin known'[k] /\ attempt'[d] \notin Claiming \cup {"full"} /\ Behind(d, k)'
  <2>1. d \notin known[k] /\ attempt[d] \notin Claiming \cup {"full"} /\ Behind(d, k)
    BY <1>0, <1>7 DEF KeyOk
  <2>2. Behind(d, k)'
    BY <1>5, <1>7, <2>1, StaysBehind
  <2>3. CASE d = c
    BY <1>1, <1>3, <1>6, <1>7, <2>2, <2>3
  <2>4. CASE d # c
    <3>1. d \notin known'[k]
      BY <1>1, <1>3, <2>4
    <3> QED BY <1>1, <2>1, <2>2, <2>4, <3>1
  <2> QED BY <2>3, <2>4
<1>8. y = "over" \/ (y \in Busy /\ attempt[c] # "resumes")
  BY <1>1 DEF Goes, Busy, Claiming
<1>9. ASSUME NEW d \in Pads, KeyOf[d] = k
      PROVE  /\ attempt'[d] \in Busy => k \in adding'
             /\ \A e \in Pads : KeyOf[e] = k /\ attempt'[d] \in Busy /\ attempt'[e] \in Busy => d = e
  BY <1>1, <1>3, <1>4, <1>8, <1>9 DEF Busy, Claiming
<1>10. ASSUME NEW d \in Pads, KeyOf[d] = k, Driven(d)'
       PROVE  \/ attempt'[d] \in Claiming \/ d \in known'[k]
              \/ removal[k].st = "wait" /\ d \in removal[k].who
  <2>1. Driven(d) => \/ attempt[d] \in Claiming
                     \/ removal[k].st = "wait" /\ d \in removal[k].who
    BY <1>0, <1>3, <1>10 DEF KeyOk
  <2>2. CASE d # c
    BY <1>1, <1>2, <1>10, <2>1, <2>2, <1>4 DEF Busy
  <2>3. CASE d = c
    <3>1. y \in Claiming \/ y \in {"claim_wait", "full", "over"}
      BY <1>1, <1>2, <1>10, <2>3 DEF Goes, Claiming
    <3>2. y \in {"claim_wait", "full", "over"} => attempt[c] = "resumes" \/ attempt[c] \notin Claiming
      BY <1>1 DEF Goes, Claiming
    <3> QED BY <1>1, <1>2, <1>10, <2>1, <2>3, <3>1, <3>2
  <2> QED BY <2>2, <2>3
<1>11. ASSUME NEW d \in Pads, KeyOf[d] = k, d \in live'
       PROVE  \/ attempt'[d] \in Busy \/ d \in known'[k]
              \/ removal[k].st \in {"wait", "leds"} /\ d \in removal[k].who
  <2>1. CASE d # c
    BY <1>0, <1>1, <1>3, <1>4, <1>11, <2>1 DEF KeyOk
  <2>2. CASE d = c
    <3>1. attempt[c] \notin {"full", "closing"}
      BY <1>1, <1>11, <2>2 DEF LivesOk
    <3>2. y = "over" => attempt[c] = "resumes"
      BY <1>1, <3>1 DEF Goes
    <3> QED BY <1>1, <1>8, <2>2, <3>2
  <2> QED BY <2>1, <2>2
<1>12. known'[k] # {} => k \notin adding'
  BY <1>1, <1>3 DEF Goes
<1>13. KeyOk(k)'
  BY <1>1, <1>7, <1>9, <1>10, <1>11, <1>12 DEF KeyOk
<1> QED BY <1>0, <1>13

\* A scan that opens a new pad of a key, or none
LEMMA KeyOpens ==
  ASSUME CoreTyped, LivesOk, NEW S, Opens(S), NEW k \in Key, KeyOk(k)
  PROVE  KeyOk(k)'
<1>1. /\ k \in adding' <=> k \in adding \/ k \in S
      /\ k \in S => known[k] = {} /\ k \notin adding
      /\ UNCHANGED <<lockq, known, removal>> /\ \A d \in Pads : Driven(d)' <=> Driven(d)
  BY DEF Opens, OthersSit
<1>2. \A l \in S : KeyOf[NextPad(l)] = l /\ attempt[NextPad(l)] = "unused"
  BY DEF Opens, Fresh
<1>3. ASSUME NEW c \in Pads, KeyOf[c] = k
      PROVE  \/ attempt'[c] = attempt[c] /\ (c \in live' => c \in live)
             \/ attempt[c] = "unused" /\ attempt'[c] = "opening" /\ k \in S /\ c = NextPad(k)
  BY <1>2, <1>3, PadsAreControllers DEF Opens
<1>4. ASSUME NEW c \in Pads, KeyOf[c] = k, NEW d \in Pads, KeyOf[d] = k,
             attempt'[c] \in Busy, attempt'[d] \in Busy
      PROVE  c = d
  <2>1. attempt[c] \in Busy => k \notin S
    BY <1>1, <1>4 DEF KeyOk
  <2>2. attempt[d] \in Busy => k \notin S
    BY <1>1, <1>4 DEF KeyOk
  <2> QED BY <1>3, <1>4, <2>1, <2>2 DEF KeyOk
<1>5. ASSUME NEW c \in Pads, KeyOf[c] = k
      PROVE  /\ attempt'[c] \in Busy => k \in adding'
             /\ attempt[c] \in Claiming => attempt'[c] \in Claiming
             /\ attempt[c] \in Busy => attempt'[c] \in Busy
             /\ attempt[c] \notin Claiming \cup {"full"} => attempt'[c] \notin Claiming \cup {"full"}
             /\ c \in live' => c \in live \/ attempt'[c] \in Busy
             /\ Behind(c, k)' <=> Behind(c, k)
  <2>1. Behind(c, k)' <=> Behind(c, k)
    BY <1>1 DEF Behind
  <2>2. CASE attempt'[c] = attempt[c] /\ (c \in live' => c \in live)
    BY <1>1, <1>5, <2>1, <2>2 DEF KeyOk
  <2>3. CASE attempt[c] = "unused" /\ attempt'[c] = "opening" /\ k \in S
    BY <1>1, <2>1, <2>3 DEF Busy, Claiming
  <2> QED BY <1>3, <1>5, <2>2, <2>3
<1>6. known'[k] # {} => k \notin adding'
  BY <1>1 DEF KeyOk
<1> QED BY <1>1, <1>4, <1>5, <1>6 DEF KeyOk

LEMMA KeysStep ==
  ASSUME SlotsInv, CoreTyped, QueueOk, SeatsOk, LivesOk, KeysOk, Effects
  PROVE  KeysOk'
<1> SUFFICES ASSUME NEW k \in Key \ overdue' PROVE KeyOk(k)'
  BY DEF KeysOk
<1>0. /\ overdue \subseteq overdue' /\ k \in Key /\ KeyOk(k)
      /\ \A c \in Pads : KeyOf[c] \in Key
  <2>1. overdue \subseteq overdue'
    BY DEF Effects, RemovalDoes, Rests, Begins, GetsLock, LetsGo, Ends, PadDoes, Opens, Overtakes
  <2> QED BY <2>1 DEF KeysOk, Pads
<1>1. CASE Rests
  BY <1>0, <1>1, KeyRests DEF Rests, OthersSit, Behind
<1>2. ASSUME NEW l \in Key, Overtakes(l) PROVE KeyOk(k)'
  <2>1. k # l
    BY <1>2 DEF Overtakes
  <2> QED BY <1>0, <1>2, <2>1, KeyRests DEF Overtakes, OthersSit, Behind
<1>3. ASSUME NEW S, Opens(S) PROVE KeyOk(k)'
  BY <1>0, <1>3, KeyOpens
<1>4. ASSUME NEW c \in Pads, NEW st \in {"leds", "wait"}, Begins(c, st) PROVE KeyOk(k)'
  <2>1. CASE k = KeyOf[c]
    BY <1>0, <1>4, <2>1, KeyBegins
  <2>2. CASE k # KeyOf[c]
    <3>1. /\ known'[k] = known[k] /\ removal'[k] = removal[k] /\ adding' = adding /\ attempt' = attempt
          /\ live' \subseteq live /\ \A d \in Pads : KeyOf[d] = k => (Driven(d)' <=> Driven(d))
      BY <1>0, <1>4, <2>2 DEF Begins, CoreTyped, OthersSit
    <3>2. QueueMoves({}, {RemovePad(KeyOf[c])})
      BY <1>4, BeginMoves
    <3>3. \A d \in Pads : removal[k].st = "wait" /\ Behind(d, k) => Behind(d, k)'
      BY <1>0, <3>2, StaysBehind
    <3> QED BY <1>0, <3>1, <3>3, KeyRests
  <2> QED BY <2>1, <2>2
<1>5. ASSUME NEW l \in Key, NEW c \in Pads, GetsLock(l, c) PROVE KeyOk(k)'
  <2>1. /\ \A j \in Key : removal'[j].who = removal[j].who
                          /\ removal'[j].st = IF j = l THEN "leds" ELSE removal[j].st
        /\ \A j \in Key : j # l => removal'[j] = removal[j]
    BY <1>5 DEF GetsLock, CoreTyped, Removals
  <2>2. /\ UNCHANGED <<lockq, known, adding, attempt, live>>
        /\ \A d \in Pads : d # c => (Driven(d)' <=> Driven(d))
        /\ ~Driven(c)' /\ removal[l].st = "wait" /\ c \in removal[l].who
    BY <1>5 DEF GetsLock, OthersSit
  <2>3. KeyOf[c] = l /\ removal[l].who = {c}
    BY <2>2 DEF LivesOk
  <2>4. CASE k # l
    BY <1>0, <2>1, <2>2, <2>3, <2>4, KeyRests DEF Behind
  <2>5. CASE k = l
    BY <1>0, <2>1, <2>2, <2>3, <2>5 DEF KeyOk
  <2> QED BY <2>4, <2>5
<1>6. ASSUME NEW l \in Key, LetsGo(l) PROVE KeyOk(k)'
  <2>1. /\ \A j \in Key : removal'[j].who = removal[j].who
                          /\ removal'[j].st = IF j = l THEN "closing" ELSE removal[j].st
        /\ \A j \in Key : j # l => removal'[j] = removal[j]
        /\ removal[l].st = "leds"
    BY <1>6 DEF LetsGo, CoreTyped, Removals
  <2>2. /\ UNCHANGED <<known, adding, attempt>> /\ live' = live \ removal[l].who
        /\ \A d \in Pads : Driven(d)' <=> Driven(d)
    BY <1>6 DEF LetsGo, OthersSit
  <2>3. CASE k # l
    <3>1. Holds(RemovePad(l)) /\ lockq' = Tail(lockq)
      BY <1>6 DEF LetsGo, QueueOk
    <3>2. QueueMoves({RemovePad(l)}, {}) /\ RemovePad(k) \notin {RemovePad(l)}
      BY <2>3, <3>1, Left, Processes
    <3>3. \A d \in Pads : removal[k].st = "wait" /\ Behind(d, k) => Behind(d, k)'
      BY <1>0, <3>2, StaysBehind
    <3> QED BY <1>0, <2>1, <2>2, <2>3, <3>3, KeyRests
  <2>4. CASE k = l
    BY <1>0, <2>1, <2>2, <2>4 DEF KeyOk
  <2> QED BY <2>3, <2>4
<1>7. ASSUME NEW l \in Key, Ends(l) PROVE KeyOk(k)'
  <2>1. /\ \A j \in Key : removal'[j] = IF j = l THEN NoRemoval ELSE removal[j]
        /\ removal[l].st = "closing"
    BY <1>7 DEF Ends, CoreTyped
  <2>2. UNCHANGED <<lockq, known, adding, attempt, live>> /\ \A d \in Pads : Driven(d)' <=> Driven(d)
    BY <1>7 DEF Ends, OthersSit
  <2>3. CASE k # l
    BY <1>0, <2>1, <2>2, <2>3, KeyRests DEF Behind
  <2>4. CASE k = l
    BY <1>0, <2>1, <2>2, <2>4 DEF KeyOk, NoRemoval
  <2> QED BY <2>3, <2>4
<1>8. ASSUME NEW c \in Pads, NEW y, PadDoes(c, y), PadQueues(c, y) PROVE KeyOk(k)'
  <2>1. CASE k = KeyOf[c]
    BY <1>0, <1>8, <2>1, KeyPad
  <2>2. CASE k # KeyOf[c]
    <3>1. /\ known'[k] = known[k] /\ removal' = removal /\ (k \in adding' <=> k \in adding)
          /\ live' \subseteq live /\ \A d \in Pads : KeyOf[d] = k => attempt'[d] = attempt[d]
      BY <1>0, <1>8, <2>2, PadsAreControllers DEF PadDoes, AttemptGoto, CoreTyped
    <3>2. \A d \in Pads : KeyOf[d] = k => (Driven(d)' <=> Driven(d))
      BY <1>8, <2>2, PadSeats
    <3>3. QueueMoves(PadOut(c), PadJoin(c, y)) /\ RemovePad(k) \notin PadOut(c)
      BY <1>8, PadMoves, Processes DEF PadOut
    <3>4. \A d \in Pads : removal[k].st = "wait" /\ Behind(d, k) => Behind(d, k)'
      BY <1>0, <3>3, StaysBehind
    <3> QED BY <1>0, <3>1, <3>2, <3>4, KeyRests
  <2> QED BY <2>1, <2>2
<1> QED BY <1>1, <1>2, <1>3, <1>4, <1>5, <1>6, <1>7, <1>8 DEF Effects, RemovalDoes

-----------------------------------------------------------------------------
(* The theorems *)

LEMMA WiredStart ==
  ASSUME SlotsInit, WiredInit
  PROVE  WiredInv
<1> USE DEF SlotsInit, WiredInit
<1>0. NoVc \notin VcId /\ NoVc = 0 /\ NoVc <= made
  BY DEF VcId, NoVc
<1>1. SlotsInv
  <2>1. SlotsTypeOK
    <3>1. 0 \in 0 .. Slots /\ 0 \in 0 .. MaxVc
      BY SlotsAssumption
    <3> QED BY <3>1 DEF SlotsTypeOK, NoVc
  <2> QED BY <2>1 DEF SlotsInv, OncePerTable, NoVc
<1>2. /\ \A k \in Key : known[k] = {} /\ removal[k] = NoRemoval
      /\ \A c \in Controller : attempt[c] = "unused" /\ claimed[c] = NoVc
      /\ \A v \in VcId, c \in Controller : ~Drives(v, c)
  BY DEF Drives
<1>3. Cardinality({}) <= 1
  BY FS_EmptySet
<1>4. CoreTyped
  BY <1>2, <1>3 DEF CoreTyped, Attempts, Removals, NoRemoval
<1>5. ScanTyped
  BY WiredAssumption DEF ScanTyped
<1>6. /\ lockq \in Seq(Process) /\ Once(lockq) /\ \A p : ~InQueue(p)
  BY EmptySeq DEF Once, InQueue, Stands
<1>7. QueueOk
  BY <1>2, <1>6 DEF QueueOk, NoRemoval
<1>8. SeatsOk
  BY <1>0, <1>2, PadsAreControllers DEF SeatsOk, Claiming
<1>9. LivesOk
  BY <1>2 DEF LivesOk, NoRemoval
<1>10. KeysOk
  BY <1>2, PadsAreControllers DEF KeysOk, KeyOk, Driven, Busy, Claiming, NoRemoval
<1> QED BY <1>1, <1>4, <1>5, <1>7, <1>8, <1>9, <1>10 DEF WiredInv

\* Whatever the pads, the watcher and the removals do, WiredInv holds.
THEOREM WiredInvariance == WiredSpec => []WiredInv
<1>1. SlotsInit /\ WiredInit => WiredInv
  BY WiredStart
<1>2. WiredInv /\ [WiredNext]_wiredVars => WiredInv'
  <2> SUFFICES ASSUME WiredInv, [WiredNext]_wiredVars PROVE WiredInv'
    OBVIOUS
  <2>1. SlotsInv /\ CoreTyped /\ ScanTyped /\ QueueOk /\ SeatsOk /\ LivesOk /\ KeysOk
    BY DEF WiredInv
  <2>2. SlotsInv' /\ Effects
    BY <2>1, StepEffects
  <2>3. ScanTyped'
    BY <2>1, ScanStepTyped
  <2>4. CoreTyped' /\ QueueOk' /\ SeatsOk'
    BY <2>1, <2>2, CoreStep, QueueStep, SeatsStep
  <2>5. LivesOk' /\ KeysOk'
    BY <2>1, <2>2, LivesStep, KeysStep
  <2> QED BY <2>2, <2>3, <2>4, <2>5 DEF WiredInv
<1> QED BY <1>1, <1>2, PTL DEF WiredSpec

\* Two pads of one key that has not been given away do not drive a slot each.
LEMMA OneSlot ==
  ASSUME WiredInv
  PROVE  OneSlotPerPad
<1> SUFFICES ASSUME NEW c \in Pads, NEW d \in Pads, KeyOf[c] = KeyOf[d], KeyOf[c] \notin overdue,
                    Driven(c), Driven(d)
             PROVE  c = d
  BY DEF OneSlotPerPad, VcOf, Driven
<1>1. PICK k \in Key : k = KeyOf[c] /\ k \notin overdue
  BY DEF Pads
<1>2. KeyOk(k)
  BY <1>1 DEF WiredInv, KeysOk
<1>3. ASSUME NEW e \in Pads, KeyOf[e] = k, NEW f \in Pads, KeyOf[f] = k, Driven(f), attempt[e] \in Claiming
      PROVE  e = f
  <2>1. known[k] = {} /\ attempt[e] \in Busy
    BY <1>2, <1>3 DEF KeyOk, Busy
  <2>2. CASE attempt[f] \in Claiming
    BY <1>2, <1>3, <2>1, <2>2 DEF KeyOk, Busy
  <2>3. CASE removal[k].st = "wait" /\ f \in removal[k].who
    <3>1. e \in removal[k].who
      BY <1>2, <1>3, <2>3 DEF KeyOk
    <3> QED BY <2>3, <3>1 DEF WiredInv, LivesOk
  <2> QED BY <1>2, <1>3, <2>1, <2>2, <2>3 DEF KeyOk
<1>4. ASSUME NEW e \in Pads, KeyOf[e] = k, NEW f \in Pads, KeyOf[f] = k, e \in known[k],
             f \in known[k] \/ (removal[k].st = "wait" /\ f \in removal[k].who)
      PROVE  e = f
  <2>1. CASE f \in known[k]
    BY <1>4, <2>1 DEF WiredInv, LivesOk
  <2>2. CASE removal[k].st = "wait" /\ f \in removal[k].who
    <3>1. e \in removal[k].who
      BY <1>2, <1>4, <2>2 DEF KeyOk
    <3> QED BY <2>2, <3>1 DEF WiredInv, LivesOk
  <2> QED BY <1>4, <2>1, <2>2
<1>5. ASSUME NEW e \in Pads, KeyOf[e] = k, Driven(e)
      PROVE  \/ attempt[e] \in Claiming \/ e \in known[k]
             \/ removal[k].st = "wait" /\ e \in removal[k].who
  BY <1>2, <1>5 DEF KeyOk
<1>6. CASE attempt[c] \in Claiming \/ attempt[d] \in Claiming
  BY <1>1, <1>3, <1>6
<1>7. CASE c \in known[k] \/ d \in known[k]
  BY <1>1, <1>4, <1>5, <1>6, <1>7
<1>8. CASE c \in removal[k].who /\ d \in removal[k].who
  BY <1>8 DEF WiredInv, LivesOk
<1> QED BY <1>1, <1>5, <1>6, <1>7, <1>8

\* Once nothing is under way, who drives a slot is known, and who is known and lives drives one.
LEMMA QuietAgrees ==
  ASSUME WiredInv
  PROVE  SlotsMatchKnown
<1> SUFFICES ASSUME WiredQuiet, NEW c \in Pads, KeyOf[c] \notin overdue
             PROVE  /\ VcOf(c) # NoVc => c \in known[KeyOf[c]]
                    /\ c \in known[KeyOf[c]] \cap live => VcOf(c) # NoVc
  BY DEF SlotsMatchKnown
<1>1. PICK k \in Key : k = KeyOf[c] /\ KeyOk(k)
  BY DEF Pads, WiredInv, KeysOk
<1>2. attempt[c] \notin Claiming /\ removal[k].st = "none"
  BY PadsAreControllers DEF WiredQuiet, Claiming
<1>3. VcOf(c) # NoVc => Driven(c)
  BY DEF VcOf, Driven
<1>4. Driven(c) => c \in known[k]
  BY <1>1, <1>2 DEF KeyOk
<1>5. ASSUME c \in known[k], c \in live PROVE VcOf(c) # NoVc
  <2>1. PICK v \in VcId : Drives(v, c)
    BY <1>1, <1>5 DEF WiredInv, LivesOk, Driven
  <2>2. InTable(v) /\ \A w \in VcId : Drives(w, c) => w = v
    BY <2>1 DEF WiredInv, SeatsOk
  <2>3. VcOf(c) \in VcId
    BY <2>1, <2>2 DEF VcOf
  <2> QED BY <2>3 DEF VcId, NoVc
<1> QED BY <1>1, <1>3, <1>4, <1>5

\* A pad never drives two slots, however often it comes back, dies while it is added or is
\* removed meanwhile (_add, _remove), as long as its key has not been given away; and once
\* nothing is under way, the slots of the wired pads are those that "known" leads to.
THEOREM PadsStayInPlace == WiredSpec => []PadsInPlace
<1>1. WiredInv => PadsInPlace
  <2> SUFFICES ASSUME WiredInv PROVE PadsInPlace
    OBVIOUS
  <2>1. WiredTypeOK
    BY DEF WiredInv, SlotsInv, CoreTyped, ScanTyped, Removals, WiredTypeOK
  <2> QED BY <2>1, OneSlot, QuietAgrees DEF PadsInPlace
<1> QED BY <1>1, WiredInvariance, PTL

=============================================================================
