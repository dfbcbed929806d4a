----------------------------- MODULE PlayerSlots -----------------------------
(***************************************************************************)
(* The player-slot table VIRTUAL_CONTROLLERS of src/src/discoverer.py, the *)
(* asyncio lock GLOBAL_LOCK that every route takes before it touches the   *)
(* table, and the VirtualController objects (src/src/virtual_controller.py)*)
(* the slots hold.  Every discovery route claims, merges and frees slots   *)
(* through the operators of this module.                                   *)
(*                                                                         *)
(* A VirtualController is abstracted to the controllers it drives, its     *)
(* "running" flag, its player number and whether its virtual device        *)
(* (vg_controller) exists.                                                 *)
(***************************************************************************)
EXTENDS Naturals, Sequences, FiniteSets

CONSTANTS
  Controller,   \* Controller objects, one per connection attempt
  Kind,         \* what each controller is: "pro", "gamecube", "left", "right"
  Slots,        \* length of VIRTUAL_CONTROLLERS (10 in the code)
  MaxVc         \* bound: VirtualController objects ever created

Kinds == {"pro", "gamecube", "left", "right"}

ASSUME SlotsAssumption ==
  /\ Kind \in [Controller -> Kinds]
  /\ Slots \in Nat \ {0}
  /\ MaxVc \in Nat \ {0}

VARIABLES
  lockq,     \* GLOBAL_LOCK: its holder, then the waiters in FIFO order
  table,     \* slot -> the VirtualController in it, or NoVc
  made,      \* VirtualController objects created so far: 1 .. made
  members,   \* vc.controllers
  running,   \* vc.running
  device,    \* vc.vg_controller is not None
  player     \* vc.player_number

vcVars == <<table, made, members, running, device, player>>
slotVars == <<lockq, vcVars>>

Slot == 1 .. Slots
VcId == 1 .. MaxVc
NoVc == 0

(***************************************************************************)
(* asyncio.Lock: a coroutine that finds the lock free with nobody waiting  *)
(* goes on without suspending; the others are woken in FIFO order.         *)
(***************************************************************************)
LockFree == lockq = <<>>
Holds(p) == lockq # <<>> /\ Head(lockq) = p

-----------------------------------------------------------------------------
(* Reading the table *)

Occupied(t) == {i \in Slot : t[i] # NoVc}
InTable(v) == \E i \in Slot : table[i] = v
First(S) == CHOOSE i \in S : \A j \in S : i <= j

\* is_single_joycon_left / is_single_joycon_right
SingleOf(v, k) == Len(members[v]) = 1 /\ Kind[members[v][1]] = k

\* The VirtualController of the table that drives c, NoVc when none does.
Drives(v, c) == \E n \in DOMAIN members[v] : members[v][n] = c
VcOf(c) == IF \E v \in VcId : InTable(v) /\ Drives(v, c)
           THEN CHOOSE v \in VcId : InTable(v) /\ Drives(v, c)
           ELSE NoVc

\* get_priority(): Pro, GameCube, merged pair, single left, single right.
\* A VirtualController whose controllers were cleared sorts as a pair.
Priority(ms) ==
  IF Len(ms) # 1 THEN 2
  ELSE CASE Kind[ms[1]] = "pro"      -> 0
         [] Kind[ms[1]] = "gamecube" -> 1
         [] Kind[ms[1]] = "left"     -> 3
         [] OTHER                    -> 4

\* Stable sort by priority, compacted to the front of the table.
Rank(t, m, i) ==
  Cardinality({j \in Occupied(t) :
    \/ Priority(m[t[j]]) < Priority(m[t[i]])
    \/ Priority(m[t[j]]) = Priority(m[t[i]]) /\ j <= i})

Reordered(t, m) ==
  [k \in Slot |-> LET at == {i \in Occupied(t) : Rank(t, m, i) = k}
                  IN  IF at = {} THEN NoVc ELSE t[First(at)]]

\* vc.player_number = i + 1 for every occupied slot (0: not in the table).
Numbered(t) ==
  [v \in VcId |-> IF \E i \in Slot : t[i] = v
                  THEN CHOOSE i \in Slot : t[i] = v
                  ELSE 0]

\* reorder_controllers() on the table t that this step leaves
Reorder(t, m) ==
  /\ table' = Reordered(t, m)
  /\ player' = Numbered(Reordered(t, m))

-----------------------------------------------------------------------------
(* Changing the table; each operator is a whole critical section's effect  *)

\* list.remove: the first occurrence of c in ms, which has one
Without(ms, c) ==
  LET n == First({k \in DOMAIN ms : ms[k] = c})
  IN  SubSeq(ms, 1, n - 1) \o SubSeq(ms, n + 1, Len(ms))

\* (mutation) the slot is emptied although a controller remains
EvictWholeSlot(c) ==
  LET v == VcOf(c) IN
  IF v = NoVc
  THEN UNCHANGED vcVars
  ELSE /\ members' = [members EXCEPT ![v] = Without(@, c)]
       /\ running' = [running EXCEPT ![v] = FALSE]
       /\ device' = [device EXCEPT ![v] = FALSE]
       /\ table' = [i \in Slot |-> IF table[i] = v THEN NoVc ELSE table[i]]
       /\ UNCHANGED <<made, player>>

\* VirtualController.remove_controller on whichever slot drives c, and the
\* slot emptied when it was the last one: running is cleared and the virtual
\* device destroyed under the same state_lock.
Evict(c) ==
  LET v == VcOf(c)
      left == Without(members[v], c)
  IN  IF v = NoVc
      THEN UNCHANGED vcVars
      ELSE /\ members' = [members EXCEPT ![v] = left]
           /\ UNCHANGED <<made, player>>
           /\ IF left = <<>>
              THEN /\ running' = [running EXCEPT ![v] = FALSE]
                   /\ device' = [device EXCEPT ![v] = FALSE]
                   /\ table' = [i \in Slot |-> IF table[i] = v THEN NoVc ELSE table[i]]
              ELSE UNCHANGED <<running, device, table>>

\* VirtualController(slot_index + 1, [c], ..., setup_usb=False): a new object,
\* running, without a virtual device.
NewVc == made + 1
Create(c) ==
  /\ made < MaxVc /\ made' = NewVc
  /\ members' = [members EXCEPT ![NewVc] = <<c>>]
  /\ running' = [running EXCEPT ![NewVc] = TRUE]
  /\ UNCHANGED device

\* (mutation) the device is created whether or not the slot is still running
AttemptedAlways(dev, v) == {dev, [dev EXCEPT ![v] = TRUE]}

\* setup_virtual_device(): under state_lock, the device is created only while
\* the VirtualController is running (the driver may refuse), then probed.  dev
\* is the devices it starts from; it raises when no device answers.
Attempted(dev, v) == IF running[v] THEN {dev, [dev EXCEPT ![v] = TRUE]} ELSE {dev}
SetupSucceeds(v) == device' \in Attempted(device, v) /\ device'[v]
SetupRaises(v) == device' \in Attempted(device, v)

\* The players are 1, 2, ... without a hole, each VirtualController carrying the
\* number of its slot.
PlayersInOrder ==
  /\ \E n \in 0 .. Slots : Occupied(table) = 1 .. n
  /\ \A i \in Occupied(table) : player[table[i]] = i

-----------------------------------------------------------------------------
(* The abstract specification: the table without its order, the lock and the
   player numbers *)

Team(v) == IF InTable(v) THEN {members[v][n] : n \in DOMAIN members[v]} ELSE {}

Pool == INSTANCE SlotPool WITH
  Vc <- VcId,
  used <- 1 .. made,
  seated <- {v \in VcId : InTable(v)},
  team <- [v \in VcId |-> Team(v)],
  open <- {v \in VcId : running[v]},
  on <- {v \in VcId : device[v]}

\* Whoever claims, frees, splits or merges slots does to them what SlotPool allows:
\* a controller comes and leaves one at a time, a pair is a left and a right
\* Joy-Con, a freed or closed VirtualController never gets a device again.
ImplementsPool == Pool!Spec

-----------------------------------------------------------------------------
SlotsInit ==
  /\ lockq = <<>>
  /\ table = [i \in Slot |-> NoVc]
  /\ made = 0
  /\ members = [v \in VcId |-> <<>>]
  /\ running = [v \in VcId |-> FALSE]
  /\ device = [v \in VcId |-> FALSE]
  /\ player = [v \in VcId |-> 0]

SlotsTypeOK ==
  /\ table \in [Slot -> VcId \cup {NoVc}]
  /\ made \in 0 .. MaxVc
  /\ members \in [VcId -> Seq(Controller)]
  /\ running \in [VcId -> BOOLEAN]
  /\ device \in [VcId -> BOOLEAN]
  /\ player \in [VcId -> 0 .. Slots]

=============================================================================
