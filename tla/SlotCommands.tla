----------------------------- MODULE SlotCommands -----------------------------
(***************************************************************************)
(* The GUI's Split and Merge of player slots, beside the system-Bluetooth  *)
(* route.  A click is handled on the GUI thread (_on_split_clicked and     *)
(* _on_merge_clicked of src/src/gui.py): it turns the tile into a slot     *)
(* index and posts a coroutine to the discovery loop, where                *)
(* _split_controller_async or _merge_controllers_async of                  *)
(* src/src/discoverer.py waits for GLOBAL_LOCK and only then looks at what *)
(* the index now holds.                                                    *)
(*                                                                         *)
(* The "Switch1" emulation mode, which moves USB/IP servers between the    *)
(* two VirtualControllers instead of creating devices, is left out.        *)
(***************************************************************************)
EXTENDS SystemBtRoute

CONSTANT Command   \* coroutines the GUI posts, one per accepted click

VARIABLES
  phase,    \* where the coroutine of each command is
  slots,    \* its index arguments: <<i>> for a split, <<i, j>> for a merge
  first,    \* the VirtualController it keeps (vc, vc1)
  second,   \* the VirtualController a split creates (new_vc)
  moving    \* the Controller it moves (c2), as a sequence of at most one

cmdVars == <<phase, slots, first, second, moving>>
allVars == <<vars, cmdVars>>

Phases == {"idle", "posted", "wait", "split_keep", "split_new", "split_leds", "split_setup_first",
           "split_setup_second", "merge_init", "merge_leds", "merge_setup", "done"}

CommandsTypeOK ==
  /\ TypeOK
  /\ phase \in [Command -> Phases]
  /\ slots \in [Command -> Seq(Slot)]
  /\ first \in [Command -> VcId \cup {NoVc}]
  /\ second \in [Command -> VcId \cup {NoVc}]
  /\ moving \in [Command -> Seq(Controller)]

Cmd(g) == <<"cmd", g>>
Goto(g, p) == phase' = [phase EXCEPT ![g] = p]
OthersIdle == UNCHANGED <<taskVars, linkVars, closeVars, stopping>>

-----------------------------------------------------------------------------
(* The GUI thread *)

Post(g, args) ==
  /\ phase[g] = "idle"
  /\ slots' = [slots EXCEPT ![g] = args]
  /\ Goto(g, "posted")
  /\ UNCHANGED <<vars, first, second, moving>>

\* (mutation) the index is taken one too low
ClickSplitOffByOne(g) ==
  \E v \in VcId :
    /\ InTable(v) /\ Len(members[v]) > 1
    /\ Post(g, <<player[v] - 1>>)

\* The button is there for the tile of v; the index is its player number now.
ClickSplit(g) ==
  \E v \in VcId :
    /\ InTable(v) /\ Len(members[v]) > 1
    /\ Post(g, <<player[v]>>)

\* The second click: the first one left the index pending_merge_vc_index.
IsOpposite(v, w) ==
  \/ SingleOf(v, "left") /\ SingleOf(w, "right")
  \/ SingleOf(v, "right") /\ SingleOf(w, "left")

ClickMerge(g) ==
  \E pending \in Slot, v \in VcId :
    /\ InTable(v) /\ pending # player[v]
    /\ table[pending] # NoVc /\ IsOpposite(table[pending], v)
    /\ Post(g, IF pending < player[v] THEN <<pending, player[v]>> ELSE <<player[v], pending>>)

-----------------------------------------------------------------------------
(* _split_controller_async *)

IsSplit(g) == Len(slots[g]) = 1

\* The lock is released and the coroutine is over, by a return or an exception.
Leave(g, q) ==
  /\ lockq' = Tail(q)
  /\ Goto(g, "done")
  /\ moving' = [moving EXCEPT ![g] = <<>>]

\* vc.controllers.pop() takes the second half out before anything is awaited.
\* An empty slot or a single controller ends it; so does pop() on no controller.
SplitEntered(g, q) ==
  LET v == table[slots[g][1]] IN
  IF v = NoVc \/ Len(members[v]) < 2
  THEN Leave(g, q) /\ UNCHANGED <<vcVars, first, second>>
  ELSE /\ members' = [members EXCEPT ![v] = SubSeq(@, 1, Len(@) - 1)]
       /\ moving' = [moving EXCEPT ![g] = <<members[v][Len(members[v])]>>]
       /\ first' = [first EXCEPT ![g] = v]
       /\ Goto(g, "split_keep") /\ lockq' = q
       /\ UNCHANGED <<table, made, running, device, player, second>>

\* update_leds() writes to every controller of the slot and lets a failed write
\* escape: init_added_controller returns only with all links up, and may raise
\* (a write that times out, a link that is gone) at any time.
LedsWritten(v) == \A n \in DOMAIN members[v] : link[members[v][n]]

SplitKept(g) ==
  LET free == {i \in Slot : table[i] = NoVc} IN
  /\ phase[g] = "split_keep" /\ LedsWritten(first[g]) /\ free # {}
  /\ Create(moving[g][1])
  /\ table' = [table EXCEPT ![First(free)] = NewVc]
  /\ player' = [player EXCEPT ![NewVc] = First(free)]
  /\ second' = [second EXCEPT ![g] = NewVc]
  /\ moving' = [moving EXCEPT ![g] = <<>>]
  /\ Goto(g, "split_new")
  /\ UNCHANGED <<lockq, slots, first>> /\ OthersIdle

\* A failed LED write, or next(...) on a full table: the half that was popped
\* is in no slot when the lock is released.
SplitLoses(g) ==
  /\ phase[g] = "split_keep"
  /\ Leave(g, lockq)
  /\ UNCHANGED <<vcVars, slots, first, second>> /\ OthersIdle

SplitInserted(g) ==
  /\ phase[g] = "split_new" /\ LedsWritten(second[g])
  /\ Reorder(table, members)
  /\ Goto(g, "split_leds")
  /\ UNCHANGED <<lockq, made, members, running, device, slots, first, second, moving>> /\ OthersIdle

SplitInsertRaises(g) ==
  /\ phase[g] = "split_new"
  /\ Leave(g, lockq)
  /\ UNCHANGED <<vcVars, slots, first, second>> /\ OthersIdle

\* The lock is released and the device of the pair destroyed.
SplitReleases(g) ==
  /\ phase[g] = "split_leds"
  /\ lockq' = Tail(lockq)
  /\ device' = [device EXCEPT ![first[g]] = FALSE]
  /\ Goto(g, "split_setup_first")
  /\ UNCHANGED <<table, made, members, running, player, slots, first, second, moving>> /\ OthersIdle

\* Outside the lock both devices are created, the second one only when the first
\* is ready.
SplitSetUpFirst(g) ==
  /\ phase[g] = "split_setup_first"
  /\ device' \in Attempted(device, first[g])
  /\ \/ device'[first[g]] /\ Goto(g, "split_setup_second")
     \/ Goto(g, "done")
  /\ UNCHANGED <<lockq, table, made, members, running, player, slots, first, second, moving>>
  /\ OthersIdle

SplitSetUpSecond(g) ==
  /\ phase[g] = "split_setup_second"
  /\ device' \in Attempted(device, second[g])
  /\ Goto(g, "done")
  /\ UNCHANGED <<lockq, table, made, members, running, player, slots, first, second, moving>>
  /\ OthersIdle

-----------------------------------------------------------------------------
(* _merge_controllers_async *)

\* (mutation) the controller is not removed from the slot it leaves
MergeEnteredTwice(g, q) ==
  LET v == table[slots[g][1]]
      w == table[slots[g][2]]
  IN
  IF v = NoVc \/ w = NoVc \/ Len(members[v]) # 1 \/ Len(members[w]) # 1
  THEN Leave(g, q) /\ UNCHANGED <<vcVars, first, second>>
  ELSE /\ members' = [members EXCEPT ![v] = @ \o members[w]]
       /\ table' = [table EXCEPT ![slots[g][2]] = NoVc]
       /\ first' = [first EXCEPT ![g] = v]
       /\ Goto(g, "merge_init") /\ lockq' = q
       /\ UNCHANGED <<made, running, device, player, second, moving>>

\* (mutation) the virtual device of the slot it leaves is kept
MergeEnteredKeepsDevice(g, q) ==
  LET v == table[slots[g][1]]
      w == table[slots[g][2]]
  IN
  IF v = NoVc \/ w = NoVc \/ Len(members[v]) # 1 \/ Len(members[w]) # 1
  THEN Leave(g, q) /\ UNCHANGED <<vcVars, first, second>>
  ELSE /\ members' = [members EXCEPT ![v] = @ \o members[w], ![w] = <<>>]
       /\ running' = [running EXCEPT ![w] = FALSE]
       /\ table' = [table EXCEPT ![slots[g][2]] = NoVc]
       /\ first' = [first EXCEPT ![g] = v]
       /\ Goto(g, "merge_init") /\ lockq' = q
       /\ UNCHANGED <<made, device, player, second, moving>>

\* Whatever the two slots hold by now, as long as both hold one controller:
\* the second one is removed from its slot, the slot emptied, and the
\* controller joins the first.
MergeEntered(g, q) ==
  LET v == table[slots[g][1]]
      w == table[slots[g][2]]
  IN
  IF v = NoVc \/ w = NoVc \/ Len(members[v]) # 1 \/ Len(members[w]) # 1
  THEN Leave(g, q) /\ UNCHANGED <<vcVars, first, second>>
  ELSE /\ members' = [members EXCEPT ![v] = @ \o members[w], ![w] = <<>>]
       /\ running' = [running EXCEPT ![w] = FALSE]
       /\ device' = [device EXCEPT ![w] = FALSE]
       /\ table' = [table EXCEPT ![slots[g][2]] = NoVc]
       /\ first' = [first EXCEPT ![g] = v]
       /\ Goto(g, "merge_init") /\ lockq' = q
       /\ UNCHANGED <<made, player, second, moving>>

MergeInitialised(g) ==
  /\ phase[g] = "merge_init" /\ LedsWritten(first[g])
  /\ Reorder(table, members)
  /\ Goto(g, "merge_leds")
  /\ UNCHANGED <<lockq, made, members, running, device, slots, first, second, moving>> /\ OthersIdle

\* The device of the single controller is destroyed.
MergeResets(g) ==
  /\ phase[g] = "merge_leds"
  /\ device' = [device EXCEPT ![first[g]] = FALSE]
  /\ Goto(g, "merge_setup")
  /\ UNCHANGED <<lockq, table, made, members, running, player, slots, first, second, moving>>
  /\ OthersIdle

MergeInitRaises(g) ==
  /\ phase[g] = "merge_init"
  /\ Leave(g, lockq)
  /\ UNCHANGED <<vcVars, slots, first, second>> /\ OthersIdle

\* The device is set up with GLOBAL_LOCK held.
MergeSetUp(g) ==
  /\ phase[g] = "merge_setup"
  /\ device' \in Attempted(device, first[g])
  /\ Leave(g, lockq)
  /\ UNCHANGED <<table, made, members, running, player, slots, first, second>> /\ OthersIdle

-----------------------------------------------------------------------------
(* Both commands wait for GLOBAL_LOCK first *)

Entered(g, q) ==
  \/ IsSplit(g) /\ SplitEntered(g, q)
  \/ ~IsSplit(g) /\ MergeEntered(g, q)

CommandStart(g) ==
  /\ phase[g] = "posted"
  /\ IF LockFree
     THEN Entered(g, <<Cmd(g)>>)
     ELSE /\ lockq' = Append(lockq, Cmd(g)) /\ Goto(g, "wait")
          /\ UNCHANGED <<vcVars, first, second, moving>>
  /\ UNCHANGED slots /\ OthersIdle

CommandGetsLock(g) ==
  /\ phase[g] = "wait" /\ Holds(Cmd(g))
  /\ Entered(g, lockq)
  /\ UNCHANGED slots /\ OthersIdle

CommandStep(g) ==
  \/ CommandStart(g) \/ CommandGetsLock(g)
  \/ SplitKept(g) \/ SplitLoses(g) \/ SplitInserted(g) \/ SplitInsertRaises(g)
  \/ SplitReleases(g) \/ SplitSetUpFirst(g) \/ SplitSetUpSecond(g)
  \/ MergeInitialised(g) \/ MergeInitRaises(g) \/ MergeResets(g) \/ MergeSetUp(g)

CommandsInit ==
  /\ Init
  /\ phase = [g \in Command |-> "idle"]
  /\ slots = [g \in Command |-> <<>>]
  /\ first = [g \in Command |-> NoVc]
  /\ second = [g \in Command |-> NoVc]
  /\ moving = [g \in Command |-> <<>>]

\* The discovery tasks go on around the commands.
Discovery == Next /\ UNCHANGED cmdVars

CommandsNext ==
  \/ Discovery
  \/ \E g \in Command : ClickSplit(g) \/ ClickMerge(g) \/ CommandStep(g)

CommandsSpec == CommandsInit /\ [][CommandsNext]_allVars

-----------------------------------------------------------------------------
(* Safety *)

\* A Controller is in one place: once in the members of one VirtualController,
\* or in the hands of the split that moves it.
OneHome ==
  /\ \A v \in VcId : \A m, n \in DOMAIN members[v] : members[v][m] = members[v][n] => m = n
  /\ \A v, w \in VcId : \A c \in Controller : Drives(v, c) /\ Drives(w, c) => v = w
  /\ \A g \in Command, v \in VcId : \A c \in Controller : moving[g] = <<c>> => ~Drives(v, c)

\* The variables keep their types, and whatever Split and Merge do, a controller is driven
\* by one slot or held by one command, never by two.
HomesTyped == CommandsTypeOK /\ OneHome

\* README.md: a split makes two individual controllers of a pair, so a connected
\* controller that no split is moving right now drives a slot.
SplitKeepsBoth ==
  \A c \in Controller :
    stage[c] = "ready" /\ link[c] /\ (\A g \in Command : moving[g] # <<c>>) => VcOf(c) # NoVc

=============================================================================
