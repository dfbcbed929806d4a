------------------------- MODULE SlotCommandsProofs -------------------------
(***************************************************************************)
(* HomesTyped of SlotCommands for every number of controllers, slots and   *)
(* clicks: whatever the GUI's Split and Merge and the discovery tasks do to*)
(* each other, a Controller is in the list of one VirtualController, once, *)
(* or in the hands of the one split that moves it.                         *)
(*                                                                         *)
(* It is not inductive by itself.  A claim must not bring in a controller  *)
(* that is driven already or that a split holds (ClaimedFirst, InHand), a  *)
(* split must find a controller in its hands when it creates the second    *)
(* slot (InHand), and a click must yield an index of the table             *)
(* (TableNumbered, ArgsKnown).  That GLOBAL_LOCK keeps the commands and the*)
(* tasks apart is not needed: each step moves the controller it takes.     *)
(***************************************************************************)
EXTENDS SlotCommands, SystemBtRouteProofs

CommandVarsTyped ==
  /\ phase \in [Command -> Phases]
  /\ slots \in [Command -> Seq(Slot)]
  /\ first \in [Command -> VcId \cup {NoVc}]
  /\ second \in [Command -> VcId \cup {NoVc}]
  /\ moving \in [Command -> Seq(Controller)]

\* A coroutine that was posted has one index or two.
ArgsKnown == \A g \in Command : phase[g] # "idle" => Len(slots[g]) \in {1, 2}

\* A VirtualController of the table has the number of a slot.
TableNumbered == \A v \in VcId : InTable(v) => player[v] \in Slot

\* A split that is about to create the second slot has its controller in its hands; such
\* a controller has claimed a slot before, is driven by no VirtualController and is in no
\* other hands.
InHand ==
  /\ \A g \in Command : phase[g] = "split_keep" => \E c \in Controller : moving[g] = <<c>>
  /\ \A g \in Command, c \in Controller : moving[g] = <<c>> =>
       /\ stage[c] \notin Unclaimed
       /\ \A v \in VcId : ~Drives(v, c)
       /\ \A h \in Command : moving[h] = <<c>> => g = h

\* What is true of the slots between any two steps.
SeatsInv == SlotsInv /\ PoolInv /\ TableNumbered

CommandInv ==
  /\ TypeOK /\ SomebodyToReport
  /\ SeatsInv
  /\ CommandVarsTyped /\ ArgsKnown /\ InHand

-----------------------------------------------------------------------------
(* The steps of the discovery tasks *)

\* At most one attempt moves on, and none goes back to before its claim.
StageMoves ==
  \/ stage' = stage
  \/ \E c \in Controller, s \in Stages :
       stage' = [stage EXCEPT ![c] = s] /\ (s \in Unclaimed => stage[c] \in Unclaimed)

LEMMA AddMovesStage ==
  ASSUME NEW c \in Controller, Advertise(c) \/ AddStep(c)
  PROVE  StageMoves
<1>1. ASSUME NEW q, NEW macs, Fail(c, q, macs) PROVE StageMoves
  <2>1. \E s \in Ending : stage' = [stage EXCEPT ![c] = s]
    BY <1>1 DEF Fail, FinishRollback, Ending
  <2>2. \A s \in Ending : s \in Stages /\ s \notin Unclaimed
    BY DEF Ending, Stages, Unclaimed, Reserving
  <2> QED BY <2>1, <2>2 DEF StageMoves
<1>2. ASSUME NEW q, NEW macs, NEW reserved, Claim(c, q, macs, reserved) PROVE StageMoves
  <2>1. CASE FindTableFull(c, q, macs)
    BY <1>1, <2>1 DEF FindTableFull
  <2>2. CASE JoinPair(c, q, macs, reserved) \/ TakeSlot(c, q, macs, reserved)
    <3>1. \E s \in {"merge", "virtual_device_setup"} : stage' = [stage EXCEPT ![c] = s]
      BY <2>2 DEF JoinPair, TakeSlot
    <3>2. \A s \in {"merge", "virtual_device_setup"} : s \in Stages /\ s \notin Unclaimed
      BY DEF Promoted, Stages, Unclaimed, Reserving
    <3> QED BY <3>1, <3>2 DEF StageMoves
  <2> QED BY <1>2, <2>1, <2>2 DEF Claim
<1>3. ASSUME Promote(c), stage[c] \in Unclaimed PROVE StageMoves
  <2>1. CASE LockFree
    BY <1>2, <1>3, <2>1 DEF Promote
  <2>2. CASE ~LockFree
    BY <1>3, <2>2 DEF Promote, StageMoves, Stages, Promoted
  <2> QED BY <2>1, <2>2
<1>4. CASE \/ Advertise(c) \/ ScanGetsLock(c) \/ ConnectStart(c) \/ LinkUp(c) \/ ConnectDone(c) \/ PairStart(c)
           \/ (InitializeDone(c) /\ c \in PairingMode) \/ (InitializeRaises(c) /\ link[c])
  BY <1>4 DEF Advertise, ScanGetsLock, ConnectStart, LinkUp, ConnectDone, PairStart, InitializeDone,
              InitializeRaises, taskVars, StageMoves, Stages, Unclaimed, Reserving
<1>5. CASE (InitializeDone(c) /\ c \notin PairingMode) \/ PairDone(c)
  BY <1>3, <1>5 DEF InitializeDone, PairDone, Unclaimed, Reserving
<1>6. CASE AddGetsLock(c)
  BY <1>2, <1>6 DEF AddGetsLock
<1>7. CASE \/ ConnectRaises(c) \/ (InitializeRaises(c) /\ ~link[c]) \/ InitializeAborted(c)
           \/ PairRaises(c) \/ MergeRaises(c) \/ SetupFails(c)
  BY <1>1, <1>7 DEF ConnectRaises, InitializeRaises, InitializeAborted, PairRaises, MergeRaises, SetupFails
<1>8. CASE MergeDone(c) \/ SetupDone(c) \/ RollbackGetsLock(c)
  <2>1. \E s \in {"virtual_device_setup", "ready", "fail_disconnect", "failed"} :
          stage' = [stage EXCEPT ![c] = s]
    BY <1>8 DEF MergeDone, SetupDone, RollbackGetsLock, FinishRollback
  <2>2. \A s \in {"virtual_device_setup", "ready", "fail_disconnect", "failed"} : s \in Stages /\ s \notin Unclaimed
    BY DEF Ending, Promoted, Stages, Unclaimed, Reserving
  <2> QED BY <2>1, <2>2 DEF StageMoves
<1> QED BY <1>4, <1>5, <1>6, <1>7, <1>8 DEF AddStep

LEMMA NextMovesStage ==
  ASSUME [Next]_vars
  PROVE  StageMoves
<1>1. ASSUME NEW c \in Controller, DropStep(c) \/ DisconnectStep(c) PROVE StageMoves
  <2>1. stage' = stage \/ stage' = [stage EXCEPT ![c] = "failed"]
    BY <1>1 DEF DropStep, DropStart, DropGetsLock, DropReorders, DropDone, DisconnectStep, DisconnectDone,
                DisconnectGivesUp, DisconnectReturns, taskVars
  <2>2. "failed" \in Stages /\ "failed" \notin Unclaimed
    BY DEF Ending, Stages, Unclaimed, Reserving
  <2> QED BY <2>1, <2>2 DEF StageMoves
<1>2. CASE \E v \in VcId : CloseStart(v) \/ CloseStep(v)
  <2>1. stage' = stage
    BY <1>2 DEF CloseStart, CloseStep, CloseGathered, CloseNotify, CloseGetsLock, CloseReorders, CloseReleases,
                CloseEnd, taskVars
  <2> QED BY <2>1 DEF StageMoves
<1>3. CASE (\E a \in Addr : LinkDrop(a)) \/ Stop \/ AtRest \/ UNCHANGED vars
  <2>1. stage' = stage
    BY <1>3 DEF LinkDrop, Stop, AtRest, vars, taskVars
  <2> QED BY <2>1 DEF StageMoves
<1> QED BY <1>1, <1>2, <1>3, AddMovesStage DEF Next

\* The callbacks of the radio are typed without a word about the lock.
LEMMA NextTypesDrop ==
  ASSUME TypeOK, [Next]_vars
  PROVE  DropTyped
<1>1. drop \in [Controller -> {"none", "start", "wait", "reinit", "leds"}]
  BY DEF TypeOK
<1>2. CASE \E c \in Controller : Advertise(c) \/ AddStep(c)
  <2>1. drop' = drop
    BY <1>2 DEF AddStep, Advertise, ScanGetsLock, ConnectStart, LinkUp, ConnectDone, ConnectRaises,
         InitializeDone, InitializeRaises, InitializeAborted, PairStart, PairDone, PairRaises,
         AddGetsLock, MergeDone, MergeRaises, SetupDone, SetupFails, RollbackGetsLock, linkVars
  <2> QED BY <1>1, <2>1 DEF DropTyped
<1>3. ASSUME NEW c \in Controller, DropStep(c) \/ DisconnectStep(c) PROVE DropTyped
  <2>1. drop' = drop \/ \E s \in {"none", "wait", "reinit", "leds"} : drop' = [drop EXCEPT ![c] = s]
    BY <1>3 DEF DropStep, DropStart, DropGetsLock, DropReorders, DropDone, DisconnectStep, DisconnectDone,
                DisconnectGivesUp, EnterDrop, DropGoto
  <2> QED BY <1>1, <2>1 DEF DropTyped
<1>4. CASE (\E v \in VcId : CloseStart(v) \/ CloseStep(v)) \/ Stop \/ AtRest \/ UNCHANGED vars
  <2>1. drop' = drop
    BY <1>4 DEF CloseStart, CloseStep, CloseGathered, CloseNotify, CloseGetsLock, CloseReorders, CloseReleases,
                CloseEnd, Stop, AtRest, vars, linkVars
  <2> QED BY <1>1, <2>1 DEF DropTyped
<1>5. CASE \E a \in Addr : LinkDrop(a)
  <2>1. PICK gone : drop' = [c \in Controller |-> IF c \in gone /\ Armed(c) THEN "start" ELSE drop[c]]
    BY <1>5 DEF LinkDrop
  <2> QED BY <1>1, <2>1 DEF DropTyped
<1> QED BY <1>2, <1>3, <1>4, <1>5 DEF Next

\* What a step of the discovery tasks does to the table, to the lists of controllers and
\* to the players' numbers.
RouteShape ==
  \/ UNCHANGED <<table, members, player>>
  \/ Reorder(table, members) /\ UNCHANGED <<made, members, running, device>>
  \/ \E c \in Controller : Evict(c)
  \/ \E c \in Controller : \E q, macs, reserved :
       stage[c] \in Unclaimed /\ (JoinPair(c, q, macs, reserved) \/ TakeSlot(c, q, macs, reserved))
  \/ \E v \in VcId : members' = [members EXCEPT ![v] = <<>>] /\ UNCHANGED <<table, player>>

LEMMA NextHasShape ==
  ASSUME TypeOK, SomebodyToReport, [Next]_vars
  PROVE  RouteShape
<1>1. CASE UNCHANGED vcVars
  BY <1>1 DEF RouteShape, vcVars
<1>2. ASSUME NEW c \in Controller, Advertise(c) \/ AddStep(c) PROVE RouteShape
  <2>1. ASSUME NEW q, NEW macs, NEW reserved, Claim(c, q, macs, reserved), stage[c] \in Unclaimed
        PROVE  RouteShape
    BY <1>1, <2>1 DEF Claim, FindTableFull, RouteShape
  <2>2. ASSUME Promote(c), stage[c] \in Unclaimed PROVE RouteShape
    <3>1. CASE LockFree
      BY <2>1, <2>2, <3>1 DEF Promote
    <3>2. CASE ~LockFree
      BY <1>1, <2>2, <3>2 DEF Promote
    <3> QED BY <3>1, <3>2
  <2>3. CASE (InitializeDone(c) /\ c \notin PairingMode) \/ PairDone(c)
    BY <2>2, <2>3 DEF InitializeDone, PairDone, Unclaimed, Reserving
  <2>4. CASE AddGetsLock(c)
    BY <2>1, <2>4 DEF AddGetsLock, Unclaimed
  <2>5. CASE MergeDone(c)
    BY <2>5 DEF MergeDone, RouteShape
  <2>6. CASE SetupDone(c) \/ SetupFails(c)
    BY <2>6 DEF SetupDone, SetupFails, RouteShape
  <2>7. CASE \/ Advertise(c) \/ ScanGetsLock(c) \/ ConnectStart(c) \/ LinkUp(c) \/ ConnectDone(c) \/ PairStart(c)
             \/ (InitializeDone(c) /\ c \in PairingMode) \/ InitializeRaises(c) \/ ConnectRaises(c)
             \/ InitializeAborted(c) \/ PairRaises(c) \/ MergeRaises(c) \/ RollbackGetsLock(c)
    <3>1. UNCHANGED vcVars
      BY <2>7 DEF Advertise, ScanGetsLock, ConnectStart, LinkUp, ConnectDone, PairStart, InitializeDone,
                  InitializeRaises, ConnectRaises, InitializeAborted, PairRaises, MergeRaises, RollbackGetsLock,
                  slotVars
    <3> QED BY <1>1, <3>1
  <2> QED BY <1>2, <2>3, <2>4, <2>5, <2>6, <2>7 DEF AddStep
<1>3. ASSUME NEW c \in Controller, DropStep(c) \/ DisconnectStep(c) PROVE RouteShape
  <2>1. CASE Evict(c)
    BY <2>1 DEF RouteShape
  <2>2. CASE DropReorders(c)
    BY <1>1, <2>2 DEF DropReorders, RouteShape
  <2> QED BY <1>1, <1>3, <2>1, <2>2 DEF DropStep, DropStart, DropGetsLock, DropDone, DisconnectStep, DisconnectDone,
                DisconnectGivesUp, EnterDrop, EvictLocked, slotVars
<1>4. ASSUME NEW v \in VcId, CloseStart(v) \/ CloseStep(v) PROVE RouteShape
  <2>1. CASE CloseStart(v) \/ CloseEnd(v)
    BY <2>1 DEF CloseStart, CloseEnd, RouteShape
  <2>2. CASE CloseReorders(v)
    BY <2>2 DEF CloseReorders, RouteShape
  <2>3. CASE Evict(Head(vcTodo[v])) /\ vcTodo[v] # <<>>
    <3>1. vcTodo[v] \in Seq(Controller)
      BY DEF TypeOK
    <3>2. Head(vcTodo[v]) \in Controller
      BY <2>3, <3>1, HeadTailProperties
    <3> QED BY <2>3, <3>2 DEF RouteShape
  <2>4. vcStage[v] = "wait" => vcTodo[v] # <<>>
    BY DEF SomebodyToReport
  <2> QED BY <1>1, <1>4, <2>1, <2>2, <2>3, <2>4 DEF CloseStep, CloseGathered, CloseNotify, CloseLocked, CloseGetsLock,
                EvictLocked, CloseReleases, slotVars
<1>5. CASE (\E a \in Addr : LinkDrop(a)) \/ Stop \/ AtRest \/ UNCHANGED vars
  <2>1. UNCHANGED vcVars
    BY <1>5 DEF LinkDrop, Stop, AtRest, vars, slotVars
  <2> QED BY <1>1, <2>1
<1> QED BY <1>2, <1>3, <1>4, <1>5 DEF Next

\* A controller that comes to a VirtualController was in the list of that one already or
\* has not claimed a slot yet.
OnlyClaimsJoin ==
  \A v \in VcId : \A n \in DOMAIN members'[v] :
    \/ \E m \in DOMAIN members[v] : members'[v][n] = members[v][m]
    \/ members'[v][n] \in Controller /\ stage[members'[v][n]] \in Unclaimed

LEMMA NextLetsClaimsJoin ==
  ASSUME SeatsInv, TypeOK, SomebodyToReport, [Next]_vars
  PROVE  OnlyClaimsJoin /\ TableNumbered'
<1>1. /\ SlotsInv /\ PoolInv /\ TableNumbered /\ SlotsTypeOK
      /\ \A v \in VcId : v # NoVc
  BY DEF SeatsInv, SlotsInv, NoVc, VcId
<1>2. RouteShape /\ SlotsInv'
  BY <1>1, NextHasShape, SlotsStep
<1>3. ASSUME PlayersInOrder' PROVE TableNumbered'
  BY <1>1, <1>3 DEF PlayersInOrder, TableNumbered, Occupied, InTable
<1>4. CASE UNCHANGED <<table, members, player>>
  BY <1>1, <1>4 DEF OnlyClaimsJoin, TableNumbered, InTable
<1>5. CASE Reorder(table, members) /\ UNCHANGED <<made, members, running, device>>
  BY <1>1, <1>3, <1>5, ReorderKeepsSlots DEF OnlyClaimsJoin
<1>6. ASSUME NEW c \in Controller, Evict(c) PROVE OnlyClaimsJoin /\ TableNumbered'
  <2>1. NobodyJoins
    BY <1>1, <1>6, EvictLeaves DEF PoolInv
  <2>2. player' = player /\ \A v \in VcId : InTable(v)' => InTable(v)
    <3>1. CASE UNCHANGED <<table, player>>
      BY <3>1 DEF InTable
    <3>2. CASE \E w : player' = player /\ table' = [i \in Slot |-> IF table[i] = w THEN NoVc ELSE table[i]]
      BY <1>1, <3>2 DEF InTable
    <3> QED BY <1>6, <3>1, <3>2 DEF Evict, vcVars
  <2> QED BY <1>1, <2>1, <2>2 DEF NobodyJoins, OnlyClaimsJoin, TableNumbered
<1>7. ASSUME NEW c \in Controller, stage[c] \in Unclaimed, NEW q, NEW macs, NEW reserved,
             JoinPair(c, q, macs, reserved) \/ TakeSlot(c, q, macs, reserved)
      PROVE  OnlyClaimsJoin /\ TableNumbered'
  <2>1. \A v \in VcId : ~Drives(v, c)
    BY <1>1, <1>7 DEF PoolInv, ClaimedFirst, Drives
  <2>2. ASSUME OnlyJoins(c) PROVE OnlyClaimsJoin
    BY <1>7, <2>2 DEF OnlyJoins, OnlyClaimsJoin
  <2>3. CASE JoinPair(c, q, macs, reserved)
    <3>1. PICK v \in VcId :
            /\ InTable(v) /\ Len(members[v]) = 1 /\ {Kind[c], Kind[members[v][1]]} = {"left", "right"}
            /\ members' = [members EXCEPT ![v] = Append(@, c)]
            /\ UNCHANGED <<table, made, running, device>>
      BY <1>1, <2>3, JoinShape
    <3>2. OnlyJoins(c)
      BY <1>1, <2>1, <3>1, AppendingJoins DEF PoolInv
    <3>3. player' = player
      BY <2>3 DEF JoinPair
    <3> QED BY <1>1, <2>2, <3>1, <3>2, <3>3 DEF TableNumbered, InTable
  <2>4. CASE TakeSlot(c, q, macs, reserved)
    <3>1. OnlyJoins(c) /\ PlayersInOrder'
      BY <1>1, <2>1, <2>4, TakingSlotOpens, TakingSlotKeepsSlots DEF PoolInv, TakeSlot
    <3> QED BY <1>3, <2>2, <3>1
  <2> QED BY <1>7, <2>3, <2>4
<1>8. ASSUME NEW v \in VcId, members' = [members EXCEPT ![v] = <<>>], UNCHANGED <<table, player>>
      PROVE  OnlyClaimsJoin /\ TableNumbered'
  <2>1. members \in [VcId -> Seq(Controller)]
    BY <1>1 DEF SlotsTypeOK
  <2>2. DOMAIN members'[v] = {} /\ \A w \in VcId : w # v => members'[w] = members[w]
    BY <1>8, <2>1
  <2> QED BY <1>1, <1>8, <2>2 DEF OnlyClaimsJoin, TableNumbered, InTable
<1> QED BY <1>2, <1>4, <1>5, <1>6, <1>7, <1>8 DEF RouteShape

\* The discovery tasks, which know nothing of the commands, keep all of it.
LEMMA DiscoveryKeepsCommands ==
  ASSUME CommandInv, [Next]_vars, UNCHANGED cmdVars
  PROVE  CommandInv'
<1>1. /\ TypeOK /\ SomebodyToReport /\ SeatsInv /\ CommandVarsTyped /\ ArgsKnown /\ InHand
      /\ SlotsInv /\ PoolInv /\ stage \in [Controller -> Stages]
  BY DEF CommandInv, SeatsInv, TypeOK
<1>2. StageMoves
  BY NextMovesStage
<1>3. stage' \in [Controller -> Stages] /\ NoneUnclaims
  BY <1>1, <1>2 DEF StageMoves, NoneUnclaims
<1>4. SlotsInv' /\ PoolInv'
  BY <1>1, SlotsStep, StepShows
<1>5. OnlyClaimsJoin /\ TableNumbered'
  BY <1>1, NextLetsClaimsJoin
<1>6. /\ SomebodyToReport' /\ vcTodo' \in [VcId -> Seq(Controller)]
      /\ vcStage' \in [VcId -> {"idle", "closing", "notify", "wait", "reinit", "leds"}]
  BY <1>1, TodoStep
<1>7. DropTyped
  BY <1>1, NextTypesDrop
<1>8. MacsTyped /\ TaskTyped /\ LinkTyped
  BY <1>1 DEF TypeOK, MacsTyped, TaskTyped, LinkTyped
<1>9. MacsTyped' /\ TaskTyped' /\ LinkTyped'
  BY <1>1, <1>8, AddIsTyped, OthersAreTyped
<1>10. TypeOK'
  BY <1>3, <1>4, <1>6, <1>7, <1>9 DEF TypeOK, MacsTyped, TaskTyped, LinkTyped, DropTyped, SlotsInv
<1>11. phase' = phase /\ slots' = slots /\ first' = first /\ second' = second /\ moving' = moving
  BY DEF cmdVars
<1>12. CommandVarsTyped' /\ ArgsKnown'
  BY <1>1, <1>11 DEF CommandVarsTyped, ArgsKnown
<1>13. ASSUME NEW g \in Command, NEW c \in Controller, moving[g] = <<c>>
       PROVE  stage'[c] \notin Unclaimed /\ \A v \in VcId : ~Drives(v, c)'
  <2>1. stage[c] \notin Unclaimed /\ \A v \in VcId : ~Drives(v, c)
    BY <1>1, <1>13 DEF InHand
  <2> QED BY <1>3, <1>5, <2>1 DEF NoneUnclaims, OnlyClaimsJoin, Drives
<1>14. InHand'
  BY <1>1, <1>11, <1>13 DEF InHand
<1> QED BY <1>4, <1>5, <1>6, <1>10, <1>12, <1>14 DEF CommandInv, SeatsInv

-----------------------------------------------------------------------------
(* The commands *)

\* No click and no step of a command touches the tasks, the links or the closes.
LEMMA CommandsLeaveTasks ==
  ASSUME NEW g \in Command, ClickSplit(g) \/ ClickMerge(g) \/ CommandStep(g)
  PROVE  UNCHANGED <<taskVars, linkVars, closeVars, stopping>>
<1>1. CASE ClickSplit(g) \/ ClickMerge(g)
  BY <1>1 DEF ClickSplit, ClickMerge, Post, vars
<1>2. CASE CommandStep(g)
  BY <1>2 DEF CommandStep, CommandStart, CommandGetsLock, SplitKept, SplitLoses, SplitInserted, SplitInsertRaises,
              SplitReleases, SplitSetUpFirst, SplitSetUpSecond, MergeInitialised, MergeInitRaises, MergeResets,
              MergeSetUp, OthersIdle
<1> QED BY <1>1, <1>2

\* A step that changes no list of controllers, opens no VirtualController and puts none
\* into the table keeps the seats.
LEMMA SeatsKept ==
  ASSUME SeatsInv, SlotsInv', UNCHANGED <<stage, vcStage, members, made, running>>,
         \A v \in VcId : InTable(v)' => InTable(v), player' = player \/ PlayersInOrder'
  PROVE  SeatsInv'
<1>1. SlotsInv /\ PoolInv /\ TableNumbered /\ \A v \in VcId : v # NoVc
  BY DEF SeatsInv, NoVc, VcId
<1>2. TableNumbered'
  <2>1. CASE player' = player
    BY <1>1, <2>1 DEF TableNumbered
  <2>2. CASE PlayersInOrder'
    BY <1>1, <2>2 DEF PlayersInOrder, TableNumbered, Occupied, InTable
  <2> QED BY <2>1, <2>2
<1>3. PoolInv'
  BY <1>1 DEF PoolInv, ClaimedFirst, DrivenOnce, ClosedIsStopped
<1> QED BY <1>2, <1>3 DEF SeatsInv

\* A command that takes no controller into its hands, in a step that drives none which was
\* not driven before, keeps what is known of the hands.
LEMMA HandsKept ==
  ASSUME InHand, UNCHANGED stage, NEW g \in Command,
         \A h \in Command : phase'[h] = "split_keep" => phase[h] = "split_keep" /\ h # g,
         \A h \in Command : moving'[h] = moving[h] \/ (h = g /\ moving'[h] = <<>>),
         \A v \in VcId, c \in Controller : Drives(v, c)' => \E w \in VcId : Drives(w, c)
  PROVE  InHand'
<1>1. \A h \in Command, c \in Controller : moving'[h] = <<c>> => moving[h] = <<c>>
  OBVIOUS
<1>2. \A h \in Command : phase'[h] = "split_keep" => moving'[h] = moving[h]
  OBVIOUS
<1> QED BY <1>1, <1>2 DEF InHand

\* The variables of the commands after a step of one that was posted.
LEMMA CommandTyped ==
  ASSUME CommandVarsTyped, ArgsKnown, NEW g \in Command, phase[g] # "idle", slots' = slots,
         NEW s \in Phases, s # "idle", phase' = [phase EXCEPT ![g] = s],
         first' \in [Command -> VcId \cup {NoVc}], second' \in [Command -> VcId \cup {NoVc}],
         moving' = moving \/ moving' = [moving EXCEPT ![g] = <<>>]
  PROVE  /\ CommandVarsTyped' /\ ArgsKnown'
         /\ \A h \in Command : phase'[h] = IF h = g THEN s ELSE phase[h]
         /\ \A h \in Command : moving'[h] = moving[h] \/ (h = g /\ moving'[h] = <<>>)
<1>1. /\ phase \in [Command -> Phases] /\ slots \in [Command -> Seq(Slot)]
      /\ moving \in [Command -> Seq(Controller)] /\ <<>> \in Seq(Controller)
  BY EmptySeq DEF CommandVarsTyped
<1>2. \A h \in Command : phase'[h] = IF h = g THEN s ELSE phase[h]
  BY <1>1
<1>3. \A h \in Command : moving'[h] = moving[h] \/ (h = g /\ moving'[h] = <<>>)
  BY <1>1
<1>4. phase' \in [Command -> Phases] /\ moving' \in [Command -> Seq(Controller)]
  BY <1>1
<1>5. ArgsKnown'
  BY <1>2 DEF ArgsKnown
<1> QED BY <1>1, <1>2, <1>3, <1>4, <1>5 DEF CommandVarsTyped

\* The indices of a posted command are slots, and what they hold is in the table.
LEMMA ArgsInTable ==
  ASSUME SlotsInv, CommandVarsTyped, ArgsKnown, NEW g \in Command, phase[g] # "idle",
         NEW n \in 1 .. 2, n = 2 => ~IsSplit(g)
  PROVE  /\ slots[g][n] \in Slot
         /\ table[slots[g][n]] # NoVc => table[slots[g][n]] \in VcId /\ InTable(table[slots[g][n]])
<1>1. slots[g] \in Seq(Slot) /\ Len(slots[g]) \in {1, 2}
  BY DEF CommandVarsTyped, ArgsKnown
<1>2. n \in 1 .. Len(slots[g])
  <2>1. PICK k : k = Len(slots[g])
    OBVIOUS
  <2>2. k \in {1, 2} /\ (n = 2 => k # 1)
    BY <1>1, <2>1 DEF IsSplit
  <2>3. n \in 1 .. k
    BY <2>2
  <2> QED BY <2>1, <2>3
<1>3. slots[g][n] \in Slot
  BY <1>1, <1>2, ElementOfSeq
<1>4. table \in [Slot -> VcId \cup {NoVc}]
  BY DEF SlotsInv, SlotsTypeOK
<1> QED BY <1>3, <1>4 DEF InTable

\* A click posts indices of the table.
LEMMA PostKeepsCommands ==
  ASSUME CommandInv, NEW g \in Command, NEW args \in Seq(Slot), Len(args) \in {1, 2}, Post(g, args)
  PROVE  CommandInv'
<1>1. /\ TypeOK /\ SomebodyToReport /\ SeatsInv /\ CommandVarsTyped /\ ArgsKnown /\ InHand
      /\ SlotsInv /\ PoolInv
  BY DEF CommandInv, SeatsInv
<1>2. /\ slots' = [slots EXCEPT ![g] = args] /\ phase' = [phase EXCEPT ![g] = "posted"]
      /\ UNCHANGED <<first, second, moving>>
      /\ UNCHANGED vcVars /\ UNCHANGED <<taskVars, linkVars, closeVars, stopping>>
  BY DEF Post, Goto, vars, slotVars
<1>3. SlotsInv'
  BY <1>1, <1>2, UntouchedSlots
<1>4. SeatsInv'
  BY <1>1, <1>2, <1>3, SeatsKept DEF taskVars, closeVars, vcVars, InTable
<1>5. /\ phase \in [Command -> Phases] /\ slots \in [Command -> Seq(Slot)] /\ "posted" \in Phases
  BY <1>1 DEF CommandVarsTyped, Phases
<1>6. phase' \in [Command -> Phases] /\ slots' \in [Command -> Seq(Slot)]
  BY <1>2, <1>5
<1>7. CommandVarsTyped'
  BY <1>1, <1>2, <1>6 DEF CommandVarsTyped
<1>8. ArgsKnown'
  BY <1>1, <1>2, <1>5 DEF ArgsKnown
<1>9. InHand'
  BY <1>1, <1>2, <1>5, HandsKept DEF taskVars, vcVars, Drives
<1>10. TypeOK' /\ SomebodyToReport'
  BY <1>1, <1>2, <1>3 DEF TypeOK, SomebodyToReport, SlotsInv, taskVars, linkVars, closeVars
<1> QED BY <1>4, <1>7, <1>8, <1>9, <1>10 DEF CommandInv

LEMMA ClickKeepsCommands ==
  ASSUME CommandInv, NEW g \in Command, ClickSplit(g) \/ ClickMerge(g)
  PROVE  CommandInv'
<1>1. TableNumbered
  BY DEF CommandInv, SeatsInv
<1>2. CASE ClickSplit(g)
  <2>1. PICK v \in VcId : InTable(v) /\ Post(g, <<player[v]>>)
    BY <1>2 DEF ClickSplit
  <2>2. player[v] \in Slot
    BY <1>1, <2>1 DEF TableNumbered
  <2>3. <<player[v]>> \in Seq(Slot) /\ Len(<<player[v]>>) = 1
    BY <2>2
  <2> QED BY <2>1, <2>3, PostKeepsCommands
<1>3. CASE ClickMerge(g)
  <2>1. PICK pending \in Slot, v \in VcId :
          InTable(v) /\ Post(g, IF pending < player[v] THEN <<pending, player[v]>> ELSE <<player[v], pending>>)
    BY <1>3 DEF ClickMerge
  <2>2. player[v] \in Slot
    BY <1>1, <2>1 DEF TableNumbered
  <2>3. PICK i \in Slot, j \in Slot : Post(g, <<i, j>>)
    <3>1. CASE pending < player[v]
      BY <2>1, <2>2, <3>1
    <3>2. CASE ~(pending < player[v])
      BY <2>1, <2>2, <3>2
    <3> QED BY <3>1, <3>2
  <2>4. <<i, j>> \in Seq(Slot) /\ Len(<<i, j>>) = 2
    OBVIOUS
  <2> QED BY <2>3, <2>4, PostKeepsCommands
<1> QED BY <1>2, <1>3

\* A step of a posted command that moves no controller: the coroutine goes on or ends, the
\* table is reordered, a device is destroyed or created.
LEMMA StillCommand ==
  ASSUME CommandInv, NEW g \in Command, CommandStep(g), SlotsInv', UNCHANGED <<members, made, running>>,
         \A v \in VcId : InTable(v)' => InTable(v), player' = player \/ PlayersInOrder',
         phase[g] # "idle", slots' = slots, first' = first, second' = second,
         NEW s \in Phases \ {"idle", "split_keep"}, phase' = [phase EXCEPT ![g] = s],
         moving' = moving \/ moving' = [moving EXCEPT ![g] = <<>>]
  PROVE  CommandInv'
<1>1. /\ TypeOK /\ SomebodyToReport /\ SeatsInv /\ CommandVarsTyped /\ ArgsKnown /\ InHand
  BY DEF CommandInv
<1>2. UNCHANGED <<taskVars, linkVars, closeVars, stopping>>
  BY CommandsLeaveTasks
<1>3. SeatsInv'
  BY <1>1, <1>2, SeatsKept DEF taskVars, closeVars
<1>4. first' \in [Command -> VcId \cup {NoVc}] /\ second' \in [Command -> VcId \cup {NoVc}]
  BY <1>1 DEF CommandVarsTyped
<1>5. /\ CommandVarsTyped' /\ ArgsKnown'
      /\ \A h \in Command : phase'[h] = IF h = g THEN s ELSE phase[h]
      /\ \A h \in Command : moving'[h] = moving[h] \/ (h = g /\ moving'[h] = <<>>)
  BY <1>1, <1>4, CommandTyped
<1>6. InHand'
  <2>1. \A v \in VcId, c \in Controller : Drives(v, c)' => Drives(v, c)
    BY DEF Drives
  <2> QED BY <1>1, <1>2, <1>5, <2>1, HandsKept DEF taskVars
<1>7. TypeOK' /\ SomebodyToReport'
  BY <1>1, <1>2 DEF TypeOK, SomebodyToReport, SlotsInv, taskVars, linkVars, closeVars
<1> QED BY <1>3, <1>5, <1>6, <1>7 DEF CommandInv

\* The last controller of a pair is popped into the hands of the split.
LEMMA SplitPops ==
  ASSUME CommandInv, NEW g \in Command, CommandStep(g), phase[g] # "idle", IsSplit(g), slots' = slots,
         NEW q, SplitEntered(g, q), table[slots[g][1]] # NoVc, ~(Len(members[table[slots[g][1]]]) < 2)
  PROVE  CommandInv'
<1>0. PICK v, N, c : v = table[slots[g][1]] /\ N = Len(members[v]) /\ c = members[v][N]
  OBVIOUS
<1>1. /\ TypeOK /\ SomebodyToReport /\ SeatsInv /\ CommandVarsTyped /\ ArgsKnown /\ InHand
      /\ SlotsInv /\ PoolInv /\ TableNumbered
      /\ members \in [VcId -> Seq(Controller)]
  BY DEF CommandInv, SeatsInv, SlotsInv, SlotsTypeOK
<1>2. /\ members' = [members EXCEPT ![v] = SubSeq(@, 1, Len(@) - 1)]
      /\ moving' = [moving EXCEPT ![g] = <<c>>]
      /\ first' = [first EXCEPT ![g] = v] /\ phase' = [phase EXCEPT ![g] = "split_keep"]
      /\ UNCHANGED <<table, made, running, device, player, second>>
  BY <1>0 DEF SplitEntered, Goto
<1>3. UNCHANGED <<taskVars, linkVars, closeVars, stopping>>
  BY CommandsLeaveTasks
<1>4. v \in VcId /\ InTable(v)
  BY <1>0, <1>1, ArgsInTable
<1>5. members[v] \in Seq(Controller) /\ N \in Nat /\ N >= 2 /\ DOMAIN members[v] = 1 .. N
  <2>1. members[v] \in Seq(Controller)
    BY <1>1, <1>4
  <2>2. N \in Nat /\ DOMAIN members[v] = 1 .. N
    BY <1>0, <2>1, LenProperties
  <2>3. ~(N < 2)
    BY <1>0
  <2> QED BY <2>1, <2>2, <2>3
<1>6. \A n \in 1 .. N : members[v][n] \in Controller
  BY <1>0, <1>5, ElementOfSeq
<1> DEFINE rest == SubSeq(members[v], 1, N - 1)
<1>7. rest \in Seq(Controller) /\ Len(rest) = N - 1 /\ \A n \in 1 .. N - 1 : rest[n] = members[v][n]
  <2>1. \A n \in 1 .. N - 1 : members[v][n] \in Controller /\ 1 + n - 1 = n
    BY <1>5, <1>6
  <2>2. N - 1 \in Int /\ 1 \in Int /\ 1 <= N - 1 /\ N - 1 - 1 + 1 = N - 1
    BY <1>5
  <2>3. /\ rest \in Seq(Controller)
        /\ Len(rest) = IF 1 <= N - 1 THEN N - 1 - 1 + 1 ELSE 0
        /\ \A n \in 1 .. N - 1 - 1 + 1 : rest[n] = members[v][1 + n - 1]
    BY <2>1, <2>2, SubSeqProperties
  <2> QED BY <2>1, <2>2, <2>3
<1>8. c \in Controller /\ DOMAIN members[v] = 1 .. N /\ DOMAIN rest = 1 .. N - 1 /\ N \in 1 .. N
  <2> HIDE DEF rest
  <2>1. N \in 1 .. N
    BY <1>5
  <2>2. members[v][N] \in Controller
    BY <1>6, <2>1
  <2>3. DOMAIN rest = 1 .. Len(rest)
    BY <1>7, LenProperties
  <2>4. DOMAIN rest = 1 .. N - 1
    BY <1>7, <2>3
  <2> QED BY <1>0, <1>5, <2>1, <2>2, <2>4
<1>9. members'[v] = rest /\ \A w \in VcId : w # v => members'[w] = members[w]
  BY <1>0, <1>1, <1>2, <1>4
<1>10. members' \in [VcId -> Seq(Controller)]
  <2> HIDE DEF rest
  <2> QED BY <1>1, <1>2, <1>7, <1>9
<1>11. SlotsInv'
  BY <1>1, <1>2, <1>10 DEF SlotsInv, SlotsTypeOK, OncePerTable, InTable
<1> HIDE DEF rest
<1>12. \A n \in 1 .. N - 1 : n \in 1 .. N /\ n # N
  <2>1. N \in Nat
    BY <1>5
  <2> QED BY ONLY <2>1
<1>13. NobodyJoins
  BY <1>7, <1>8, <1>9, <1>12 DEF NobodyJoins
<1>once. \A n, m \in 1 .. N : members[v][n] = members[v][m] => n = m
  BY <1>1, <1>4, <1>5 DEF PoolInv, DrivenOnce
<1>14. \A w \in VcId : ~Drives(w, c)'
  <2>1. DrivenOnce
    BY <1>1 DEF PoolInv
  <2>2. ASSUME NEW n \in DOMAIN rest  PROVE rest[n] # c
    <3>1. n \in 1 .. N - 1
      BY <1>8
    <3>2. n \in 1 .. N /\ n # N /\ rest[n] = members[v][n]
      BY <1>7, <1>12, <3>1
    <3>3. members[v][n] # members[v][N]
      BY <1>8, <1>once, <3>2
    <3> QED BY <1>0, <3>2, <3>3
  <2>3. \A w \in VcId : w # v => \A n \in DOMAIN members[w] : members[w][n] # c
    BY <1>0, <1>4, <1>8, <2>1 DEF DrivenOnce
  <2> QED BY <1>9, <2>2, <2>3 DEF Drives
<1>15. \A w \in VcId, d \in Controller : Drives(w, d)' => Drives(w, d)
  BY <1>7, <1>8, <1>9, <1>12 DEF Drives
<1>16. Drives(v, c) /\ stage[c] \notin Unclaimed
  <2>1. Drives(v, c)
    BY <1>0, <1>8 DEF Drives
  <2>2. ClaimedFirst
    BY <1>1 DEF PoolInv
  <2>3. v \in VcId /\ N \in DOMAIN members[v] /\ c = members[v][N]
    BY <1>0, <1>4, <1>8
  <2>4. stage[c] \notin Unclaimed
    BY <2>2, <2>3 DEF ClaimedFirst
  <2> QED BY <2>1, <2>4
<1>17. PoolInv'
  <2>1. ClaimedFirst'
    BY <1>1, <1>3, <1>13, ClaimedFirstKept DEF PoolInv, NoneUnclaims, taskVars
  <2>2. DrivenOnce'
    <3>1. \A w \in VcId : \A n, m \in DOMAIN members'[w] : members'[w][n] = members'[w][m] => n = m
      <4>1. \A n, m \in DOMAIN rest : rest[n] = rest[m] => n = m
        BY <1>7, <1>8, <1>12, <1>once
      <4>2. \A w \in VcId : \A n, m \in DOMAIN members[w] : members[w][n] = members[w][m] => n = m
        BY <1>1 DEF PoolInv, DrivenOnce
      <4> QED BY <1>9, <4>1, <4>2
    <3>2. \A w, u \in VcId : \A n \in DOMAIN members'[w], m \in DOMAIN members'[u] :
            members'[w][n] = members'[u][m] => w = u
      BY <1>1, <1>13 DEF PoolInv, DrivenOnce, NobodyJoins
    <3> QED BY <3>1, <3>2 DEF DrivenOnce
  <2>3. ClosedIsStopped'
    BY <1>1, <1>2, <1>3 DEF PoolInv, ClosedIsStopped, closeVars
  <2> QED BY <2>1, <2>2, <2>3 DEF PoolInv
<1>18. TableNumbered'
  BY <1>1, <1>2 DEF TableNumbered, InTable
<1>19. /\ phase \in [Command -> Phases] /\ moving \in [Command -> Seq(Controller)]
       /\ first \in [Command -> VcId \cup {NoVc}] /\ "split_keep" \in Phases /\ <<c>> \in Seq(Controller)
  BY <1>1, <1>8 DEF CommandVarsTyped, Phases
<1>20. /\ phase' \in [Command -> Phases] /\ moving' \in [Command -> Seq(Controller)]
       /\ first' \in [Command -> VcId \cup {NoVc}]
  BY <1>2, <1>4, <1>19
<1>21. CommandVarsTyped'
  BY <1>1, <1>2, <1>20 DEF CommandVarsTyped
<1>22. ArgsKnown'
  BY <1>1, <1>2, <1>19 DEF ArgsKnown
<1>23. moving'[g] = <<c>> /\ \A h \in Command : h # g => moving'[h] = moving[h] /\ phase'[h] = phase[h]
  BY <1>2, <1>19
<1>24. \A h \in Command : moving[h] # <<c>>
  BY <1>1, <1>4, <1>8, <1>16 DEF InHand
<1>25. InHand'
  <2>1. ASSUME NEW h \in Command, phase'[h] = "split_keep" PROVE \E d \in Controller : moving'[h] = <<d>>
    BY <1>1, <1>8, <1>23, <2>1 DEF InHand
  <2>2. ASSUME NEW h \in Command, NEW d \in Controller, moving'[h] = <<d>>
        PROVE  /\ stage'[d] \notin Unclaimed
               /\ \A w \in VcId : ~Drives(w, d)'
               /\ \A k \in Command : moving'[k] = <<d>> => h = k
    <3>1. CASE h = g
      <4>1. d = c
        BY <1>23, <2>2, <3>1
      <4>2. stage' = stage
        BY <1>3 DEF taskVars
      <4>3. \A k \in Command : moving'[k] = <<d>> => k = g
        BY <1>23, <1>24, <4>1
      <4> QED BY <1>14, <1>16, <3>1, <4>1, <4>2, <4>3
    <3>2. CASE h # g
      <4>1. moving[h] = <<d>> /\ d # c
        BY <1>23, <1>24, <2>2, <3>2
      <4>2. stage' = stage
        BY <1>3 DEF taskVars
      <4>3. /\ stage[d] \notin Unclaimed /\ \A w \in VcId : ~Drives(w, d)
            /\ \A k \in Command : moving[k] = <<d>> => h = k
        BY <1>1, <4>1 DEF InHand
      <4>4. \A k \in Command : moving'[k] = <<d>> => k # g
        BY <1>23, <4>1
      <4> QED BY <1>15, <1>23, <4>2, <4>3, <4>4
    <3> QED BY <3>1, <3>2
  <2> QED BY <2>1, <2>2 DEF InHand
<1>26. TypeOK' /\ SomebodyToReport'
  BY <1>1, <1>3, <1>11 DEF TypeOK, SomebodyToReport, SlotsInv, taskVars, linkVars, closeVars
<1> QED BY <1>11, <1>17, <1>18, <1>21, <1>22, <1>25, <1>26 DEF CommandInv, SeatsInv

\* The controller in the hands of a split gets a new VirtualController in an empty slot.
LEMMA SplitCreates ==
  ASSUME CommandInv, NEW g \in Command, SplitKept(g)
  PROVE  CommandInv'
<1>0. PICK i, vc : i = First({j \in Slot : table[j] = NoVc}) /\ vc = NewVc
  OBVIOUS
<1>1. /\ TypeOK /\ SomebodyToReport /\ SeatsInv /\ CommandVarsTyped /\ ArgsKnown /\ InHand
      /\ SlotsInv /\ PoolInv /\ TableNumbered /\ SlotsTypeOK
  BY DEF CommandInv, SeatsInv, SlotsInv
<1>2. PICK c \in Controller : moving[g] = <<c>>
  BY <1>1 DEF SplitKept, InHand
<1>3. /\ made < MaxVc /\ made' = vc /\ vc = made + 1
      /\ members' = [members EXCEPT ![vc] = <<c>>]
      /\ running' = [running EXCEPT ![vc] = TRUE] /\ device' = device
      /\ table' = [table EXCEPT ![i] = vc] /\ player' = [player EXCEPT ![vc] = i]
  BY <1>0, <1>2 DEF SplitKept, Create, NewVc
<1>4. /\ second' = [second EXCEPT ![g] = vc] /\ moving' = [moving EXCEPT ![g] = <<>>]
      /\ phase' = [phase EXCEPT ![g] = "split_new"] /\ phase[g] = "split_keep"
      /\ slots' = slots /\ first' = first
  BY <1>0 DEF SplitKept, Goto
<1>5. UNCHANGED <<taskVars, linkVars, closeVars, stopping>>
  BY CommandsLeaveTasks DEF CommandStep
<1>6. i \in Slot /\ table[i] = NoVc
  <2>1. {j \in Slot : table[j] = NoVc} \in SUBSET Nat /\ {j \in Slot : table[j] = NoVc} # {}
    BY SlotsAssumption DEF SplitKept, Slot
  <2> QED BY <1>0, <2>1, FirstIsLeast
<1>7. /\ made \in Nat /\ MaxVc \in Nat /\ NoVc = 0 /\ VcId = 1 .. MaxVc
      /\ table \in [Slot -> VcId \cup {NoVc}] /\ player \in [VcId -> 0 .. Slots]
      /\ members \in [VcId -> Seq(Controller)] /\ running \in [VcId -> BOOLEAN]
      /\ device \in [VcId -> BOOLEAN]
  BY <1>1, SlotsAssumption DEF SlotsTypeOK, NoVc, VcId
<1>8. vc \in VcId /\ vc # NoVc /\ made' \in 0 .. MaxVc /\ i \in 0 .. Slots
  BY <1>3, <1>6, <1>7, SlotsAssumption DEF Slot
<1>9. \A j \in Slot : table[j] <= made /\ table[j] # vc
  BY <1>1, <1>3, <1>7 DEF SlotsInv
<1>10. \A j \in Slot : table'[j] = IF j = i THEN vc ELSE table[j]
  BY <1>3, <1>7
<1>11. \A v \in VcId : InTable(v)' <=> InTable(v) \/ v = vc
  <2>1. \A v \in VcId : v # NoVc
    BY <1>7
  <2> QED BY <1>6, <1>10, <2>1 DEF InTable
<1>12. \A w \in VcId : w # vc => members'[w] = members[w] /\ running'[w] = running[w] /\ player'[w] = player[w]
  BY <1>3, <1>7
<1>13. members'[vc] = <<c>> /\ running'[vc] /\ player'[vc] = i /\ DOMAIN members'[vc] = {1}
  BY <1>3, <1>7, <1>8
<1>14. SlotsInv'
  <2>1. <<c>> \in Seq(Controller)
    OBVIOUS
  <2>2. table' \in [Slot -> VcId \cup {NoVc}] /\ player' \in [VcId -> 0 .. Slots]
    BY <1>3, <1>7, <1>8
  <2>3. members' \in [VcId -> Seq(Controller)]
    BY <1>3, <1>7, <2>1
  <2>4. running' \in [VcId -> BOOLEAN] /\ device' \in [VcId -> BOOLEAN]
    BY <1>3, <1>7
  <2>5. \A v \in VcId : running'[v] => InTable(v)'
    BY <1>1, <1>11, <1>12 DEF SlotsInv
  <2>6. \A v \in VcId : device'[v] => running'[v]
    BY <1>1, <1>3, <1>12, <1>13 DEF SlotsInv
  <2>7. OncePerTable(table)'
    BY <1>1, <1>9, <1>10 DEF SlotsInv, OncePerTable
  <2>8. \A j \in Slot : table'[j] <= made'
    <3>1. ASSUME NEW j \in Slot PROVE table'[j] <= made'
      <4>1. table[j] \in Nat /\ table[j] <= made
        BY <1>7, <1>9
      <4>2. table'[j] = vc \/ table'[j] = table[j]
        BY <1>10
      <4> QED BY <1>3, <1>7, <4>1, <4>2
    <3> QED BY <3>1
  <2> QED BY <1>8, <2>2, <2>3, <2>4, <2>5, <2>6, <2>7, <2>8 DEF SlotsInv, SlotsTypeOK
<1>15. TableNumbered'
  BY <1>1, <1>6, <1>11, <1>12, <1>13 DEF TableNumbered
<1>16. /\ stage[c] \notin Unclaimed /\ \A v \in VcId : ~Drives(v, c)
       /\ \A h \in Command : moving[h] = <<c>> => h = g
  BY <1>1, <1>2 DEF InHand
<1>17. PoolInv'
  <2>1. ClaimedFirst'
    BY <1>1, <1>5, <1>12, <1>13, <1>16 DEF PoolInv, ClaimedFirst, taskVars
  <2>2. DrivenOnce'
    BY <1>1, <1>12, <1>13, <1>16 DEF PoolInv, DrivenOnce, Drives
  <2>3. ClosedIsStopped'
    <3>1. \A v \in VcId : vcStage[v] # "idle" => v <= made /\ ~running[v]
      BY <1>1 DEF PoolInv, ClosedIsStopped
    <3>2. \A v \in VcId : v <= made => v # vc /\ v <= made'
      BY <1>3, <1>7
    <3> QED BY <1>5, <1>12, <3>1, <3>2 DEF ClosedIsStopped, closeVars
  <2> QED BY <2>1, <2>2, <2>3 DEF PoolInv
<1>18. /\ CommandVarsTyped' /\ ArgsKnown'
       /\ \A h \in Command : phase'[h] = IF h = g THEN "split_new" ELSE phase[h]
       /\ \A h \in Command : moving'[h] = moving[h] \/ (h = g /\ moving'[h] = <<>>)
  <2>1. /\ first' \in [Command -> VcId \cup {NoVc}] /\ second' \in [Command -> VcId \cup {NoVc}]
        /\ "split_new" \in Phases
    BY <1>1, <1>4, <1>8 DEF CommandVarsTyped, Phases
  <2> QED BY <1>1, <1>4, <2>1, CommandTyped
<1>19. moving'[g] = <<>>
  BY <1>1, <1>4 DEF CommandVarsTyped
<1>20. InHand'
  <2>1. ASSUME NEW h \in Command, phase'[h] = "split_keep" PROVE \E d \in Controller : moving'[h] = <<d>>
    BY <1>1, <1>18, <2>1 DEF InHand
  <2>2. ASSUME NEW h \in Command, NEW d \in Controller, moving'[h] = <<d>>
        PROVE  /\ stage'[d] \notin Unclaimed
               /\ \A w \in VcId : ~Drives(w, d)'
               /\ \A k \in Command : moving'[k] = <<d>> => h = k
    <3>1. h # g /\ moving[h] = <<d>>
      BY <1>18, <1>19, <2>2
    <3>2. d # c
      BY <1>16, <3>1
    <3>3. /\ stage[d] \notin Unclaimed /\ \A w \in VcId : ~Drives(w, d)
          /\ \A k \in Command : moving[k] = <<d>> => h = k
      BY <1>1, <3>1 DEF InHand
    <3>4. \A w \in VcId : ~Drives(w, d)'
      BY <1>12, <1>13, <3>2, <3>3 DEF Drives
    <3>5. stage' = stage
      BY <1>5 DEF taskVars
    <3>6. \A k \in Command : moving'[k] = <<d>> => moving[k] = <<d>>
      BY <1>18
    <3> QED BY <3>3, <3>4, <3>5, <3>6
  <2> QED BY <2>1, <2>2 DEF InHand
<1>21. TypeOK' /\ SomebodyToReport'
  BY <1>1, <1>5, <1>14 DEF TypeOK, SomebodyToReport, SlotsInv, taskVars, linkVars, closeVars
<1> QED BY <1>14, <1>15, <1>17, <1>18, <1>20, <1>21 DEF CommandInv, SeatsInv

\* [a] + [b] is [a, b].
LEMMA ConcatOfSingles ==
  ASSUME NEW s \in Seq(Controller), NEW r \in Seq(Controller), Len(s) = 1, Len(r) = 1
  PROVE  s \o r \in Seq(Controller) /\ DOMAIN (s \o r) = {1, 2} /\ (s \o r)[1] = s[1] /\ (s \o r)[2] = r[1]
<1>1. /\ s \o r \in Seq(Controller) /\ Len(s \o r) = Len(s) + Len(r)
      /\ \A i \in 1 .. Len(s) + Len(r) : (s \o r)[i] = IF i <= Len(s) THEN s[i] ELSE r[i - Len(s)]
  BY ConcatProperties
<1>2. Len(s \o r) = 2 /\ \A i \in 1 .. 2 : (s \o r)[i] = IF i <= 1 THEN s[i] ELSE r[i - 1]
  BY <1>1
<1>3. DOMAIN (s \o r) = 1 .. 2
  BY <1>1, <1>2, LenProperties
<1>4. 1 .. 2 = {1, 2} /\ (s \o r)[1] = s[1] /\ (s \o r)[2] = r[1]
  BY <1>2
<1> QED BY <1>1, <1>3, <1>4

\* The only controller of one VirtualController moves to another, and the slot it leaves is
\* emptied.
LEMMA MergeMoves ==
  ASSUME CommandInv, NEW g \in Command, CommandStep(g), phase[g] # "idle", ~IsSplit(g), slots' = slots,
         NEW v, NEW w, v = table[slots[g][1]], w = table[slots[g][2]], v # NoVc, w # NoVc,
         Len(members[v]) = 1, Len(members[w]) = 1, NEW q, MergeEntered(g, q)
  PROVE  CommandInv'
<1>0. PICK k : k = slots[g][2]
  OBVIOUS
<1>1. /\ TypeOK /\ SomebodyToReport /\ SeatsInv /\ CommandVarsTyped /\ ArgsKnown /\ InHand
      /\ SlotsInv /\ PoolInv /\ TableNumbered /\ SlotsTypeOK
  BY DEF CommandInv, SeatsInv, SlotsInv
<1>2. /\ members' = [members EXCEPT ![v] = @ \o members[w], ![w] = <<>>]
      /\ running' = [running EXCEPT ![w] = FALSE]
      /\ device' = [device EXCEPT ![w] = FALSE]
      /\ table' = [table EXCEPT ![k] = NoVc]
      /\ first' = [first EXCEPT ![g] = v]
      /\ phase' = [phase EXCEPT ![g] = "merge_init"]
      /\ UNCHANGED <<made, player, second, moving>>
  BY <1>0 DEF MergeEntered, Goto
<1>3. UNCHANGED <<taskVars, linkVars, closeVars, stopping>>
  BY CommandsLeaveTasks
<1>4. v \in VcId /\ w \in VcId /\ k \in Slot /\ table[k] = w
  BY <1>0, <1>1, ArgsInTable
<1>5. /\ members \in [VcId -> Seq(Controller)] /\ table \in [Slot -> VcId \cup {NoVc}]
      /\ running \in [VcId -> BOOLEAN] /\ device \in [VcId -> BOOLEAN]
      /\ NoVc = 0 /\ made \in Nat
  BY <1>1, SlotsAssumption DEF SlotsTypeOK, NoVc
<1>6. PICK c \in Controller, d \in Controller :
        DOMAIN members[v] = {1} /\ members[v][1] = c /\ DOMAIN members[w] = {1} /\ members[w][1] = d
  <2>1. members[v] \in Seq(Controller) /\ members[w] \in Seq(Controller)
    BY <1>4, <1>5
  <2>2. members[v][1] \in Controller /\ members[w][1] \in Controller
    BY <2>1, ElementOfSeq
  <2>3. DOMAIN members[v] = 1 .. 1 /\ DOMAIN members[w] = 1 .. 1
    BY <2>1, LenProperties
  <2> QED BY <2>2, <2>3
<1>7. PICK both \in Seq(Controller) :
        both = members[v] \o members[w] /\ DOMAIN both = {1, 2} /\ both[1] = c /\ both[2] = d
  <2>1. members[v] \in Seq(Controller) /\ members[w] \in Seq(Controller)
    BY <1>4, <1>5
  <2>2. /\ members[v] \o members[w] \in Seq(Controller) /\ DOMAIN (members[v] \o members[w]) = {1, 2}
        /\ (members[v] \o members[w])[1] = members[v][1] /\ (members[v] \o members[w])[2] = members[w][1]
    BY <2>1, ConcatOfSingles
  <2> QED BY <1>6, <2>2
<1>8. /\ members'[w] = <<>> /\ (v # w => members'[v] = both)
      /\ \A u \in VcId : u # v /\ u # w => members'[u] = members[u]
  BY <1>2, <1>4, <1>5, <1>7
<1>two. v # w => DOMAIN members'[v] = {1, 2} /\ members'[v][1] = c /\ members'[v][2] = d
  BY <1>7, <1>8
<1>9. members' \in [VcId -> Seq(Controller)]
  <2>1. <<>> \in Seq(Controller)
    BY EmptySeq
  <2>2. members' = [u \in VcId |-> members'[u]]
    BY <1>2, <1>5
  <2>3. \A u \in VcId : members'[u] \in Seq(Controller)
    <3>1. ASSUME NEW u \in VcId PROVE members'[u] \in Seq(Controller)
      <4>1. CASE u = w
        BY <1>8, <2>1, <4>1
      <4>2. CASE u # w /\ u = v
        BY <1>7, <1>8, <4>2
      <4>3. CASE u # w /\ u # v
        BY <1>5, <1>8, <4>3
      <4> QED BY <4>1, <4>2, <4>3
    <3> QED BY <3>1
  <2> QED BY <2>2, <2>3
<1>10. /\ \A u \in VcId : (running'[u] <=> running[u] /\ u # w) /\ (device'[u] <=> device[u] /\ u # w)
       /\ running' \in [VcId -> BOOLEAN] /\ device' \in [VcId -> BOOLEAN]
  BY <1>2, <1>5
<1>11. \A i \in Slot : table'[i] = IF i = k THEN NoVc ELSE table[i]
  BY <1>2, <1>5
<1>12. /\ \A u \in VcId : InTable(u)' => InTable(u)
       /\ \A u \in VcId : InTable(u) /\ u # w => InTable(u)'
  <2>1. \A u \in VcId : u # NoVc
    BY DEF VcId, NoVc
  <2> QED BY <1>4, <1>11, <2>1 DEF InTable
<1>13. SlotsInv'
  <2>1. table' \in [Slot -> VcId \cup {NoVc}]
    BY <1>2, <1>5
  <2>2. OncePerTable(table)'
    BY <1>1, <1>11 DEF SlotsInv, OncePerTable
  <2>3. \A i \in Slot : table'[i] <= made
    <3>1. NoVc <= made
      BY <1>5
    <3> QED BY <1>1, <1>11, <3>1 DEF SlotsInv
  <2>4. made' = made /\ player' = player
    BY <1>2
  <2>5. \A u \in VcId : (running'[u] => InTable(u)') /\ (device'[u] => running'[u])
    BY <1>1, <1>10, <1>12 DEF SlotsInv
  <2> QED BY <1>1, <1>9, <1>10, <2>1, <2>2, <2>3, <2>4, <2>5 DEF SlotsInv, SlotsTypeOK
<1>14. TableNumbered'
  BY <1>1, <1>2, <1>12 DEF TableNumbered
<1>15. v # w => c # d
  BY <1>1, <1>4, <1>6 DEF PoolInv, DrivenOnce
<1>16. DOMAIN members'[w] = {}
  BY <1>8
<1>17. PoolInv'
  <2>1. ClaimedFirst'
    <3>1. \A u \in VcId : \A n \in DOMAIN members[u] : stage[members[u][n]] \notin Unclaimed
      BY <1>1 DEF PoolInv, ClaimedFirst
    <3>2. stage[c] \notin Unclaimed /\ stage[d] \notin Unclaimed /\ stage' = stage
      BY <1>3, <1>4, <1>6, <3>1 DEF taskVars
    <3>3. ASSUME NEW u \in VcId, NEW n \in DOMAIN members'[u] PROVE stage[members'[u][n]] \notin Unclaimed
      <4>1. u # w
        BY <1>16
      <4>2. CASE u = v
        <5>1. members'[u][n] \in {c, d}
          BY <1>two, <4>1, <4>2
        <5> QED BY <3>2, <5>1
      <4>3. CASE u # v
        BY <1>8, <3>1, <4>1, <4>3
      <4> QED BY <4>2, <4>3
    <3> QED BY <3>2, <3>3 DEF ClaimedFirst
  <2>2. DrivenOnce'
    <3>1. \A u \in VcId : u # v /\ u # w => \A n \in DOMAIN members[u] : members[u][n] \notin {c, d}
      BY <1>1, <1>4, <1>6 DEF PoolInv, DrivenOnce
    <3>2. \A u, x \in VcId : \A n \in DOMAIN members[u], m \in DOMAIN members[x] :
            members[u][n] = members[x][m] => u = x /\ n = m
      BY <1>1 DEF PoolInv, DrivenOnce
    <3>3. ASSUME NEW u \in VcId, NEW x \in VcId, NEW n \in DOMAIN members'[u], NEW m \in DOMAIN members'[x],
                 members'[u][n] = members'[x][m]
          PROVE  u = x /\ n = m
      <4>1. u # w /\ x # w
        BY <1>16
      <4>2. CASE u # v /\ x # v
        BY <1>8, <3>2, <3>3, <4>1, <4>2
      <4>3. CASE u = v /\ x = v
        BY <1>15, <1>two, <3>3, <4>1, <4>3
      <4>4. CASE u = v /\ x # v
        <5>1. members'[u][n] \in {c, d} /\ members'[x] = members[x]
          BY <1>8, <1>two, <4>1, <4>4
        <5> QED BY <3>1, <3>3, <4>1, <4>4, <5>1
      <4>5. CASE u # v /\ x = v
        <5>1. members'[x][m] \in {c, d} /\ members'[u] = members[u]
          BY <1>8, <1>two, <4>1, <4>5
        <5> QED BY <3>1, <3>3, <4>1, <4>5, <5>1
      <4> QED BY <4>2, <4>3, <4>4, <4>5
    <3> QED BY <3>3 DEF DrivenOnce
  <2>3. ClosedIsStopped'
    BY <1>1, <1>2, <1>3, <1>10 DEF PoolInv, ClosedIsStopped, closeVars
  <2> QED BY <2>1, <2>2, <2>3 DEF PoolInv
<1>18. /\ CommandVarsTyped' /\ ArgsKnown'
       /\ \A h \in Command : phase'[h] = IF h = g THEN "merge_init" ELSE phase[h]
       /\ \A h \in Command : moving'[h] = moving[h] \/ (h = g /\ moving'[h] = <<>>)
  <2>1. /\ first' \in [Command -> VcId \cup {NoVc}] /\ second' \in [Command -> VcId \cup {NoVc}]
        /\ "merge_init" \in Phases
    BY <1>1, <1>2, <1>4 DEF CommandVarsTyped, Phases
  <2> QED BY <1>1, <1>2, <2>1, CommandTyped
<1>19. InHand'
  <2>1. \A u \in VcId, e \in Controller : Drives(u, e)' => \E x \in VcId : Drives(x, e)
    <3>1. ASSUME NEW u \in VcId, NEW e \in Controller, NEW n \in DOMAIN members'[u], members'[u][n] = e
          PROVE  \E x \in VcId : Drives(x, e)
      <4>1. u # w
        BY <1>16
      <4>2. CASE u = v
        <5>1. e \in {c, d}
          BY <1>7, <1>8, <3>1, <4>1, <4>2
        <5> QED BY <1>4, <1>6, <5>1 DEF Drives
      <4>3. CASE u # v
        BY <1>8, <3>1, <4>1, <4>3 DEF Drives
      <4> QED BY <4>2, <4>3
    <3> QED BY <3>1 DEF Drives
  <2>2. stage' = stage
    BY <1>3 DEF taskVars
  <2> QED BY <1>1, <1>18, <2>1, <2>2, HandsKept
<1>20. TypeOK' /\ SomebodyToReport'
  BY <1>1, <1>3, <1>13 DEF TypeOK, SomebodyToReport, SlotsInv, taskVars, linkVars, closeVars
<1> QED BY <1>13, <1>14, <1>17, <1>18, <1>19, <1>20 DEF CommandInv, SeatsInv

\* Destroying a device keeps the slots sound.
LEMMA DeviceOffKeepsSlots ==
  ASSUME SlotsInv, NEW w, device' = [device EXCEPT ![w] = FALSE],
         UNCHANGED <<table, made, members, running, player>>
  PROVE  SlotsInv'
<1>1. device \in [VcId -> BOOLEAN]
  BY DEF SlotsInv, SlotsTypeOK
<1>2. device' \in [VcId -> BOOLEAN] /\ \A v \in VcId : device'[v] => device[v]
  BY <1>1
<1> QED BY <1>2 DEF SlotsInv, SlotsTypeOK, OncePerTable, InTable

\* Entering GLOBAL_LOCK, a command moves a controller or ends at once.
LEMMA EnteringKeepsCommands ==
  ASSUME CommandInv, NEW g \in Command, CommandStep(g), phase[g] # "idle", slots' = slots,
         NEW q, Entered(g, q)
  PROVE  CommandInv'
<1>1. ASSUME Leave(g, q), UNCHANGED <<vcVars, first, second>> PROVE CommandInv'
  <2>1. SlotsInv'
    BY <1>1, UntouchedSlots DEF CommandInv, SeatsInv
  <2>2. "done" \in Phases \ {"idle", "split_keep"}
    BY DEF Phases
  <2> QED BY <1>1, <2>1, <2>2, StillCommand DEF Leave, Goto, vcVars, InTable
<1>2. CASE IsSplit(g) /\ SplitEntered(g, q)
  <2>1. CASE table[slots[g][1]] = NoVc \/ Len(members[table[slots[g][1]]]) < 2
    BY <1>1, <1>2, <2>1 DEF SplitEntered
  <2>2. CASE ~(table[slots[g][1]] = NoVc \/ Len(members[table[slots[g][1]]]) < 2)
    BY <1>2, <2>2, SplitPops
  <2> QED BY <2>1, <2>2
<1>3. CASE ~IsSplit(g) /\ MergeEntered(g, q)
  <2>1. PICK v, w : v = table[slots[g][1]] /\ w = table[slots[g][2]]
    OBVIOUS
  <2>2. CASE v = NoVc \/ w = NoVc \/ Len(members[v]) # 1 \/ Len(members[w]) # 1
    BY <1>1, <1>3, <2>1, <2>2 DEF MergeEntered
  <2>3. CASE ~(v = NoVc \/ w = NoVc \/ Len(members[v]) # 1 \/ Len(members[w]) # 1)
    BY <1>3, <2>1, <2>3, MergeMoves
  <2> QED BY <2>2, <2>3
<1> QED BY <1>2, <1>3 DEF Entered

\* Every step of a command keeps all of it.
LEMMA StepKeepsCommands ==
  ASSUME CommandInv, NEW g \in Command, CommandStep(g)
  PROVE  CommandInv'
<1>1. SlotsInv /\ \A s \in Phases : s \notin {"idle", "split_keep"} => s \in Phases \ {"idle", "split_keep"}
  BY DEF CommandInv, SeatsInv
<1>2. CASE CommandStart(g)
  <2>1. CASE LockFree
    BY <1>2, <2>1, EnteringKeepsCommands DEF CommandStart
  <2>2. CASE ~LockFree
    <3>1. SlotsInv'
      BY <1>1, <1>2, <2>2, UntouchedSlots DEF CommandStart
    <3>2. "wait" \in Phases \ {"idle", "split_keep"}
      BY DEF Phases
    <3> QED BY <1>2, <2>2, <3>1, <3>2, StillCommand DEF CommandStart, Goto, vcVars, InTable
  <2> QED BY <2>1, <2>2
<1>3. CASE CommandGetsLock(g)
  BY <1>3, EnteringKeepsCommands DEF CommandGetsLock
<1>4. CASE SplitKept(g)
  BY <1>4, SplitCreates
<1>5. CASE SplitLoses(g) \/ SplitInsertRaises(g) \/ MergeInitRaises(g)
  <2>1. /\ UNCHANGED vcVars /\ phase[g] # "idle" /\ slots' = slots /\ first' = first /\ second' = second
        /\ phase' = [phase EXCEPT ![g] = "done"] /\ moving' = [moving EXCEPT ![g] = <<>>]
    BY <1>5 DEF SplitLoses, SplitInsertRaises, MergeInitRaises, Leave, Goto
  <2>2. SlotsInv'
    BY <1>1, <2>1, UntouchedSlots
  <2>3. "done" \in Phases \ {"idle", "split_keep"}
    BY DEF Phases
  <2> QED BY <2>1, <2>2, <2>3, StillCommand DEF vcVars, InTable
<1>6. CASE SplitInserted(g) \/ MergeInitialised(g)
  <2>1. /\ Reorder(table, members) /\ UNCHANGED <<made, members, running, device>>
        /\ phase[g] # "idle" /\ slots' = slots /\ first' = first /\ second' = second /\ moving' = moving
    BY <1>6 DEF SplitInserted, MergeInitialised
  <2>2. PICK s \in {"split_leds", "merge_leds"} : phase' = [phase EXCEPT ![g] = s]
    BY <1>6 DEF SplitInserted, MergeInitialised, Goto
  <2>3. SlotsInv' /\ PlayersInOrder' /\ \A v \in VcId : InTable(v)' => InTable(v)
    BY <1>1, <2>1, ReorderKeepsSlots
  <2>4. s \in Phases \ {"idle", "split_keep"}
    BY DEF Phases
  <2> QED BY <2>1, <2>2, <2>3, <2>4, StillCommand
<1>7. CASE SplitReleases(g) \/ MergeResets(g)
  <2>1. /\ device' = [device EXCEPT ![first[g]] = FALSE]
        /\ UNCHANGED <<table, made, members, running, player>>
        /\ phase[g] # "idle" /\ slots' = slots /\ first' = first /\ second' = second /\ moving' = moving
    BY <1>7 DEF SplitReleases, MergeResets
  <2>2. PICK s \in {"split_setup_first", "merge_setup"} : phase' = [phase EXCEPT ![g] = s]
    BY <1>7 DEF SplitReleases, MergeResets, Goto
  <2>3. SlotsInv'
    BY <1>1, <2>1, DeviceOffKeepsSlots
  <2>4. s \in Phases \ {"idle", "split_keep"}
    BY DEF Phases
  <2> QED BY <2>1, <2>2, <2>3, <2>4, StillCommand DEF InTable
<1>8. CASE SplitSetUpFirst(g) \/ SplitSetUpSecond(g) \/ MergeSetUp(g)
  <2>1. /\ device' \in Attempted(device, first[g]) \/ device' \in Attempted(device, second[g])
        /\ UNCHANGED <<table, made, members, running, player>>
        /\ phase[g] # "idle" /\ slots' = slots /\ first' = first /\ second' = second
        /\ moving' = moving \/ moving' = [moving EXCEPT ![g] = <<>>]
    BY <1>8 DEF SplitSetUpFirst, SplitSetUpSecond, MergeSetUp, Leave
  <2>2. PICK s \in {"split_setup_second", "done"} : phase' = [phase EXCEPT ![g] = s]
    BY <1>8 DEF SplitSetUpFirst, SplitSetUpSecond, MergeSetUp, Leave, Goto
  <2>3. SlotsInv'
    BY <1>1, <2>1, AttemptKeepsSlots
  <2>4. s \in Phases \ {"idle", "split_keep"}
    BY DEF Phases
  <2> QED BY <2>1, <2>2, <2>3, <2>4, StillCommand DEF InTable
<1> QED BY <1>2, <1>3, <1>4, <1>5, <1>6, <1>7, <1>8 DEF CommandStep

\* The program starts with no command, an empty table and no task.
LEMMA StartHasNoCommands == CommandsInit => CommandInv
<1> SUFFICES ASSUME CommandsInit PROVE CommandInv
  OBVIOUS
<1>1. Init /\ Inv /\ PoolInv
  BY InitEstablishesInv, InitShows DEF CommandsInit
<1>2. SlotsInv /\ TypeOK /\ SomebodyToReport
  BY <1>1 DEF Inv
<1>3. TableNumbered
  BY <1>1 DEF Init, SlotsInit, TableNumbered, InTable, NoVc, VcId
<1>4. CommandVarsTyped
  <2>1. <<>> \in Seq(Slot) /\ <<>> \in Seq(Controller) /\ "idle" \in Phases
    BY EmptySeq DEF Phases
  <2> QED BY <2>1 DEF CommandsInit, CommandVarsTyped
<1>5. ArgsKnown
  BY DEF CommandsInit, ArgsKnown
<1>6. InHand
  BY DEF CommandsInit, InHand
<1> QED BY <1>1, <1>2, <1>3, <1>4, <1>5, <1>6 DEF CommandInv, SeatsInv

LEMMA NextKeepsCommands == CommandInv /\ [CommandsNext]_allVars => CommandInv'
<1> SUFFICES ASSUME CommandInv, [CommandsNext]_allVars PROVE CommandInv'
  OBVIOUS
<1>1. CASE Discovery
  BY <1>1, DiscoveryKeepsCommands DEF Discovery
<1>2. CASE UNCHANGED allVars
  BY <1>2, DiscoveryKeepsCommands DEF allVars
<1>3. CASE \E g \in Command : ClickSplit(g) \/ ClickMerge(g) \/ CommandStep(g)
  BY <1>3, ClickKeepsCommands, StepKeepsCommands
<1> QED BY <1>1, <1>2, <1>3 DEF CommandsNext

\* Whatever is clicked, whenever the coroutines get GLOBAL_LOCK and whichever of their steps
\* fail, a Controller is in one list, once, or in the hands of one split; and no variable
\* leaves its type.
THEOREM HomesKept == CommandsSpec => []HomesTyped
<1>1. CommandInv => HomesTyped
  <2> SUFFICES ASSUME CommandInv PROVE HomesTyped
    OBVIOUS
  <2>1. DrivenOnce /\ InHand /\ TypeOK /\ CommandVarsTyped
    BY DEF CommandInv, SeatsInv, PoolInv
  <2>2. CommandsTypeOK
    BY <2>1 DEF CommandsTypeOK, CommandVarsTyped
  <2>3. OneHome
    BY <2>1 DEF OneHome, DrivenOnce, InHand, Drives
  <2> QED BY <2>2, <2>3 DEF HomesTyped
<1> QED BY <1>1, StartHasNoCommands, NextKeepsCommands, PTL DEF CommandsSpec

\* Nor does a split or a merge leave a virtual device that no slot of the table owns.
THEOREM CommandsLeaveNoZombie == CommandsSpec => []NoZombieDevice
<1>1. CommandInv => NoZombieDevice
  BY DEF CommandInv, SeatsInv, SlotsInv, NoZombieDevice
<1> QED BY <1>1, StartHasNoCommands, NextKeepsCommands, PTL DEF CommandsSpec

\* An address stays reserved only while an attempt on it is on its way, whatever is split or
\* merged meanwhile: the commands touch neither the reservations nor the attempts.
THEOREM CommandsKeepReservations == CommandsSpec => []NoLeakedReservation
<1>1. CommandsInit => NoLeakedReservation
  BY InitEstablishesInv DEF CommandsInit
<1>2. CommandInv /\ NoLeakedReservation /\ [CommandsNext]_allVars => NoLeakedReservation'
  <2> SUFFICES ASSUME CommandInv, NoLeakedReservation, [CommandsNext]_allVars PROVE NoLeakedReservation'
    OBVIOUS
  <2>1. CASE [Next]_vars
    BY <2>1, ReservationStep DEF CommandInv
  <2>2. ASSUME NEW g \in Command, ClickSplit(g) \/ ClickMerge(g) \/ CommandStep(g)
        PROVE  NoLeakedReservation'
    <3>1. UNCHANGED taskVars
      BY <2>2, CommandsLeaveTasks
    <3> QED BY <3>1 DEF NoLeakedReservation, taskVars
  <2> QED BY <2>1, <2>2 DEF CommandsNext, Discovery, allVars
<1> QED BY <1>1, <1>2, StartHasNoCommands, NextKeepsCommands, PTL DEF CommandsSpec

\* What a command does when it has the lock: a merge takes out of the table the one slot whose
\* controller it moved, and nothing else leaves the table.
LEMMA EnteringFreesEmptied ==
  ASSUME CommandInv, NEW g \in Command, NEW q, Entered(g, q)
  PROVE  SlotFreed
<1>1. \A v \in VcId : v # NoVc
  BY DEF VcId, NoVc
<1>2. CASE table' = table
  BY <1>2 DEF SlotFreed, InTable
<1>3. CASE ~IsSplit(g) /\ table' # table
  <2>1. PICK k, w : k = slots[g][2] /\ w = table[k]
    OBVIOUS
  <2>2. /\ table' = [table EXCEPT ![k] = NoVc]
        /\ \E v : members' = [members EXCEPT ![v] = @ \o members[w], ![w] = <<>>]
    BY <1>3, <2>1 DEF Entered, MergeEntered, vcVars
  <2>3. table \in [Slot -> VcId \cup {NoVc}] /\ members \in [VcId -> Seq(Controller)]
    BY DEF CommandInv, SeatsInv, SlotsInv, SlotsTypeOK
  <2>4. ASSUME NEW v \in VcId, InTable(v), ~InTable(v)' PROVE members'[v] = <<>>
    <3>1. PICK i \in Slot : table[i] = v
      BY <2>4 DEF InTable
    <3>2. i = k
      BY <2>2, <2>3, <2>4, <3>1 DEF InTable
    <3> QED BY <2>1, <2>2, <2>3, <3>1, <3>2
  <2> QED BY <2>4 DEF SlotFreed
<1> QED BY <1>2, <1>3 DEF Entered, SplitEntered, vcVars

\* No step of a command takes a VirtualController out of the table while it has a controller.
LEMMA CommandsFreeEmptied ==
  ASSUME CommandInv, NEW g \in Command, CommandStep(g)
  PROVE  SlotFreed
<1>1. CASE CommandStart(g) \/ CommandGetsLock(g)
  <2>1. (\E q : Entered(g, q)) \/ table' = table
    BY <1>1 DEF CommandStart, CommandGetsLock, vcVars
  <2> QED BY <2>1, EnteringFreesEmptied DEF SlotFreed, InTable
<1>2. CASE SplitKept(g)
  <2>1. PICK i : i = First({j \in Slot : table[j] = NoVc}) /\ table' = [table EXCEPT ![i] = NewVc]
    BY <1>2 DEF SplitKept
  <2>2. i \in Slot /\ table[i] = NoVc
    <3>1. {j \in Slot : table[j] = NoVc} \in SUBSET Nat /\ {j \in Slot : table[j] = NoVc} # {}
      BY <1>2, SlotsAssumption DEF SplitKept, Slot
    <3> QED BY <2>1, <3>1, FirstIsLeast
  <2>3. table \in [Slot -> VcId \cup {NoVc}]
    BY DEF CommandInv, SeatsInv, SlotsInv, SlotsTypeOK
  <2>4. \A v \in VcId : InTable(v) => InTable(v)'
    BY <2>1, <2>2, <2>3 DEF InTable, VcId, NoVc
  <2> QED BY <2>4 DEF SlotFreed
<1>3. CASE SplitInserted(g) \/ MergeInitialised(g)
  <2>1. Reorder(table, members) /\ UNCHANGED <<made, members, running, device>>
    BY <1>3 DEF SplitInserted, MergeInitialised
  <2> QED BY <2>1, ReorderKeepsSlots DEF CommandInv, SeatsInv, SlotFreed
<1>4. CASE \/ SplitLoses(g) \/ SplitInsertRaises(g) \/ SplitReleases(g) \/ SplitSetUpFirst(g)
           \/ SplitSetUpSecond(g) \/ MergeInitRaises(g) \/ MergeResets(g) \/ MergeSetUp(g)
  <2>1. table' = table
    BY <1>4 DEF SplitLoses, SplitInsertRaises, SplitReleases, SplitSetUpFirst, SplitSetUpSecond,
                MergeInitRaises, MergeResets, MergeSetUp, vcVars
  <2> QED BY <2>1 DEF SlotFreed, InTable
<1> QED BY <1>1, <1>2, <1>3, <1>4 DEF CommandStep

\* With splits and merges beside the connection route, a slot is still emptied only when its
\* VirtualController has lost its last controller: a merge moves the controller before it frees
\* the slot, wherever the table was reordered to since the click.
THEOREM CommandsFreeSlots == CommandsSpec => SlotFreedWhenEmpty
<1>1. CommandInv /\ [CommandsNext]_allVars
        => [\A v \in VcId : InTable(v) /\ ~InTable(v)' => members'[v] = <<>>]_vars
  <2> SUFFICES ASSUME CommandInv, [CommandsNext]_allVars PROVE SlotFreed \/ UNCHANGED vars
    BY DEF SlotFreed
  <2>1. CASE [Next]_vars
    BY <2>1, SlotsStep DEF CommandInv, SeatsInv
  <2>2. ASSUME NEW g \in Command, ClickSplit(g) \/ ClickMerge(g) PROVE UNCHANGED vars
    BY <2>2 DEF ClickSplit, ClickMerge, Post
  <2> QED BY <2>1, <2>2, CommandsFreeEmptied DEF CommandsNext, Discovery, allVars
<1> QED BY <1>1, StartHasNoCommands, NextKeepsCommands, PTL DEF CommandsSpec, SlotFreedWhenEmpty

=============================================================================
