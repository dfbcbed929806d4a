-------------------------- MODULE SystemBtRouteProofs --------------------------
(***************************************************************************)
(* Safety of SystemBtRoute for every set of controllers and addresses and  *)
(* every number of slots.  Inv at the end of the module is the inductive   *)
(* invariant; each conjunct has a "Step" lemma that goes through the       *)
(* actions of Next:                                                        *)
(*   SlotsInv          SlotsStep        the slot table and the devices     *)
(*   SomebodyToReport  TodoStep         the host-side close                *)
(*   LockInv           LockStep         GLOBAL_LOCK's queue and sections   *)
(*   TypeOK            AddIsTyped, OthersAreTyped for the other variables  *)
(*   OrderInv          OrderStep        the players' numbers               *)
(* NoLeakedReservation and PairsOpposite are inductive relative to Inv, and*)
(* so is PoolInv, with which every step is a step of SlotPool or a stutter.*)
(*                                                                         *)
(* The last part is UsableUnlessClosed, on top of Inv and PoolInv.  Its    *)
(* invariant Life says, of each attempt, what its link, its callback and   *)
(* its slot owe each other (RadioOk, HomeOk, ReadyOk), of each close what  *)
(* it still has to report (TodoOk), and counts the attempts that are still *)
(* to forget an address (Counted).  It says nothing once a slot is dead,   *)
(* and that is for good (DeadStays).  There the steps are sorted by what   *)
(* they do rather than by where they stand in the code: most are Moves, by *)
(* which an attempt goes on (Goes) and no address is forgotten by more than*)
(* its share (Owed, Settles); the others are claims (Claims, Pays) and the *)
(* steps of a close (Rests, Reports).                                      *)
(***************************************************************************)
EXTENDS SystemBtRoute, PlayerSlotsProofs

\* A close that is about to call the callback, or in its critical section, has
\* somebody to report.
SomebodyToReport == \A v \in VcId : vcStage[v] \in {"wait", "reinit", "leds"} => vcTodo[v] # <<>>

\* A slot that a step empties has lost its last controller: the action of
\* SlotFreedWhenEmpty.
SlotFreed == \A v \in VcId : InTable(v) /\ ~InTable(v)' => members'[v] = <<>>

\* A step that touches no VirtualController keeps the slots sound.
LEMMA UntouchedSlots ==
  ASSUME SlotsInv, UNCHANGED vcVars
  PROVE  SlotsInv' /\ SlotFreed
BY DEF vcVars, SlotsInv, SlotsTypeOK, OncePerTable, InTable, SlotFreed

\* Each of the three ways add_controller leaves its critical section keeps the slots
\* sound and frees none.
LEMMA ClaimKeepsSlots ==
  ASSUME SlotsInv, NEW c \in Controller, NEW q, NEW macs, NEW reserved,
         Claim(c, q, macs, reserved)
  PROVE  SlotsInv' /\ SlotFreed
<1>1. CASE JoinPair(c, q, macs, reserved)
  <2> DEFINE w == table[First(MergeSlots(c))]
  <2>1. /\ members' = [members EXCEPT ![w] = Append(@, c)]
        /\ UNCHANGED <<table, made, running, device, player>>
    BY <1>1 DEF JoinPair
  <2> HIDE DEF w
  <2>2. members \in [VcId -> Seq(Controller)]
    BY DEF SlotsInv, SlotsTypeOK
  <2>3. members' \in [VcId -> Seq(Controller)]
    <3>1. \A v \in VcId : Append(members[v], c) \in Seq(Controller)
      BY <2>2, AppendProperties
    <3> QED BY <2>1, <2>2, <3>1
  <2> QED BY <2>1, <2>3 DEF SlotsInv, SlotsTypeOK, OncePerTable, InTable, SlotFreed
<1>2. CASE TakeSlot(c, q, macs, reserved)
  BY <1>2, TakingSlotKeepsSlots DEF TakeSlot, SlotFreed
<1>3. CASE FindTableFull(c, q, macs)
  BY <1>3, UntouchedSlots DEF FindTableFull
<1> QED BY <1>1, <1>2, <1>3 DEF Claim

\* So does the promotion that may run straight into it.
LEMMA PromoteKeepsSlots ==
  ASSUME SlotsInv, NEW c \in Controller, Promote(c)
  PROVE  SlotsInv' /\ SlotFreed
<1>1. CASE LockFree
  BY <1>1, ClaimKeepsSlots DEF Promote
<1>2. CASE ~LockFree
  BY <1>2, UntouchedSlots DEF Promote
<1> QED BY <1>1, <1>2

\* setup_virtual_device() creates no device for a VirtualController that was stopped.
LEMMA AttemptFreesNone ==
  ASSUME SlotsInv, NEW w, device' \in Attempted(device, w),
         UNCHANGED <<table, made, members, running, player>>
  PROVE  SlotsInv' /\ SlotFreed
BY AttemptKeepsSlots DEF SlotFreed, InTable

\* The disconnect callback frees a slot only with its last controller.
LEMMA EnterDropKeepsSlots ==
  ASSUME SlotsInv, NEW c \in Controller, EnterDrop(c)
  PROVE  SlotsInv' /\ SlotFreed
<1>1. CASE LockFree
  BY <1>1, EvictKeepsSlots DEF EnterDrop, EvictLocked, SlotFreed
<1>2. CASE ~LockFree
  BY <1>2, UntouchedSlots DEF EnterDrop
<1> QED BY <1>1, <1>2

\* A step that only reorders keeps the slots sound and frees none.
LEMMA ReorderStep ==
  ASSUME SlotsInv, Reorder(table, members), UNCHANGED <<made, members, running, device>>
  PROVE  SlotsInv' /\ SlotFreed
BY ReorderKeepsSlots DEF SlotFreed

\* VirtualController.disconnect keeps the slots sound; it frees one only through the
\* disconnect callback.
LEMMA CloseKeepsSlots ==
  ASSUME SlotsInv, TypeOK, SomebodyToReport, NEW v \in VcId, CloseStep(v)
  PROVE  SlotsInv' /\ SlotFreed
<1>1. CASE CloseGathered(v)
  BY <1>1, UntouchedSlots DEF CloseGathered, slotVars
<1>2. ASSUME NEW q, CloseLocked(v, q), vcTodo[v] # <<>> PROVE SlotsInv' /\ SlotFreed
  <2>1. Head(vcTodo[v]) \in Controller
    <3>1. vcTodo[v] \in Seq(Controller)
      BY DEF TypeOK
    <3> QED BY <3>1, <1>2, HeadTailProperties
  <2>2. Evict(Head(vcTodo[v]))
    BY <1>2 DEF CloseLocked, EvictLocked
  <2> QED BY <2>1, <2>2, EvictKeepsSlots DEF SlotFreed
<1>3. CASE CloseNotify(v)
  <2>1. CASE UNCHANGED vcVars
    BY <2>1, UntouchedSlots
  <2>2. CASE CloseLocked(v, <<Close(v)>>)
    BY <1>2, <1>3, <2>2 DEF CloseNotify
  <2> QED BY <1>3, <2>1, <2>2 DEF CloseNotify, slotVars
<1>4. CASE CloseGetsLock(v)
  BY <1>2, <1>4 DEF CloseGetsLock, SomebodyToReport
<1>5. CASE CloseReorders(v) \/ CloseReleases(v)
  BY <1>5, ReorderStep, UntouchedSlots DEF CloseReorders, CloseReleases, vcVars
<1>6. CASE CloseEnd(v)
  <2>1. /\ members' = [members EXCEPT ![v] = <<>>]
        /\ UNCHANGED <<table, made, running, device, player>>
    BY <1>6 DEF CloseEnd
  <2>2. members' \in [VcId -> Seq(Controller)]
    <3>1. members \in [VcId -> Seq(Controller)]
      BY DEF SlotsInv, SlotsTypeOK
    <3> QED BY <2>1, <3>1
  <2> QED BY <2>1, <2>2 DEF SlotsInv, SlotsTypeOK, OncePerTable, InTable, SlotFreed
<1> QED BY <1>1, <1>3, <1>4, <1>5, <1>6 DEF CloseStep

\* Every step of the route keeps the slots sound, and a slot it frees has lost its
\* last controller.
LEMMA SlotsStep ==
  ASSUME SlotsInv, TypeOK, SomebodyToReport, [Next]_vars
  PROVE  SlotsInv' /\ SlotFreed
<1>1. ASSUME NEW c \in Controller, Advertise(c) PROVE UNCHANGED vcVars
  BY <1>1 DEF Advertise
<1>2. ASSUME NEW c \in Controller, AddStep(c) PROVE SlotsInv' /\ SlotFreed
  <2>1. CASE ScanGetsLock(c) \/ ConnectStart(c) \/ LinkUp(c) \/ ConnectDone(c) \/ ConnectRaises(c)
    <3>1. UNCHANGED vcVars
      BY <2>1 DEF ScanGetsLock, ConnectStart, LinkUp, ConnectDone, ConnectRaises, slotVars
    <3> QED BY <3>1, UntouchedSlots
  <2>2. CASE InitializeRaises(c) \/ InitializeAborted(c) \/ PairStart(c) \/ PairRaises(c)
             \/ MergeRaises(c) \/ RollbackGetsLock(c)
    <3>1. UNCHANGED vcVars
      BY <2>2 DEF InitializeRaises, InitializeAborted, PairStart, PairRaises, MergeRaises,
                  RollbackGetsLock, slotVars
    <3> QED BY <3>1, UntouchedSlots
  <2>3. CASE InitializeDone(c)
    BY <2>3, PromoteKeepsSlots, UntouchedSlots DEF InitializeDone, slotVars
  <2>4. CASE PairDone(c)
    BY <2>4, PromoteKeepsSlots DEF PairDone
  <2>5. CASE AddGetsLock(c)
    BY <2>5, ClaimKeepsSlots DEF AddGetsLock
  <2>6. CASE MergeDone(c)
    BY <2>6, ReorderStep DEF MergeDone
  <2>7. CASE SetupDone(c) \/ SetupFails(c)
    <3>1. device' \in Attempted(device, home[c])
      BY <2>7 DEF SetupDone, SetupFails, SetupSucceeds, SetupRaises
    <3>2. UNCHANGED <<table, made, members, running, player>>
      BY <2>7 DEF SetupDone, SetupFails
    <3> QED BY <3>1, <3>2, AttemptFreesNone
  <2> QED BY <1>2, <2>1, <2>2, <2>3, <2>4, <2>5, <2>6, <2>7 DEF AddStep
<1>3. ASSUME NEW c \in Controller, DropStep(c) PROVE SlotsInv' /\ SlotFreed
  <2>1. CASE DropStart(c)
    BY <2>1, EnterDropKeepsSlots, UntouchedSlots DEF DropStart, slotVars
  <2>2. CASE DropGetsLock(c)
    BY <2>2, EvictKeepsSlots DEF DropGetsLock, EvictLocked, SlotFreed
  <2>3. CASE DropReorders(c)
    BY <2>3, ReorderStep, UntouchedSlots DEF DropReorders, vcVars
  <2>4. CASE DropDone(c)
    BY <2>4, UntouchedSlots DEF DropDone
  <2> QED BY <1>3, <2>1, <2>2, <2>3, <2>4 DEF DropStep
<1>4. ASSUME NEW c \in Controller, DisconnectStep(c) PROVE SlotsInv' /\ SlotFreed
  <2>1. CASE DisconnectDone(c)
    BY <2>1, EnterDropKeepsSlots DEF DisconnectDone
  <2>2. CASE DisconnectGivesUp(c)
    BY <2>2, UntouchedSlots DEF DisconnectGivesUp, slotVars
  <2> QED BY <1>4, <2>1, <2>2 DEF DisconnectStep
<1>5. ASSUME NEW v \in VcId, CloseStart(v) PROVE SlotsInv' /\ SlotFreed
  <2>1. /\ running' = [running EXCEPT ![v] = FALSE]
        /\ device' = [device EXCEPT ![v] = FALSE]
        /\ UNCHANGED <<table, made, members, player>>
    BY <1>5 DEF CloseStart
  <2>2. running \in [VcId -> BOOLEAN] /\ device \in [VcId -> BOOLEAN]
    BY DEF SlotsInv, SlotsTypeOK
  <2>3. /\ running' \in [VcId -> BOOLEAN] /\ device' \in [VcId -> BOOLEAN]
        /\ \A w \in VcId : running'[w] => running[w]
        /\ \A w \in VcId : device'[w] => device[w] /\ w # v
        /\ \A w \in VcId : w # v => running'[w] = running[w]
    BY <2>1, <2>2
  <2> QED BY <2>1, <2>3 DEF SlotsInv, SlotsTypeOK, OncePerTable, InTable, SlotFreed
<1>6. ASSUME NEW a \in Addr, LinkDrop(a) PROVE UNCHANGED vcVars
  BY <1>6 DEF LinkDrop, slotVars
<1>7. CASE Stop \/ AtRest \/ UNCHANGED vars
  <2>1. UNCHANGED vcVars
    BY <1>7 DEF Stop, AtRest, vars, slotVars
  <2> QED BY <2>1, UntouchedSlots
<1> QED BY <1>1, <1>2, <1>3, <1>4, <1>5, <1>6, <1>7, UntouchedSlots, CloseKeepsSlots DEF Next

-----------------------------------------------------------------------------

\* No step of the other tasks touches VirtualController.disconnect.
LEMMA OthersLeaveCloses ==
  ASSUME NEW c \in Controller, Advertise(c) \/ AddStep(c) \/ DropStep(c) \/ DisconnectStep(c)
  PROVE  vcStage' = vcStage /\ vcTodo' = vcTodo
<1>1. CASE Advertise(c)
  BY <1>1 DEF Advertise, closeVars
<1>2. CASE AddStep(c)
  BY <1>2 DEF AddStep, ScanGetsLock, ConnectStart, LinkUp, ConnectDone, ConnectRaises, closeVars,
              InitializeDone, InitializeRaises, InitializeAborted, PairStart, PairDone, PairRaises,
              AddGetsLock, MergeDone, MergeRaises, SetupDone, SetupFails, RollbackGetsLock
<1>3. CASE DropStep(c) \/ DisconnectStep(c)
  BY <1>3 DEF DropStep, DropStart, DropGetsLock, DropReorders, DropDone, DisconnectStep, DisconnectDone,
              DisconnectGivesUp, closeVars
<1> QED BY <1>1, <1>2, <1>3

\* VirtualController.disconnect never enters the disconnect callback's critical section
\* without a controller to report.
LEMMA TodoStep ==
  ASSUME SomebodyToReport, TypeOK, [Next]_vars
  PROVE  SomebodyToReport' /\ vcTodo' \in [VcId -> Seq(Controller)]
                           /\ vcStage' \in [VcId -> {"idle", "closing", "notify", "wait", "reinit", "leds"}]
<1>1. /\ vcStage \in [VcId -> {"idle", "closing", "notify", "wait", "reinit", "leds"}]
      /\ vcTodo \in [VcId -> Seq(Controller)]
      /\ members \in [VcId -> Seq(Controller)]
  BY DEF TypeOK, SlotsTypeOK
<1>2. ASSUME NEW v \in VcId, CloseStart(v) \/ CloseStep(v)
      PROVE  SomebodyToReport' /\ vcTodo' \in [VcId -> Seq(Controller)]
                /\ vcStage' \in [VcId -> {"idle", "closing", "notify", "wait", "reinit", "leds"}]
  <2>1. CASE CloseStart(v)
    BY <1>1, <2>1 DEF CloseStart, SomebodyToReport
  <2>2. CASE CloseGathered(v)
    BY <1>1, <2>2 DEF CloseGathered, SomebodyToReport
  <2>3. ASSUME Done(v), vcTodo[v] # <<>>
        PROVE  SomebodyToReport' /\ vcTodo' \in [VcId -> Seq(Controller)]
                /\ vcStage' \in [VcId -> {"idle", "closing", "notify", "wait", "reinit", "leds"}]
    <3>1. vcTodo[v] \in Seq(Controller)
      BY <1>1
    <3>2. Tail(vcTodo[v]) \in Seq(Controller)
      BY <3>1, <2>3, HeadTailProperties
    <3> QED BY <1>1, <2>3, <3>2 DEF Done, CloseGoto, SomebodyToReport
  <2>4. ASSUME NEW s \in {"notify", "wait", "reinit", "leds"}, CloseGoto(v, s), UNCHANGED vcTodo,
               vcTodo[v] # <<>>
        PROVE  SomebodyToReport' /\ vcTodo' \in [VcId -> Seq(Controller)]
                /\ vcStage' \in [VcId -> {"idle", "closing", "notify", "wait", "reinit", "leds"}]
    BY <1>1, <2>4 DEF CloseGoto, SomebodyToReport
  <2>5. CASE CloseNotify(v)
    <3>1. vcStage[v] = "notify" /\ vcTodo[v] # <<>>
      BY <2>5 DEF CloseNotify
    <3>2. CASE Done(v)
      BY <2>3, <3>1, <3>2
    <3>3. CASE UNCHANGED vcTodo /\ (CloseGoto(v, "wait") \/ CloseGoto(v, "reinit"))
      BY <2>4, <3>1, <3>3
    <3> QED BY <2>5, <3>2, <3>3 DEF CloseNotify, CloseLocked
  <2>6. CASE CloseGetsLock(v)
    BY <2>4, <2>6 DEF CloseGetsLock, CloseLocked, SomebodyToReport
  <2>7. CASE CloseReorders(v) \/ CloseReleases(v)
    BY <2>3, <2>4, <2>7 DEF CloseReorders, CloseReleases, SomebodyToReport
  <2>8. CASE CloseEnd(v)
    BY <1>1, <2>8 DEF CloseEnd, SomebodyToReport
  <2> QED BY <1>2, <2>1, <2>2, <2>5, <2>6, <2>7, <2>8 DEF CloseStep
<1>3. ASSUME UNCHANGED closeVars
      PROVE  SomebodyToReport' /\ vcTodo' \in [VcId -> Seq(Controller)]
                /\ vcStage' \in [VcId -> {"idle", "closing", "notify", "wait", "reinit", "leds"}]
  BY <1>1, <1>3 DEF closeVars, SomebodyToReport
<1>4. ASSUME NEW c \in Controller, Advertise(c) \/ AddStep(c) \/ DropStep(c) \/ DisconnectStep(c)
      PROVE  UNCHANGED closeVars
  BY <1>4, OthersLeaveCloses DEF closeVars
<1>5. CASE (\E a \in Addr : LinkDrop(a)) \/ Stop \/ AtRest \/ UNCHANGED vars
  <2>1. UNCHANGED closeVars
    BY <1>5 DEF LinkDrop, Stop, AtRest, vars
  <2> QED BY <2>1, <1>3
<1> QED BY <1>2, <1>3, <1>4, <1>5 DEF Next

-----------------------------------------------------------------------------
\* The coroutines that take GLOBAL_LOCK.
Process == ({"scan", "add", "rollback", "drop"} \X Controller) \cup ({"close"} \X VcId)

\* The lock discipline: a queue of processes, its head alone in a critical section.
LockInv == lockq \in Seq(Process) /\ CriticalSectionsExclusive

\* The coroutines that queue for GLOBAL_LOCK are processes.
LEMMA Processes ==
  /\ \A c \in Controller : {Scan(c), Add(c), Rollback(c), Drop(c)} \subseteq Process
  /\ \A v \in VcId : Close(v) \in Process
BY DEF Process, Scan, Add, Rollback, Drop, Close

\* What joining and leaving asyncio.Lock's queue does to its head.
LEMMA QueueSteps ==
  ASSUME NEW q \in Seq(Process), NEW p \in Process
  PROVE  /\ Append(q, p) \in Seq(Process) /\ Append(q, p) # <<>>
         /\ q # <<>> => Head(Append(q, p)) = Head(q) /\ Tail(q) \in Seq(Process)
         /\ <<p>> \in Seq(Process) /\ <<p>> # <<>> /\ Head(<<p>>) = p /\ Tail(<<p>>) = <<>>
         /\ <<>> \in Seq(Process)
BY AppendProperties, HeadTailProperties, HeadTailAppend, EmptySeq

\* A step that leaves the holder of GLOBAL_LOCK alone keeps critical sections exclusive
\* if whoever enters one holds the lock afterwards.
LEMMA SectionsKept ==
  ASSUME CriticalSectionsExclusive,
         lockq # <<>> => lockq' # <<>> /\ Head(lockq') = Head(lockq),
         \A c \in Controller : stage'[c] = "merge" =>
            stage[c] = "merge" \/ (lockq' # <<>> /\ Head(lockq') = Add(c)),
         \A c \in Controller : drop'[c] \in {"reinit", "leds"} =>
            drop[c] \in {"reinit", "leds"} \/ (lockq' # <<>> /\ Head(lockq') = Drop(c)),
         \A v \in VcId : vcStage'[v] \in {"reinit", "leds"} =>
            vcStage[v] \in {"reinit", "leds"} \/ (lockq' # <<>> /\ Head(lockq') = Close(v))
  PROVE  CriticalSectionsExclusive'
BY DEF CriticalSectionsExclusive, Holds, Add, Drop, Close

\* A release by the holder keeps critical sections exclusive when the holder leaves its
\* own section and nobody enters one.
LEMMA SectionsReleased ==
  ASSUME CriticalSectionsExclusive, NEW p, Holds(p),
         \A c \in Controller : stage'[c] = "merge" => stage[c] = "merge" /\ p # Add(c),
         \A c \in Controller : drop'[c] \in {"reinit", "leds"} => drop[c] \in {"reinit", "leds"} /\ p # Drop(c),
         \A v \in VcId : vcStage'[v] \in {"reinit", "leds"} => vcStage[v] \in {"reinit", "leds"} /\ p # Close(v)
  PROVE  CriticalSectionsExclusive'
BY DEF CriticalSectionsExclusive, Holds

\* The failure path of add_controller joins the lock queue at its end and is over.
LEMMA FailQueues ==
  ASSUME TypeOK, NEW c \in Controller, NEW q \in Seq(Process), NEW macs, Fail(c, q, macs)
  PROVE  /\ lockq' \in Seq(Process)
         /\ q # <<>> => lockq' # <<>> /\ Head(lockq') = Head(q)
         /\ stage' \in [Controller -> Stages]
         /\ stage'[c] \in Ending /\ \A d \in Controller : d # c => stage'[d] = stage[d]
<1>1. Rollback(c) \in Process
  BY Processes
<1>2. lockq' = IF q = <<>> THEN q ELSE Append(q, Rollback(c))
  BY DEF Fail
<1>3. \E s \in Ending : stage' = [stage EXCEPT ![c] = s]
  BY DEF Fail, FinishRollback, Ending
<1>4. stage \in [Controller -> Stages] /\ Ending \subseteq Stages
  BY DEF TypeOK, Stages
<1> QED BY <1>1, <1>2, <1>3, <1>4, QueueSteps

\* A claim enters its critical section only as the holder of GLOBAL_LOCK, and releases
\* it otherwise.
LEMMA ClaimQueues ==
  ASSUME TypeOK, NEW c \in Controller, NEW q \in Seq(Process), NEW macs, NEW reserved,
         q # <<>>, Head(q) = Add(c), lockq # <<>> => lockq = q, stage[c] # "merge",
         Claim(c, q, macs, reserved), CriticalSectionsExclusive, UNCHANGED <<drop, vcStage>>
  PROVE  LockInv' /\ stage' \in [Controller -> Stages]
<1>1. stage \in [Controller -> Stages]
  BY DEF TypeOK
<1>2. CASE JoinPair(c, q, macs, reserved)
  <2>1. lockq' = q /\ stage' = [stage EXCEPT ![c] = "merge"]
    BY <1>2 DEF JoinPair
  <2>2. CriticalSectionsExclusive'
    BY <1>1, <2>1, SectionsKept
  <2> QED BY <1>1, <2>1, <2>2 DEF LockInv, Stages, Promoted
<1>3. ASSUME lockq' \in Seq(Process), stage' \in [Controller -> Stages],
             \A d \in Controller : stage'[d] = "merge" => stage[d] = "merge" /\ d # c
      PROVE  LockInv' /\ stage' \in [Controller -> Stages]
  <2>1. CASE lockq = <<>>
    BY <1>3, <2>1 DEF CriticalSectionsExclusive, Holds, LockInv
  <2>2. CASE lockq # <<>>
    <3>1. Holds(Add(c))
      BY <2>2 DEF Holds
    <3>2. \A d \in Controller : stage'[d] = "merge" => stage[d] = "merge" /\ Add(c) # Add(d)
      BY <1>3 DEF Scan, Add, Rollback, Drop, Close
    <3>3. \A d \in Controller : drop'[d] \in {"reinit", "leds"} => drop[d] \in {"reinit", "leds"} /\ Add(c) # Drop(d)
      BY DEF Scan, Add, Rollback, Drop, Close
    <3>4. \A v \in VcId : vcStage'[v] \in {"reinit", "leds"} => vcStage[v] \in {"reinit", "leds"} /\ Add(c) # Close(v)
      BY DEF Scan, Add, Rollback, Drop, Close
    <3>5. CriticalSectionsExclusive'
      BY <3>1, <3>2, <3>3, <3>4, SectionsReleased
    <3> QED BY <1>3, <3>5 DEF LockInv
  <2> QED BY <2>1, <2>2
<1>4. Tail(q) \in Seq(Process)
  BY HeadTailProperties
<1>5. CASE TakeSlot(c, q, macs, reserved)
  <2>1. lockq' = Tail(q) /\ stage' = [stage EXCEPT ![c] = "virtual_device_setup"]
    BY <1>5 DEF TakeSlot
  <2> QED BY <1>1, <1>3, <1>4, <2>1 DEF Stages, Promoted
<1>6. CASE FindTableFull(c, q, macs)
  <2>1. Fail(c, Tail(q), macs)
    BY <1>6 DEF FindTableFull
  <2> QED BY <1>3, <1>4, <2>1, FailQueues DEF Ending
<1> QED BY <1>2, <1>5, <1>6 DEF Claim

\* The promotion takes GLOBAL_LOCK only when it is free, and else queues.
LEMMA PromoteQueues ==
  ASSUME TypeOK, LockInv, NEW c \in Controller, stage[c] # "merge", Promote(c),
         UNCHANGED <<drop, vcStage>>
  PROVE  LockInv' /\ stage' \in [Controller -> Stages]
<1>1. stage \in [Controller -> Stages] /\ Add(c) \in Process /\ lockq \in Seq(Process)
  BY Processes DEF TypeOK, LockInv
<1>2. CASE LockFree
  <2>1. <<Add(c)>> \in Seq(Process) /\ <<Add(c)>> # <<>> /\ Head(<<Add(c)>>) = Add(c)
    BY <1>1, QueueSteps
  <2>2. \E macs, reserved : Claim(c, <<Add(c)>>, macs, reserved)
    BY <1>2 DEF Promote
  <2> QED BY <1>2, <2>1, <2>2, ClaimQueues DEF LockFree, LockInv
<1>3. CASE ~LockFree
  <2>1. /\ lockq' = Append(lockq, Add(c))
        /\ stage' = [stage EXCEPT ![c] = "claim_wait"]
    BY <1>3 DEF Promote
  <2>2. /\ lockq' \in Seq(Process)
        /\ lockq # <<>> => lockq' # <<>> /\ Head(lockq') = Head(lockq)
    BY <1>1, <2>1, QueueSteps
  <2>3. stage' \in [Controller -> Stages]
    BY <1>1, <2>1 DEF Stages, Promoted
  <2>4. CriticalSectionsExclusive'
    BY <1>1, <2>1, <2>2, SectionsKept DEF LockInv
  <2> QED BY <2>2, <2>3, <2>4 DEF LockInv
<1> QED BY <1>2, <1>3

\* A step that pops the head p of the queue and enters no critical section.
LEMMA PopQueue ==
  ASSUME LockInv, NEW p, Holds(p), lockq' = Tail(lockq),
         \A c \in Controller : stage'[c] = "merge" => stage[c] = "merge" /\ p # Add(c),
         \A c \in Controller : drop'[c] \in {"reinit", "leds"} => drop[c] \in {"reinit", "leds"} /\ p # Drop(c),
         \A v \in VcId : vcStage'[v] \in {"reinit", "leds"} => vcStage[v] \in {"reinit", "leds"} /\ p # Close(v)
  PROVE  LockInv'
<1>1. CriticalSectionsExclusive'
  BY SectionsReleased DEF LockInv
<1>2. lockq \in Seq(Process) /\ lockq # <<>>
  BY DEF LockInv, Holds
<1> QED BY <1>1, <1>2, HeadTailProperties DEF LockInv

\* A step of the add_controller task that fails, from outside a critical section.
LEMMA FailKeepsLock ==
  ASSUME TypeOK, LockInv, NEW c \in Controller, NEW macs, Fail(c, lockq, macs),
         UNCHANGED <<drop, vcStage>>
  PROVE  LockInv' /\ stage' \in [Controller -> Stages]
<1>1. lockq \in Seq(Process) /\ CriticalSectionsExclusive
  BY DEF LockInv
<1>2. /\ lockq' \in Seq(Process) /\ stage' \in [Controller -> Stages]
      /\ lockq # <<>> => lockq' # <<>> /\ Head(lockq') = Head(lockq)
      /\ stage'[c] \in Ending /\ \A d \in Controller : d # c => stage'[d] = stage[d]
  BY <1>1, FailQueues
<1>3. \A d \in Controller : stage'[d] = "merge" => stage[d] = "merge"
  BY <1>2 DEF Ending
<1>4. CriticalSectionsExclusive'
  BY <1>1, <1>2, <1>3, SectionsKept
<1> QED BY <1>2, <1>4 DEF LockInv

\* Every step of add_controller and of the scan callback keeps the lock discipline.
LEMMA AddKeepsLock ==
  ASSUME TypeOK, LockInv, NEW c \in Controller, AddStep(c) \/ Advertise(c)
  PROVE  LockInv' /\ stage' \in [Controller -> Stages]
<1>1. stage \in [Controller -> Stages] /\ lockq \in Seq(Process) /\ CriticalSectionsExclusive
  BY DEF TypeOK, LockInv
<1>2. UNCHANGED <<drop, vcStage>>
  BY DEF AddStep, Advertise, ScanGetsLock, ConnectStart, LinkUp, ConnectDone, ConnectRaises,
         InitializeDone, InitializeRaises, InitializeAborted, PairStart, PairDone, PairRaises,
         AddGetsLock, MergeDone, MergeRaises, SetupDone, SetupFails, RollbackGetsLock,
         linkVars, closeVars
<1>3. CASE Advertise(c)
  <2>1. \E s \in {"waiting_connection_lock", "scan_wait"} : stage' = [stage EXCEPT ![c] = s]
    BY <1>3 DEF Advertise
  <2>2. lockq' = lockq \/ lockq' = Append(lockq, Scan(c))
    BY <1>3 DEF Advertise
  <2>3. /\ lockq' \in Seq(Process)
        /\ lockq # <<>> => lockq' # <<>> /\ Head(lockq') = Head(lockq)
    BY <1>1, <2>2, QueueSteps, Processes
  <2>4. stage' \in [Controller -> Stages]
    BY <1>1, <2>1 DEF Stages, Reserving
  <2>5. CriticalSectionsExclusive'
    BY <1>1, <1>2, <2>1, <2>3, SectionsKept
  <2> QED BY <2>3, <2>4, <2>5 DEF LockInv
<1>4. CASE ScanGetsLock(c) \/ RollbackGetsLock(c)
  <2>1. PICK p \in {Scan(c), Rollback(c)} : Holds(p) /\ lockq' = Tail(lockq)
    BY <1>4 DEF ScanGetsLock, RollbackGetsLock
  <2>2. \E s \in {"waiting_connection_lock", "fail_disconnect", "failed"} :
          stage' = [stage EXCEPT ![c] = s]
    BY <1>4 DEF ScanGetsLock, RollbackGetsLock, FinishRollback
  <2>3. stage' \in [Controller -> Stages]
    BY <1>1, <2>2 DEF Stages, Reserving, Ending
  <2>4. \A d \in Controller : stage'[d] = "merge" => stage[d] = "merge" /\ p # Add(d)
    BY <1>1, <2>1, <2>2 DEF Scan, Add, Rollback, Drop, Close
  <2>5. \A d \in Controller : drop'[d] \in {"reinit", "leds"} => drop[d] \in {"reinit", "leds"} /\ p # Drop(d)
    BY <1>2, <2>1 DEF Scan, Add, Rollback, Drop, Close
  <2>6. \A v \in VcId : vcStage'[v] \in {"reinit", "leds"} => vcStage[v] \in {"reinit", "leds"} /\ p # Close(v)
    BY <1>2, <2>1 DEF Scan, Add, Rollback, Drop, Close
  <2> QED BY <2>1, <2>3, <2>4, <2>5, <2>6, PopQueue
<1>5. CASE \/ ConnectStart(c) \/ LinkUp(c) \/ ConnectDone(c) \/ PairStart(c) \/ SetupDone(c)
           \/ (InitializeDone(c) /\ c \in PairingMode) \/ (InitializeRaises(c) /\ link[c])
  <2>1. lockq' = lockq
    BY <1>5 DEF ConnectStart, LinkUp, ConnectDone, PairStart, SetupDone, InitializeDone,
                InitializeRaises, slotVars
  <2>2. \/ stage' = stage
        \/ \E s \in {"winrt_connect", "initialize", "pair_wait", "init_abort", "pair", "ready"} :
             stage' = [stage EXCEPT ![c] = s]
    BY <1>5 DEF ConnectStart, LinkUp, ConnectDone, PairStart, SetupDone, InitializeDone,
                InitializeRaises, taskVars
  <2>3. stage' \in [Controller -> Stages]
    BY <1>1, <2>2 DEF Stages, Reserving, Promoted
  <2>4. CriticalSectionsExclusive'
    BY <1>1, <1>2, <2>1, <2>2, SectionsKept
  <2> QED BY <1>1, <2>1, <2>3, <2>4 DEF LockInv
<1>6. CASE \/ ConnectRaises(c) \/ (InitializeRaises(c) /\ ~link[c]) \/ InitializeAborted(c)
           \/ PairRaises(c) \/ SetupFails(c)
  <2>1. Fail(c, lockq, connectedMacs)
    BY <1>6 DEF ConnectRaises, InitializeRaises, InitializeAborted, PairRaises, SetupFails
  <2> QED BY <1>2, <2>1, FailKeepsLock
<1>7. CASE (InitializeDone(c) /\ c \notin PairingMode) \/ PairDone(c)
  <2>1. Promote(c) /\ stage[c] # "merge"
    BY <1>7 DEF InitializeDone, PairDone
  <2> QED BY <1>2, <2>1, PromoteQueues
<1>8. CASE AddGetsLock(c)
  <2>1. /\ Claim(c, lockq, connectedMacs, connectingMacs) /\ stage[c] # "merge"
        /\ lockq # <<>> /\ Head(lockq) = Add(c)
    BY <1>8 DEF AddGetsLock, Holds
  <2> QED BY <1>1, <1>2, <2>1, ClaimQueues
<1>9. CASE MergeDone(c) \/ MergeRaises(c)
  <2>1. stage[c] = "merge" /\ Holds(Add(c)) /\ lockq # <<>>
    BY <1>1, <1>9 DEF MergeDone, MergeRaises, CriticalSectionsExclusive, Holds
  <2>2. Tail(lockq) \in Seq(Process)
    BY <1>1, <2>1, HeadTailProperties
  <2>3. /\ lockq' \in Seq(Process) /\ stage' \in [Controller -> Stages]
        /\ stage'[c] # "merge" /\ \A d \in Controller : d # c => stage'[d] = stage[d]
    <3>1. CASE MergeDone(c)
      BY <1>1, <2>2, <3>1 DEF MergeDone, Stages, Promoted
    <3>2. CASE MergeRaises(c)
      BY <2>2, <3>2, FailQueues DEF MergeRaises, Ending
    <3> QED BY <1>9, <3>1, <3>2
  <2>4. \A d \in Controller : stage'[d] = "merge" => stage[d] = "merge" /\ Add(c) # Add(d)
    BY <2>3 DEF Scan, Add, Rollback, Drop, Close
  <2>5. \A d \in Controller : drop'[d] \in {"reinit", "leds"} => drop[d] \in {"reinit", "leds"} /\ Add(c) # Drop(d)
    BY <1>2 DEF Scan, Add, Rollback, Drop, Close
  <2>6. \A v \in VcId : vcStage'[v] \in {"reinit", "leds"} => vcStage[v] \in {"reinit", "leds"} /\ Add(c) # Close(v)
    BY <1>2 DEF Scan, Add, Rollback, Drop, Close
  <2>7. CriticalSectionsExclusive'
    BY <1>1, <2>1, <2>4, <2>5, <2>6, SectionsReleased
  <2> QED BY <2>3, <2>7 DEF LockInv
<1> QED BY <1>3, <1>4, <1>5, <1>6, <1>7, <1>8, <1>9 DEF AddStep

\* The part of TypeOK the disconnect callbacks can disturb.
DropTyped == drop' \in [Controller -> {"none", "start", "wait", "reinit", "leds"}]

\* The disconnect callback takes GLOBAL_LOCK only when it is free, and else queues.
LEMMA EnterDropKeepsLock ==
  ASSUME TypeOK, LockInv, NEW c \in Controller, EnterDrop(c), UNCHANGED vcStage,
         \A d \in Controller : stage'[d] = "merge" => stage[d] = "merge"
  PROVE  LockInv' /\ DropTyped
<1>1. drop \in [Controller -> {"none", "start", "wait", "reinit", "leds"}]
  BY DEF TypeOK
<1>2. Drop(c) \in Process /\ lockq \in Seq(Process) /\ CriticalSectionsExclusive
  BY Processes DEF LockInv
<1>3. CASE LockFree
  <2>1. lockq' = <<Drop(c)>>
    BY <1>3 DEF EnterDrop, EvictLocked
  <2>2. drop' = [drop EXCEPT ![c] = "reinit"]
    BY <1>3 DEF EnterDrop, DropGoto
  <2>3. /\ <<Drop(c)>> \in Seq(Process) /\ <<Drop(c)>> # <<>> /\ Head(<<Drop(c)>>) = Drop(c)
    BY <1>2, QueueSteps
  <2>4. lockq' \in Seq(Process)
    BY <2>1, <2>3
  <2>5. \A d \in Controller : drop'[d] \in {"reinit", "leds"} =>
           drop[d] \in {"reinit", "leds"} \/ (lockq' # <<>> /\ Head(lockq') = Drop(d))
    BY <1>1, <2>1, <2>2, <2>3
  <2>6. CriticalSectionsExclusive'
    BY <1>2, <1>3, <2>5, SectionsKept DEF LockFree
  <2> QED BY <1>1, <2>2, <2>4, <2>6 DEF LockInv, DropTyped
<1>4. CASE ~LockFree
  <2>1. lockq' = Append(lockq, Drop(c)) /\ drop' = [drop EXCEPT ![c] = "wait"]
    BY <1>4 DEF EnterDrop, DropGoto
  <2>2. /\ lockq' \in Seq(Process)
        /\ lockq # <<>> => lockq' # <<>> /\ Head(lockq') = Head(lockq)
    BY <1>2, <2>1, QueueSteps
  <2>3. CriticalSectionsExclusive'
    BY <1>1, <1>2, <2>1, <2>2, SectionsKept
  <2> QED BY <1>1, <2>1, <2>2, <2>3 DEF LockInv, DropTyped
<1> QED BY <1>3, <1>4

\* Every step of the disconnect callback and of Controller.disconnect keeps the lock
\* discipline.
LEMMA DropKeepsLock ==
  ASSUME TypeOK, LockInv, NEW c \in Controller, DropStep(c) \/ DisconnectStep(c)
  PROVE  LockInv' /\ DropTyped
<1>1. /\ drop \in [Controller -> {"none", "start", "wait", "reinit", "leds"}]
      /\ stage \in [Controller -> Stages]
      /\ lockq \in Seq(Process) /\ CriticalSectionsExclusive
  BY DEF TypeOK, LockInv
<1>2. ASSUME Holds(Drop(c)), UNCHANGED <<stage, vcStage, lockq>>,
             NEW s \in {"reinit", "leds"}, drop' = [drop EXCEPT ![c] = s]
      PROVE  LockInv' /\ DropTyped
  <2>1. \A d \in Controller : drop'[d] \in {"reinit", "leds"} =>
           drop[d] \in {"reinit", "leds"} \/ (lockq' # <<>> /\ Head(lockq') = Drop(d))
    BY <1>1, <1>2 DEF Holds
  <2>2. CriticalSectionsExclusive'
    BY <1>1, <1>2, <2>1, SectionsKept
  <2> QED BY <1>1, <1>2, <2>2 DEF LockInv, DropTyped
<1>3. ASSUME Holds(Drop(c)), UNCHANGED <<stage, vcStage>>, lockq' = Tail(lockq),
             drop' = [drop EXCEPT ![c] = "none"]
      PROVE  LockInv' /\ DropTyped
  <2>1. \A d \in Controller : stage'[d] = "merge" => stage[d] = "merge" /\ Drop(c) # Add(d)
    BY <1>3 DEF Add, Drop
  <2>2. \A d \in Controller : drop'[d] \in {"reinit", "leds"} =>
           drop[d] \in {"reinit", "leds"} /\ Drop(c) # Drop(d)
    BY <1>1, <1>3 DEF Drop
  <2>3. \A v \in VcId : vcStage'[v] \in {"reinit", "leds"} =>
           vcStage[v] \in {"reinit", "leds"} /\ Drop(c) # Close(v)
    BY <1>3 DEF Close, Drop
  <2>4. LockInv'
    BY <1>3, <2>1, <2>2, <2>3, PopQueue
  <2> QED BY <1>1, <1>3, <2>4 DEF DropTyped
<1>4. CASE DropStart(c)
  <2>1. stage' = stage /\ vcStage' = vcStage
    BY <1>4 DEF DropStart, closeVars
  <2>2. CASE EnterDrop(c)
    BY <2>1, <2>2, EnterDropKeepsLock
  <2>3. CASE drop' = [drop EXCEPT ![c] = "none"] /\ lockq' = lockq
    <3>1. CriticalSectionsExclusive'
      BY <1>1, <2>1, <2>3, SectionsKept
    <3> QED BY <1>1, <2>3, <3>1 DEF LockInv, DropTyped
  <2> QED BY <1>4, <2>2, <2>3 DEF DropStart, DropGoto, slotVars
<1>5. CASE DropGetsLock(c)
  <2>1. /\ Holds(Drop(c)) /\ stage' = stage /\ vcStage' = vcStage /\ lockq' = lockq
        /\ drop' = [drop EXCEPT ![c] = "reinit"]
    BY <1>5 DEF DropGetsLock, EvictLocked, DropGoto, taskVars, closeVars
  <2> QED BY <1>1, <2>1, <1>2
<1>6. CASE DropReorders(c)
  <2>1. /\ Holds(Drop(c)) /\ stage' = stage /\ vcStage' = vcStage
        /\ \/ lockq' = Tail(lockq) /\ drop' = [drop EXCEPT ![c] = "none"]
           \/ lockq' = lockq /\ drop' = [drop EXCEPT ![c] = "leds"]
    BY <1>1, <1>6 DEF DropReorders, DropGoto, taskVars, closeVars, CriticalSectionsExclusive
  <2> QED BY <2>1, <1>2, <1>3
<1>7. CASE DropDone(c)
  <2>1. /\ Holds(Drop(c)) /\ stage' = stage /\ vcStage' = vcStage
        /\ lockq' = Tail(lockq) /\ drop' = [drop EXCEPT ![c] = "none"]
    BY <1>1, <1>7 DEF DropDone, DropGoto, taskVars, closeVars, CriticalSectionsExclusive
  <2> QED BY <2>1, <1>3
<1>8. CASE DisconnectStep(c)
  <2>1. /\ vcStage' = vcStage
        /\ \A d \in Controller : stage'[d] = "merge" => stage[d] = "merge"
    BY <1>1, <1>8 DEF DisconnectStep, DisconnectDone, DisconnectGivesUp, DisconnectReturns, closeVars
  <2>2. CASE DisconnectDone(c)
    BY <2>1, <2>2, EnterDropKeepsLock DEF DisconnectDone
  <2>3. CASE DisconnectGivesUp(c)
    <3>1. lockq' = lockq /\ drop' = drop
      BY <2>3 DEF DisconnectGivesUp, slotVars
    <3>2. CriticalSectionsExclusive'
      BY <1>1, <2>1, <3>1, SectionsKept
    <3> QED BY <1>1, <3>1, <3>2 DEF LockInv, DropTyped
  <2> QED BY <1>8, <2>2, <2>3 DEF DisconnectStep
<1> QED BY <1>4, <1>5, <1>6, <1>8, <1>7 DEF DropStep

\* Every step of VirtualController.disconnect keeps the lock discipline.
LEMMA CloseKeepsLock ==
  ASSUME TypeOK, LockInv, NEW v \in VcId, CloseStart(v) \/ CloseStep(v)
  PROVE  LockInv'
<1>1. /\ vcStage \in [VcId -> {"idle", "closing", "notify", "wait", "reinit", "leds"}]
      /\ lockq \in Seq(Process) /\ CriticalSectionsExclusive /\ Close(v) \in Process
  BY Processes DEF TypeOK, LockInv
<1>2. stage' = stage /\ drop' = drop
  BY DEF CloseStart, CloseStep, CloseGathered, CloseNotify, CloseGetsLock, CloseReorders, CloseReleases, CloseEnd,
         taskVars, linkVars
<1>3. CASE CloseStart(v) \/ CloseGathered(v) \/ CloseEnd(v)
  <2>1. /\ lockq' = lockq
        /\ \E s \in {"closing", "notify", "idle"} : vcStage' = [vcStage EXCEPT ![v] = s]
    BY <1>3 DEF CloseStart, CloseGathered, CloseEnd, slotVars
  <2>2. CriticalSectionsExclusive'
    BY <1>1, <1>2, <2>1, SectionsKept
  <2> QED BY <1>1, <2>1, <2>2 DEF LockInv
<1>4. ASSUME Holds(Close(v)), lockq' = Tail(lockq),
             vcStage' = [vcStage EXCEPT ![v] = "notify"]
      PROVE  LockInv'
  <2>1. \A d \in Controller : stage'[d] = "merge" => stage[d] = "merge" /\ Close(v) # Add(d)
    BY <1>2 DEF Add, Close
  <2>2. \A d \in Controller : drop'[d] \in {"reinit", "leds"} => drop[d] \in {"reinit", "leds"} /\ Close(v) # Drop(d)
    BY <1>2 DEF Close, Drop
  <2>3. \A w \in VcId : vcStage'[w] \in {"reinit", "leds"} => vcStage[w] \in {"reinit", "leds"} /\ Close(v) # Close(w)
    BY <1>1, <1>4 DEF Close
  <2> QED BY <1>4, <2>1, <2>2, <2>3, PopQueue
<1>5. CASE CloseNotify(v)
  <2>1. CASE LockFree /\ CloseLocked(v, <<Close(v)>>)
    <3>1. <<Close(v)>> \in Seq(Process) /\ <<Close(v)>> # <<>> /\ Head(<<Close(v)>>) = Close(v)
      BY <1>1, QueueSteps
    <3>2. lockq' = <<Close(v)>> /\ vcStage' = [vcStage EXCEPT ![v] = "reinit"]
      BY <2>1 DEF CloseLocked, EvictLocked, CloseGoto
    <3>3. \A w \in VcId : vcStage'[w] \in {"reinit", "leds"} =>
             vcStage[w] \in {"reinit", "leds"} \/ (lockq' # <<>> /\ Head(lockq') = Close(w))
      BY <1>1, <3>1, <3>2
    <3>4. CriticalSectionsExclusive'
      BY <1>1, <1>2, <2>1, <3>3, SectionsKept DEF LockFree
    <3> QED BY <3>1, <3>2, <3>4 DEF LockInv
  <2>2. CASE lockq' = Append(lockq, Close(v)) /\ vcStage' = [vcStage EXCEPT ![v] = "wait"]
    <3>1. /\ lockq' \in Seq(Process)
          /\ lockq # <<>> => lockq' # <<>> /\ Head(lockq') = Head(lockq)
      BY <1>1, <2>2, QueueSteps
    <3>2. CriticalSectionsExclusive'
      BY <1>1, <1>2, <2>2, <3>1, SectionsKept
    <3> QED BY <3>1, <3>2 DEF LockInv
  <2>3. CASE Done(v) /\ lockq' = lockq
    <3>1. vcStage' = [vcStage EXCEPT ![v] = "notify"]
      BY <2>3 DEF Done, CloseGoto
    <3>2. CriticalSectionsExclusive'
      BY <1>1, <1>2, <2>3, <3>1, SectionsKept
    <3> QED BY <1>1, <2>3, <3>2 DEF LockInv
  <2> QED BY <1>5, <2>1, <2>2, <2>3 DEF CloseNotify, CloseGoto, slotVars
<1>6. ASSUME Holds(Close(v)), lockq' = lockq,
             NEW s \in {"reinit", "leds"}, vcStage' = [vcStage EXCEPT ![v] = s]
      PROVE  LockInv'
  <2>1. \A w \in VcId : vcStage'[w] \in {"reinit", "leds"} =>
           vcStage[w] \in {"reinit", "leds"} \/ (lockq' # <<>> /\ Head(lockq') = Close(w))
    BY <1>1, <1>6 DEF Holds
  <2>2. CriticalSectionsExclusive'
    BY <1>1, <1>2, <1>6, <2>1, SectionsKept
  <2> QED BY <1>1, <1>6, <2>2 DEF LockInv
<1>7. CASE CloseGetsLock(v)
  BY <1>6, <1>7 DEF CloseGetsLock, CloseLocked, EvictLocked, CloseGoto
<1>8. CASE CloseReorders(v)
  <2>1. Holds(Close(v))
    BY <1>1, <1>8 DEF CloseReorders, CriticalSectionsExclusive
  <2> QED BY <1>4, <1>6, <1>8, <2>1 DEF CloseReorders, CloseGoto, Done
<1>9. CASE CloseReleases(v)
  <2>1. Holds(Close(v))
    BY <1>1, <1>9 DEF CloseReleases, CriticalSectionsExclusive
  <2> QED BY <1>4, <1>9, <2>1 DEF CloseReleases, CloseGoto, Done
<1> QED BY <1>3, <1>5, <1>7, <1>8, <1>9 DEF CloseStep

-----------------------------------------------------------------------------
\* The parts of TypeOK that the lemmas below establish.
MacsTyped == connectingMacs \subseteq Addr /\ connectedMacs \in [Addr -> Nat]
TaskTyped ==
  /\ home \in [Controller -> VcId \cup {NoVc}]
  /\ client \in [Controller -> BOOLEAN]
  /\ closing \subseteq Controller
LinkTyped == link \in [Controller -> BOOLEAN] /\ connLock \subseteq Controller /\ stopping \in BOOLEAN

\* Forgetting an address never makes its count negative: list.remove is guarded.
LEMMA ForgetIsTyped ==
  ASSUME NEW macs \in [Addr -> Nat], NEW a
  PROVE  Forget(macs, a) \in [Addr -> Nat]
<1>1. \A n \in Nat : n > 0 => n - 1 \in Nat
  OBVIOUS
<1> QED BY <1>1 DEF Forget

\* The failure path keeps the address lists and the task's locals typed.
LEMMA FailIsTyped ==
  ASSUME MacsTyped, TaskTyped, NEW c \in Controller, NEW q, NEW macs \in [Addr -> Nat],
         Fail(c, q, macs)
  PROVE  MacsTyped' /\ TaskTyped'
<1>1. connectedMacs' \in [Addr -> Nat]
  BY ForgetIsTyped DEF Fail
<1>2. connectingMacs' \subseteq connectingMacs
  BY DEF Fail, FinishRollback
<1>3. home' \in [Controller -> VcId \cup {NoVc}]
  BY DEF Fail, TaskTyped
<1>4. client' \in [Controller -> BOOLEAN] /\ closing' \subseteq Controller
  BY DEF Fail, FinishRollback, TaskTyped
<1> QED BY <1>1, <1>2, <1>3, <1>4 DEF MacsTyped, TaskTyped

\* A claim keeps the address lists typed and leaves the task with a VirtualController.
LEMMA ClaimIsTyped ==
  ASSUME SlotsInv, MacsTyped, TaskTyped, NEW c \in Controller, NEW q,
         NEW macs \in [Addr -> Nat], NEW reserved \in SUBSET Addr,
         Claim(c, q, macs, reserved)
  PROVE  MacsTyped' /\ TaskTyped'
<1>1. CASE JoinPair(c, q, macs, reserved)
  <2> DEFINE S == MergeSlots(c)
  <2>1. S \in SUBSET Nat /\ S # {} /\ S \subseteq Slot
    BY <1>1, SlotsAssumption DEF JoinPair, MergeSlots, Slot
  <2>2. First(S) \in Slot
    <3> HIDE DEF S
    <3> QED BY <2>1, FirstIsLeast
  <2>3. table[First(S)] \in VcId \cup {NoVc}
    BY <2>2 DEF SlotsInv, SlotsTypeOK
  <2>4. home' \in [Controller -> VcId \cup {NoVc}]
    BY <1>1, <2>3 DEF JoinPair, TaskTyped
  <2> QED BY <1>1, <2>4 DEF JoinPair, MacsTyped, TaskTyped
<1>2. CASE TakeSlot(c, q, macs, reserved)
  <2>1. NewVc \in VcId
    BY <1>2, TakingSlotKeepsSlots DEF TakeSlot
  <2> QED BY <1>2, <2>1 DEF TakeSlot, MacsTyped, TaskTyped
<1>3. CASE FindTableFull(c, q, macs)
  BY <1>3, FailIsTyped DEF FindTableFull
<1> QED BY <1>1, <1>2, <1>3 DEF Claim

\* So does the promotion.
LEMMA PromoteIsTyped ==
  ASSUME SlotsInv, MacsTyped, TaskTyped, NEW c \in Controller, Promote(c)
  PROVE  MacsTyped' /\ TaskTyped'
<1> DEFINE macs == [connectedMacs EXCEPT ![AddrOf[c]] = @ + 1]
           reserved == connectingMacs \ {AddrOf[c]}
<1>1. macs \in [Addr -> Nat] /\ reserved \in SUBSET Addr
  <2>1. \A n \in Nat : n + 1 \in Nat
    OBVIOUS
  <2>2. connectedMacs \in [Addr -> Nat] /\ connectingMacs \subseteq Addr
    BY DEF MacsTyped
  <2>3. AddrOf[c] \in Addr
    BY RouteAssumption
  <2>4. connectedMacs[AddrOf[c]] + 1 \in Nat
    BY <2>1, <2>2, <2>3
  <2> QED BY <2>2, <2>4
<1>2. CASE LockFree
  <2>1. Claim(c, <<Add(c)>>, macs, reserved)
    BY <1>2 DEF Promote
  <2> HIDE DEF macs, reserved
  <2> QED BY <1>1, <2>1, ClaimIsTyped
<1>3. CASE ~LockFree
  <2>1. connectingMacs' = reserved /\ connectedMacs' = macs /\ UNCHANGED <<home, client, closing>>
    BY <1>3 DEF Promote
  <2> HIDE DEF macs, reserved
  <2> QED BY <1>1, <2>1 DEF MacsTyped, TaskTyped
<1> QED BY <1>2, <1>3

\* Every step of add_controller keeps the lists, the tasks and the links typed.
LEMMA AddIsTyped ==
  ASSUME SlotsInv, MacsTyped, TaskTyped, LinkTyped, NEW c \in Controller, AddStep(c) \/ Advertise(c)
  PROVE  MacsTyped' /\ TaskTyped' /\ LinkTyped'
<1>1. AddrOf[c] \in Addr
  BY RouteAssumption
<1>2. CASE Advertise(c) \/ ScanGetsLock(c) \/ ConnectStart(c) \/ ConnectDone(c) \/ PairStart(c)
  <2>1. connectingMacs' \subseteq connectingMacs \cup {AddrOf[c]} /\ connLock' \subseteq connLock \cup {c}
    BY <1>2 DEF Advertise, ScanGetsLock, ConnectStart, ConnectDone, PairStart
  <2>2. UNCHANGED <<connectedMacs, home, client, closing, link, stopping>>
    BY <1>2 DEF Advertise, ScanGetsLock, ConnectStart, ConnectDone, PairStart, linkVars
  <2> QED BY <1>1, <2>1, <2>2 DEF MacsTyped, TaskTyped, LinkTyped
<1>3. CASE LinkUp(c)
  BY <1>3 DEF LinkUp, taskVars, MacsTyped, TaskTyped, LinkTyped
<1>4. CASE \/ ConnectRaises(c) \/ InitializeRaises(c) \/ InitializeAborted(c) \/ PairRaises(c)
           \/ MergeRaises(c) \/ SetupFails(c)
  <2>1. LinkTyped'
    BY <1>4 DEF ConnectRaises, InitializeRaises, InitializeAborted, PairRaises, MergeRaises, SetupFails,
                LinkTyped
  <2>2. CASE \E q : Fail(c, q, connectedMacs)
    BY <2>1, <2>2, FailIsTyped DEF MacsTyped
  <2>3. CASE InitializeRaises(c) /\ link[c]
    BY <2>1, <2>3 DEF InitializeRaises, MacsTyped, TaskTyped
  <2> QED BY <1>4, <2>2, <2>3 DEF ConnectRaises, InitializeRaises, InitializeAborted, PairRaises,
                                  MergeRaises, SetupFails
<1>5. CASE InitializeDone(c) \/ PairDone(c)
  <2>1. LinkTyped'
    BY <1>5 DEF InitializeDone, PairDone, LinkTyped
  <2>2. CASE Promote(c)
    BY <2>1, <2>2, PromoteIsTyped
  <2>3. CASE InitializeDone(c) /\ c \in PairingMode
    BY <2>1, <2>3 DEF InitializeDone, MacsTyped, TaskTyped
  <2> QED BY <1>5, <2>2, <2>3 DEF InitializeDone, PairDone
<1>6. CASE AddGetsLock(c)
  <2>1. LinkTyped'
    BY <1>6 DEF AddGetsLock, LinkTyped
  <2>2. connectedMacs \in [Addr -> Nat] /\ connectingMacs \in SUBSET Addr
    BY DEF MacsTyped
  <2> QED BY <1>6, <2>1, <2>2, ClaimIsTyped DEF AddGetsLock
<1>7. CASE MergeDone(c) \/ SetupDone(c) \/ RollbackGetsLock(c)
  <2>1. connectingMacs' \subseteq connectingMacs /\ UNCHANGED <<connectedMacs, link, connLock, stopping>>
    BY <1>7 DEF MergeDone, SetupDone, RollbackGetsLock, FinishRollback, linkVars
  <2>2. TaskTyped'
    BY <1>7 DEF MergeDone, SetupDone, RollbackGetsLock, FinishRollback, linkVars, TaskTyped
  <2> QED BY <2>1, <2>2 DEF MacsTyped, LinkTyped
<1> QED BY <1>2, <1>3, <1>4, <1>5, <1>6, <1>7 DEF AddStep

\* Every other step of the route does too.
LEMMA OthersAreTyped ==
  ASSUME SlotsInv, MacsTyped, TaskTyped, LinkTyped, [Next]_vars,
         ~\E c \in Controller : AddStep(c) \/ Advertise(c)
  PROVE  MacsTyped' /\ TaskTyped' /\ LinkTyped'
<1>1. ASSUME NEW c \in Controller, DropStep(c) \/ DisconnectStep(c)
      PROVE  MacsTyped' /\ TaskTyped' /\ LinkTyped'
  <2>1. connectedMacs' = connectedMacs \/ connectedMacs' = Forget(connectedMacs, AddrOf[c])
    BY <1>1 DEF DropStep, DropStart, DropGoto, DropGetsLock, DropReorders, DropDone, DisconnectStep, DisconnectDone,
                DisconnectGivesUp, EnterDrop, taskVars
  <2>2. connectingMacs' \subseteq connectingMacs
    BY <1>1 DEF DropStep, DropStart, DropGoto, DropGetsLock, DropReorders, DropDone, DisconnectStep, DisconnectDone,
                DisconnectGivesUp, DisconnectReturns, taskVars
  <2>3. TaskTyped'
    BY <1>1 DEF DropStep, DropStart, DropGoto, DropGetsLock, DropReorders, DropDone, DisconnectStep, DisconnectDone,
                DisconnectGivesUp, DisconnectReturns, taskVars, TaskTyped
  <2>4. LinkTyped'
    BY <1>1 DEF DropStep, DropStart, DropGoto, DropGetsLock, DropReorders, DropDone, DisconnectStep, DisconnectDone,
                DisconnectGivesUp, taskVars, LinkTyped
  <2> QED BY <2>1, <2>2, <2>3, <2>4, ForgetIsTyped DEF MacsTyped
<1>2. ASSUME NEW v \in VcId, CloseStart(v) \/ CloseStep(v)
      PROVE  MacsTyped' /\ TaskTyped' /\ LinkTyped'
  <2>1. \/ connectedMacs' = connectedMacs
        \/ \E a : connectedMacs' = Forget(connectedMacs, a)
    BY <1>2 DEF CloseStart, CloseStep, CloseGathered, CloseNotify, CloseGetsLock, CloseReorders, CloseReleases, CloseEnd,
                taskVars
  <2>2. UNCHANGED <<connectingMacs, connLock, home, link, client, stopping>>
    BY <1>2 DEF CloseStart, CloseStep, CloseGathered, CloseNotify, CloseGetsLock, CloseReorders, CloseReleases, CloseEnd,
                taskVars, linkVars
  <2>3. closing' \subseteq Controller
    <3>1. closing \subseteq Controller
      BY DEF TaskTyped
    <3>2. CASE CloseStep(v)
      BY <3>1, <3>2 DEF CloseStep, CloseGathered, CloseNotify, CloseGetsLock, CloseReorders, CloseReleases, CloseEnd,
                   linkVars
    <3>3. CASE CloseStart(v)
      <4>1. members[v] \in Seq(Controller)
        BY DEF SlotsInv, SlotsTypeOK
      <4>2. \A n \in DOMAIN members[v] : members[v][n] \in Controller
        BY <4>1, LenProperties, ElementOfSeq
      <4> QED BY <3>1, <3>3, <4>2 DEF CloseStart
    <3> QED BY <1>2, <3>2, <3>3
  <2> QED BY <2>1, <2>2, <2>3, ForgetIsTyped DEF MacsTyped, TaskTyped, LinkTyped
<1>3. CASE (\E a \in Addr : LinkDrop(a)) \/ Stop \/ AtRest \/ UNCHANGED vars
  <2>1. UNCHANGED <<connectingMacs, connectedMacs, connLock, home, client, closing>>
    BY <1>3 DEF LinkDrop, Stop, AtRest, vars, taskVars, linkVars
  <2>2. link' \in [Controller -> BOOLEAN] /\ stopping' \in BOOLEAN
    BY <1>3 DEF LinkDrop, Stop, AtRest, vars, linkVars, LinkTyped
  <2> QED BY <2>1, <2>2 DEF MacsTyped, TaskTyped, LinkTyped
<1> QED BY <1>1, <1>2, <1>3 DEF Next

\* Every step of the route keeps the lock discipline.
LEMMA LockStep ==
  ASSUME TypeOK, LockInv, [Next]_vars
  PROVE  LockInv' /\ stage' \in [Controller -> Stages] /\ DropTyped
<1>1. /\ drop \in [Controller -> {"none", "start", "wait", "reinit", "leds"}]
      /\ stage \in [Controller -> Stages]
      /\ lockq \in Seq(Process) /\ CriticalSectionsExclusive
  BY DEF TypeOK, LockInv
<1>2. ASSUME NEW c \in Controller, AddStep(c) \/ Advertise(c)
      PROVE  LockInv' /\ stage' \in [Controller -> Stages] /\ DropTyped
  <2>1. drop' = drop
    BY <1>2 DEF AddStep, Advertise, ScanGetsLock, ConnectStart, LinkUp, ConnectDone, ConnectRaises,
         InitializeDone, InitializeRaises, InitializeAborted, PairStart, PairDone, PairRaises,
         AddGetsLock, MergeDone, MergeRaises, SetupDone, SetupFails, RollbackGetsLock, linkVars
  <2> QED BY <1>1, <1>2, <2>1, AddKeepsLock DEF DropTyped
<1>3. ASSUME NEW c \in Controller, DropStep(c) \/ DisconnectStep(c)
      PROVE  LockInv' /\ stage' \in [Controller -> Stages] /\ DropTyped
  <2>1. stage' \in [Controller -> Stages]
    BY <1>1, <1>3 DEF DropStep, DropStart, DropGoto, DropGetsLock, DropReorders, DropDone, DisconnectStep, DisconnectDone,
                DisconnectGivesUp, DisconnectReturns, taskVars, Stages, Ending
  <2> QED BY <1>3, <2>1, DropKeepsLock
<1>4. ASSUME NEW v \in VcId, CloseStart(v) \/ CloseStep(v)
      PROVE  LockInv' /\ stage' \in [Controller -> Stages] /\ DropTyped
  <2>1. stage' = stage /\ drop' = drop
    BY <1>4 DEF CloseStart, CloseStep, CloseGathered, CloseNotify, CloseGetsLock, CloseReorders, CloseReleases, CloseEnd,
                taskVars, linkVars
  <2> QED BY <1>1, <1>4, <2>1, CloseKeepsLock DEF DropTyped
<1>5. CASE (\E a \in Addr : LinkDrop(a)) \/ Stop \/ AtRest \/ UNCHANGED vars
  <2>1. lockq' = lockq /\ stage' = stage /\ vcStage' = vcStage
    BY <1>5 DEF LinkDrop, Stop, AtRest, vars, slotVars, taskVars, closeVars
  <2>2. \A c \in Controller : drop'[c] \in {"start", drop[c]}
    BY <1>5 DEF LinkDrop, Stop, AtRest, vars, linkVars
  <2>3. drop' = [c \in Controller |-> drop'[c]]
    BY <1>1, <1>5 DEF LinkDrop, Stop, AtRest, vars, linkVars
  <2>4. DropTyped
    BY <1>1, <2>2, <2>3 DEF DropTyped
  <2>5. CriticalSectionsExclusive'
    BY <1>1, <2>1, <2>2, SectionsKept
  <2> QED BY <1>1, <2>1, <2>4, <2>5 DEF LockInv
<1> QED BY <1>2, <1>3, <1>4, <1>5 DEF Next

-----------------------------------------------------------------------------

\* A failing attempt takes its reservation along.
LEMMA FailForgets ==
  ASSUME NoLeakedReservation, NEW c \in Controller, NEW q, NEW macs, Fail(c, q, macs), TypeOK
  PROVE  NoLeakedReservation'
<1>1. connectingMacs' \subseteq connectingMacs \ {AddrOf[c]}
  BY DEF Fail, FinishRollback
<1>2. \A d \in Controller : d # c => stage'[d] = stage[d]
  BY DEF Fail, FinishRollback, TypeOK
<1> QED BY <1>1, <1>2 DEF NoLeakedReservation

\* An attempt that claims a slot has no reservation left.
LEMMA ClaimForgets ==
  ASSUME NoLeakedReservation, NEW c \in Controller, NEW q, NEW macs, NEW reserved,
         Claim(c, q, macs, reserved), TypeOK,
         reserved \subseteq connectingMacs,
         stage[c] \in Reserving => AddrOf[c] \notin reserved
  PROVE  NoLeakedReservation'
<1>1. CASE JoinPair(c, q, macs, reserved) \/ TakeSlot(c, q, macs, reserved)
  <2>1. connectingMacs' = reserved /\ \A d \in Controller : d # c => stage'[d] = stage[d]
    BY <1>1 DEF JoinPair, TakeSlot, TypeOK
  <2> QED BY <2>1 DEF NoLeakedReservation
<1>2. CASE FindTableFull(c, q, macs)
  BY <1>2, FailForgets DEF FindTableFull
<1> QED BY <1>1, <1>2 DEF Claim

\* Every step keeps each reservation with an attempt that is still on its way.
LEMMA ReservationStep ==
  ASSUME TypeOK, NoLeakedReservation, [Next]_vars
  PROVE  NoLeakedReservation'
<1>1. stage \in [Controller -> Stages]
  BY DEF TypeOK
<1>2. ASSUME connectingMacs' \subseteq connectingMacs,
             \A d \in Controller : stage[d] \in Reserving => stage'[d] \in Reserving
      PROVE  NoLeakedReservation'
  BY <1>2 DEF NoLeakedReservation
<1>3. ASSUME NEW c \in Controller, Advertise(c) PROVE NoLeakedReservation'
  <2>1. /\ connectingMacs' = connectingMacs \cup {AddrOf[c]}
        /\ stage'[c] \in Reserving /\ \A d \in Controller : d # c => stage'[d] = stage[d]
    BY <1>1, <1>3 DEF Advertise, Reserving
  <2> QED BY <2>1 DEF NoLeakedReservation
<1>4. ASSUME NEW c \in Controller, AddStep(c) PROVE NoLeakedReservation'
  <2>1. CASE \/ ConnectRaises(c) \/ InitializeAborted(c) \/ PairRaises(c) \/ MergeRaises(c)
             \/ SetupFails(c) \/ (InitializeRaises(c) /\ ~link[c])
    BY <2>1, FailForgets DEF ConnectRaises, InitializeAborted, PairRaises, MergeRaises, SetupFails,
                             InitializeRaises
  <2>2. CASE \/ ScanGetsLock(c) \/ ConnectStart(c) \/ LinkUp(c) \/ ConnectDone(c) \/ PairStart(c)
             \/ (InitializeRaises(c) /\ link[c]) \/ (InitializeDone(c) /\ c \in PairingMode)
             \/ MergeDone(c) \/ RollbackGetsLock(c)
    <3>1. connectingMacs' \subseteq connectingMacs
      BY <2>2 DEF ScanGetsLock, ConnectStart, LinkUp, ConnectDone, PairStart, InitializeRaises,
                  InitializeDone, MergeDone, RollbackGetsLock, FinishRollback, taskVars
    <3>2. \A d \in Controller : stage[d] \in Reserving => stage'[d] \in Reserving
      BY <1>1, <2>2 DEF ScanGetsLock, ConnectStart, LinkUp, ConnectDone, PairStart, InitializeRaises,
                  InitializeDone, MergeDone, RollbackGetsLock, FinishRollback, taskVars, Reserving
    <3> QED BY <1>2, <3>1, <3>2
  <2>3. CASE SetupDone(c)
    <3>1. connectingMacs' \subseteq connectingMacs
      BY <2>3 DEF SetupDone
    <3>2. \A d \in Controller : stage[d] \in Reserving => stage'[d] \in Reserving
      BY <1>1, <2>3 DEF SetupDone, Reserving
    <3> QED BY <1>2, <3>1, <3>2
  <2>4. CASE Promote(c)
    <3>1. CASE LockFree
      <4> DEFINE reserved == connectingMacs \ {AddrOf[c]}
      <4>1. \E macs : Claim(c, <<Add(c)>>, macs, reserved)
        BY <2>4, <3>1 DEF Promote
      <4>2. reserved \subseteq connectingMacs /\ AddrOf[c] \notin reserved
        OBVIOUS
      <4> HIDE DEF reserved
      <4> QED BY <4>1, <4>2, ClaimForgets
    <3>2. CASE ~LockFree
      <4>1. connectingMacs' = connectingMacs \ {AddrOf[c]}
        BY <2>4, <3>2 DEF Promote
      <4>2. \A d \in Controller : d # c => stage'[d] = stage[d]
        BY <1>1, <2>4, <3>2 DEF Promote
      <4> QED BY <4>1, <4>2 DEF NoLeakedReservation
    <3> QED BY <3>1, <3>2
  <2>5. CASE AddGetsLock(c)
    <3>1. Claim(c, lockq, connectedMacs, connectingMacs) /\ stage[c] \notin Reserving
      BY <2>5 DEF AddGetsLock, Reserving
    <3> QED BY <3>1, ClaimForgets
  <2> QED BY <1>4, <2>1, <2>2, <2>3, <2>4, <2>5 DEF AddStep, InitializeDone, PairDone
<1>5. ASSUME NEW c \in Controller, DropStep(c) \/ DisconnectStep(c) PROVE NoLeakedReservation'
  <2>1. connectingMacs' \subseteq connectingMacs
    BY <1>5 DEF DropStep, DropStart, DropGoto, DropGetsLock, DropReorders, DropDone, DisconnectStep, DisconnectDone,
                DisconnectGivesUp, DisconnectReturns, taskVars
  <2>2. \A d \in Controller : stage[d] \in Reserving => stage'[d] \in Reserving
    BY <1>1, <1>5 DEF DropStep, DropStart, DropGoto, DropGetsLock, DropReorders, DropDone, DisconnectStep, DisconnectDone,
                DisconnectGivesUp, DisconnectReturns, taskVars, Reserving
  <2> QED BY <1>2, <2>1, <2>2
<1>6. ASSUME UNCHANGED <<connectingMacs, stage>> PROVE NoLeakedReservation'
  BY <1>6 DEF NoLeakedReservation
<1>7. ASSUME NEW v \in VcId, CloseStart(v) \/ CloseStep(v) PROVE UNCHANGED <<connectingMacs, stage>>
  BY <1>7 DEF CloseStart, CloseStep, CloseGathered, CloseNotify, CloseGetsLock, CloseReorders, CloseReleases, CloseEnd,
              taskVars
<1>8. CASE (\E a \in Addr : LinkDrop(a)) \/ Stop \/ AtRest \/ UNCHANGED vars
  <2>1. UNCHANGED <<connectingMacs, stage>>
    BY <1>8 DEF LinkDrop, Stop, AtRest, vars, taskVars
  <2> QED BY <1>6, <2>1
<1> QED BY <1>3, <1>4, <1>5, <1>6, <1>7, <1>8 DEF Next

-----------------------------------------------------------------------------

\* Joining a pair: which VirtualController it is.
LEMMA JoinShape ==
  ASSUME SlotsInv, NEW c \in Controller, NEW q, NEW macs, NEW reserved, JoinPair(c, q, macs, reserved)
  PROVE  \E v \in VcId :
           /\ InTable(v) /\ Len(members[v]) = 1 /\ {Kind[c], Kind[members[v][1]]} = {"left", "right"}
           /\ members' = [members EXCEPT ![v] = Append(@, c)]
           /\ stage' = [stage EXCEPT ![c] = "merge"] /\ home' = [home EXCEPT ![c] = v]
           /\ UNCHANGED <<table, made, running, device>>
<1>1. PICK i \in MergeSlots(c) : i = First(MergeSlots(c))
  <2> DEFINE S == MergeSlots(c)
  <2>1. S \in SUBSET Nat /\ S # {}
    BY SlotsAssumption DEF JoinPair, MergeSlots, Slot
  <2>2. First(S) \in S
    <3> HIDE DEF S
    <3> QED BY <2>1, FirstIsLeast
  <2> QED BY <2>2
<1>2. PICK v : v = table[i]
  OBVIOUS
<1>3. /\ v \in VcId /\ InTable(v) /\ Len(members[v]) = 1
      /\ {Kind[c], Kind[members[v][1]]} = {"left", "right"}
  <2>1. i \in Slot /\ table[i] \in VcId \cup {NoVc} /\ table[i] # NoVc
    BY <1>1 DEF MergeSlots, SlotsInv, SlotsTypeOK
  <2> QED BY <1>1, <1>2, <2>1 DEF MergeSlots, SingleOf, InTable
<1> QED BY <1>1, <1>2, <1>3 DEF JoinPair

\* A Joy-Con that joins a slot makes it a left/right pair.
LEMMA JoiningKeepsPairs ==
  ASSUME SlotsInv, PairsOpposite, NEW c \in Controller, NEW q, NEW macs, NEW reserved,
         JoinPair(c, q, macs, reserved)
  PROVE  PairsOpposite'
<1>1. PICK w \in VcId :
        /\ Len(members[w]) = 1 /\ {Kind[c], Kind[members[w][1]]} = {"left", "right"}
        /\ members' = [members EXCEPT ![w] = Append(@, c)]
  BY JoinShape
<1>2. members \in [VcId -> Seq(Controller)]
  BY DEF SlotsInv, SlotsTypeOK
<1>3. members[w] \in Seq(Controller)
  BY <1>2
<1>4. /\ Len(Append(members[w], c)) = 2
      /\ Append(members[w], c)[1] = members[w][1]
      /\ Append(members[w], c)[2] = c
  <2>1. /\ Len(Append(members[w], c)) = Len(members[w]) + 1
        /\ \A i \in 1 .. Len(members[w]) : Append(members[w], c)[i] = members[w][i]
        /\ Append(members[w], c)[Len(members[w]) + 1] = c
    BY <1>3, AppendProperties
  <2> QED BY <1>1, <2>1
<1>5. members'[w] = Append(members[w], c) /\ \A v \in VcId : v # w => members'[v] = members[v]
  BY <1>1, <1>2
<1>6. ASSUME NEW v \in VcId, Len(members'[v]) > 1
       PROVE  /\ Len(members'[v]) = 2
              /\ {Kind[members'[v][n]] : n \in 1 .. 2} = {"left", "right"}
  <2>1. CASE v = w
    <3>1. /\ Len(members'[v]) = 2
          /\ {Kind[members'[v][1]], Kind[members'[v][2]]} = {"left", "right"}
      BY <1>1, <1>4, <1>5, <2>1
    <3>2. 1 .. 2 = {1, 2}
      OBVIOUS
    <3>3. {Kind[members'[v][n]] : n \in 1 .. 2} = {Kind[members'[v][1]], Kind[members'[v][2]]}
      BY <3>2
    <3> QED BY <3>1, <3>3
  <2>2. CASE v # w
    <3>1. members'[v] = members[v]
      BY <1>5, <2>2
    <3> QED BY <3>1, <1>6 DEF PairsOpposite
  <2> QED BY <2>1, <2>2
<1> QED BY <1>6 DEF PairsOpposite

\* A VirtualController that is left alone, loses a controller or has at most one
\* breaks no pair.
LEMMA ShrinkingKeepsPairs ==
  ASSUME PairsOpposite, members \in [VcId -> Seq(Controller)],
         \A v \in VcId : \/ members'[v] = members[v]
                       \/ Len(members'[v]) = Len(members[v]) - 1
                       \/ Len(members'[v]) \in {0, 1}
  PROVE  PairsOpposite'
<1> SUFFICES ASSUME NEW v \in VcId, Len(members'[v]) > 1
             PROVE  /\ Len(members'[v]) = 2
                    /\ {Kind[members'[v][n]] : n \in 1 .. 2} = {"left", "right"}
  BY DEF PairsOpposite
<1>1. Len(members[v]) \in Nat
  BY LenProperties
<1>2. members'[v] = members[v]
  <2>1. Len(members[v]) > 1 => Len(members[v]) = 2
    BY DEF PairsOpposite
  <2> DEFINE n == Len(members[v])
             m == Len(members'[v])
  <2>2. /\ n \in Nat /\ m > 1 /\ (n > 1 => n = 2)
        /\ members'[v] = members[v] \/ m = n - 1 \/ m = 0 \/ m = 1
    BY <1>1, <2>1
  <2> HIDE DEF n, m
  <2> QED BY <2>2
<1> QED BY <1>2 DEF PairsOpposite

\* Evicting a controller breaks no pair.
LEMMA EvictKeepsPairs ==
  ASSUME SlotsInv, PairsOpposite, NEW c \in Controller, Evict(c)
  PROVE  PairsOpposite'
BY EvictKeepsSlots, ShrinkingKeepsPairs DEF SlotsInv, SlotsTypeOK

\* A claim breaks no pair.
LEMMA ClaimKeepsPairs ==
  ASSUME SlotsInv, PairsOpposite, NEW c \in Controller, NEW q, NEW macs, NEW reserved,
         Claim(c, q, macs, reserved)
  PROVE  PairsOpposite'
<1>1. members \in [VcId -> Seq(Controller)]
  BY DEF SlotsInv, SlotsTypeOK
<1>2. CASE JoinPair(c, q, macs, reserved)
  BY <1>2, JoiningKeepsPairs
<1>3. CASE TakeSlot(c, q, macs, reserved)
  <2>1. members' = [members EXCEPT ![NewVc] = <<c>>] /\ Len(<<c>>) = 1
    BY <1>3 DEF TakeSlot, Create
  <2>2. \A v \in VcId : members'[v] = members[v] \/ Len(members'[v]) = 1
    BY <1>1, <2>1
  <2> QED BY <1>1, <2>2, ShrinkingKeepsPairs
<1>4. CASE FindTableFull(c, q, macs)
  BY <1>4 DEF FindTableFull, vcVars, PairsOpposite
<1> QED BY <1>2, <1>3, <1>4 DEF Claim

\* Every step of the route keeps pairs opposite.
LEMMA PairsStep ==
  ASSUME SlotsInv, TypeOK, SomebodyToReport, PairsOpposite, [Next]_vars
  PROVE  PairsOpposite'
<1>1. ASSUME members' = members PROVE PairsOpposite'
  BY <1>1 DEF PairsOpposite
<1>2. ASSUME NEW c \in Controller, Advertise(c) \/ AddStep(c) PROVE PairsOpposite'
  <2>1. CASE Promote(c)
    BY <2>1, <1>1, ClaimKeepsPairs DEF Promote, vcVars
  <2>2. CASE AddGetsLock(c)
    BY <2>2, ClaimKeepsPairs DEF AddGetsLock
  <2>3. CASE Advertise(c) \/ (AddStep(c) /\ ~Promote(c) /\ ~AddGetsLock(c))
    <3>1. members' = members
      BY <2>3 DEF AddStep, Advertise, ScanGetsLock, ConnectStart, LinkUp, ConnectDone, ConnectRaises,
         InitializeDone, InitializeRaises, InitializeAborted, PairStart, PairDone, PairRaises,
         MergeDone, MergeRaises, SetupDone, SetupFails, RollbackGetsLock, slotVars, vcVars
    <3> QED BY <3>1, <1>1
  <2> QED BY <1>2, <2>1, <2>2, <2>3
<1>3. ASSUME NEW c \in Controller, DropStep(c) \/ DisconnectStep(c) PROVE PairsOpposite'
  <2>1. CASE Evict(c)
    BY <2>1, EvictKeepsPairs
  <2>2. CASE ~Evict(c)
    <3>1. members' = members
      BY <1>3, <2>2 DEF DropStep, DropStart, DropGoto, DropGetsLock, DropReorders, DropDone, DisconnectStep, DisconnectDone,
                DisconnectGivesUp, EnterDrop, EvictLocked, slotVars, vcVars
    <3> QED BY <3>1, <1>1
  <2> QED BY <2>1, <2>2
<1>4. ASSUME NEW v \in VcId, CloseStart(v) \/ CloseStep(v) PROVE PairsOpposite'
  <2>1. CASE Evict(Head(vcTodo[v])) /\ vcTodo[v] # <<>>
    <3>1. vcTodo[v] \in Seq(Controller)
      BY DEF TypeOK
    <3>2. Head(vcTodo[v]) \in Controller
      BY <2>1, <3>1, HeadTailProperties
    <3> QED BY <2>1, <3>2, EvictKeepsPairs
  <2>2. CASE CloseEnd(v)
    <3>1. members \in [VcId -> Seq(Controller)]
      BY DEF SlotsInv, SlotsTypeOK
    <3>2. members' = [members EXCEPT ![v] = <<>>] /\ Len(<<>>) = 0
      BY <2>2 DEF CloseEnd
    <3>3. \A w \in VcId : members'[w] = members[w] \/ Len(members'[w]) = 0
      BY <3>1, <3>2
    <3> QED BY <3>1, <3>3, ShrinkingKeepsPairs
  <2>3. CASE CloseGetsLock(v)
    <3>1. Evict(Head(vcTodo[v])) /\ vcTodo[v] # <<>>
      BY <2>3 DEF CloseGetsLock, CloseLocked, EvictLocked, SomebodyToReport
    <3> QED BY <2>1, <3>1
  <2>4. CASE CloseNotify(v)
    BY <2>1, <2>4, <1>1 DEF CloseNotify, CloseLocked, EvictLocked, slotVars, vcVars
  <2>5. CASE CloseStart(v) \/ CloseGathered(v) \/ CloseReorders(v) \/ CloseReleases(v)
    BY <2>5, <1>1 DEF CloseStart, CloseGathered, CloseReorders, CloseReleases, slotVars, vcVars
  <2> QED BY <1>4, <2>2, <2>3, <2>4, <2>5 DEF CloseStep
<1>5. CASE (\E a \in Addr : LinkDrop(a)) \/ Stop \/ AtRest \/ UNCHANGED vars
  BY <1>1, <1>5 DEF LinkDrop, Stop, AtRest, vars, slotVars, vcVars
<1> QED BY <1>2, <1>3, <1>4, <1>5 DEF Next

-----------------------------------------------------------------------------
\* The players are in order, unless a callback that holds GLOBAL_LOCK has freed a slot
\* and is not yet past reorder_controllers(): the strengthening PlayersNumbered needs.
OrderInv ==
  ~stopping =>
    \/ PlayersInOrder
    \/ /\ lockq # <<>>
       /\ \/ \E c \in Controller : Head(lockq) = Drop(c) /\ drop[c] # "leds"
          \/ \E v \in VcId : Head(lockq) = Close(v) /\ vcStage[v] # "leds"

\* No callback comes to its LED writes in this step.
NobodyLights ==
  /\ \A c \in Controller : drop'[c] = "leds" => drop[c] = "leds"
  /\ \A v \in VcId : vcStage'[v] = "leds" => vcStage[v] = "leds"

\* A step that touches neither table nor players and leaves the lock's holder alone
\* keeps the order.
LEMMA OrderUntouched ==
  ASSUME OrderInv, UNCHANGED <<table, player>>, stopping => stopping', NobodyLights,
         lockq # <<>> => lockq' # <<>> /\ Head(lockq') = Head(lockq)
  PROVE  OrderInv'
BY DEF OrderInv, PlayersInOrder, NobodyLights, Drop, Close

\* When the holder of the lock has freed no slot, the players are in order, and a step
\* that touches neither table nor players keeps them so.
LEMMA OrderHandedOn ==
  ASSUME OrderInv, UNCHANGED <<table, player>>, stopping => stopping',
         \A c \in Controller : ~Holds(Drop(c)), \A v \in VcId : ~Holds(Close(v))
  PROVE  OrderInv'
BY DEF OrderInv, PlayersInOrder, Drop, Close, Holds

\* A claim keeps the order: it joins a slot, or reorders.
LEMMA ClaimKeepsOrder ==
  ASSUME TypeOK, SlotsInv, OrderInv, NEW c \in Controller, NEW q \in Seq(Process), NEW macs, NEW reserved,
         q # <<>>, Head(q) = Add(c), lockq # <<>> => lockq = q,
         Claim(c, q, macs, reserved), UNCHANGED stopping
  PROVE  OrderInv'
<1>1. /\ \A d \in Controller : ~Holds(Drop(d))
      /\ \A v \in VcId : ~Holds(Close(v))
  BY DEF Holds, Add, Drop, Close
<1>2. CASE JoinPair(c, q, macs, reserved) \/ FindTableFull(c, q, macs)
  <2>1. UNCHANGED <<table, player>>
    BY <1>2 DEF JoinPair, FindTableFull, vcVars
  <2> QED BY <1>1, <2>1, OrderHandedOn
<1>3. CASE TakeSlot(c, q, macs, reserved)
  BY <1>3, TakingSlotKeepsSlots DEF TakeSlot, OrderInv
<1> QED BY <1>2, <1>3 DEF Claim

\* Every step of the route keeps the order, up to the holder that still has to reorder.
LEMMA OrderStep ==
  ASSUME TypeOK, SlotsInv, LockInv, OrderInv, [Next]_vars
  PROVE  OrderInv'
<1>1. /\ lockq \in Seq(Process) /\ CriticalSectionsExclusive
      /\ drop \in [Controller -> {"none", "start", "wait", "reinit", "leds"}]
      /\ vcStage \in [VcId -> {"idle", "closing", "notify", "wait", "reinit", "leds"}]
  BY DEF LockInv, TypeOK
<1>2. ASSUME NEW c \in Controller, Advertise(c) \/ AddStep(c) PROVE OrderInv'
  <2>1. stopping' = stopping /\ Add(c) \in Process /\ Scan(c) \in Process
    BY <1>2, Processes DEF AddStep, Advertise, ScanGetsLock, ConnectStart, LinkUp, ConnectDone,
         ConnectRaises, InitializeDone, InitializeRaises, InitializeAborted, PairStart, PairDone, PairRaises,
         AddGetsLock, MergeDone, MergeRaises, SetupDone, SetupFails, RollbackGetsLock
  <2>2. NobodyLights
    BY <1>2 DEF AddStep, Advertise, ScanGetsLock, ConnectStart, LinkUp, ConnectDone, ConnectRaises,
         InitializeDone, InitializeRaises, InitializeAborted, PairStart, PairDone, PairRaises,
         AddGetsLock, MergeDone, MergeRaises, SetupDone, SetupFails, RollbackGetsLock, linkVars, closeVars,
         NobodyLights
  <2>3. CASE AddGetsLock(c)
    BY <1>1, <2>1, <2>3, ClaimKeepsOrder DEF AddGetsLock, Holds
  <2>4. CASE Promote(c)
    <3>1. CASE LockFree
      <4>1. \E macs, reserved : Claim(c, <<Add(c)>>, macs, reserved)
        BY <2>4, <3>1 DEF Promote
      <4>2. <<Add(c)>> \in Seq(Process) /\ <<Add(c)>> # <<>> /\ Head(<<Add(c)>>) = Add(c)
        BY <2>1, QueueSteps
      <4> QED BY <2>1, <3>1, <4>1, <4>2, ClaimKeepsOrder DEF LockFree
    <3>2. CASE ~LockFree
      <4>1. lockq' = Append(lockq, Add(c)) /\ UNCHANGED <<table, player>>
        BY <2>4, <3>2 DEF Promote, vcVars
      <4>2. lockq' # <<>> /\ (lockq # <<>> => Head(lockq') = Head(lockq))
        BY <1>1, <2>1, <4>1, QueueSteps
      <4> QED BY <2>1, <2>2, <4>1, <4>2, OrderUntouched
    <3> QED BY <3>1, <3>2
  <2>5. CASE MergeDone(c)
    BY <2>5, ReorderKeepsSlots DEF MergeDone, OrderInv
  <2>6. CASE ScanGetsLock(c) \/ RollbackGetsLock(c) \/ MergeRaises(c)
    <3>1. \E p \in {Scan(c), Rollback(c), Add(c)} : Holds(p)
      BY <1>1, <2>6 DEF ScanGetsLock, RollbackGetsLock, MergeRaises, CriticalSectionsExclusive
    <3>2. /\ \A d \in Controller : ~Holds(Drop(d))
          /\ \A v \in VcId : ~Holds(Close(v))
      BY <3>1 DEF Holds, Scan, Rollback, Add, Drop, Close
    <3>3. UNCHANGED <<table, player>>
      BY <2>6 DEF ScanGetsLock, RollbackGetsLock, MergeRaises, vcVars
    <3> QED BY <2>1, <3>2, <3>3, OrderHandedOn
  <2>7. CASE \/ ConnectRaises(c) \/ (InitializeRaises(c) /\ ~link[c]) \/ InitializeAborted(c)
             \/ PairRaises(c) \/ SetupFails(c)
    <3>1. Fail(c, lockq, connectedMacs)
      BY <2>7 DEF ConnectRaises, InitializeRaises, InitializeAborted, PairRaises, SetupFails
    <3>2. UNCHANGED <<table, player>>
      BY <2>7 DEF ConnectRaises, InitializeRaises, InitializeAborted, PairRaises, SetupFails, vcVars
    <3> QED BY <1>1, <2>1, <2>2, <3>1, <3>2, FailQueues, OrderUntouched
  <2>8. CASE \/ Advertise(c) \/ ConnectStart(c) \/ LinkUp(c) \/ ConnectDone(c) \/ PairStart(c) \/ SetupDone(c)
             \/ (InitializeDone(c) /\ c \in PairingMode) \/ (InitializeRaises(c) /\ link[c])
    <3>1. lockq' = lockq \/ lockq' = Append(lockq, Scan(c))
      BY <2>8 DEF Advertise, ConnectStart, LinkUp, ConnectDone, PairStart, SetupDone, InitializeDone,
                  InitializeRaises, slotVars
    <3>2. UNCHANGED <<table, player>>
      BY <2>8 DEF Advertise, ConnectStart, LinkUp, ConnectDone, PairStart, SetupDone, InitializeDone,
                  InitializeRaises, slotVars, vcVars
    <3>3. lockq # <<>> => lockq' # <<>> /\ Head(lockq') = Head(lockq)
      BY <1>1, <2>1, <3>1, QueueSteps
    <3> QED BY <2>1, <2>2, <3>2, <3>3, OrderUntouched
  <2> QED BY <1>2, <2>3, <2>4, <2>5, <2>6, <2>7, <2>8 DEF AddStep, InitializeDone, PairDone
<1>3. ASSUME NEW c \in Controller, EnterDrop(c), UNCHANGED <<stopping, vcStage>> PROVE OrderInv'
  <2>1. Drop(c) \in Process
    BY Processes
  <2>2. CASE LockFree
    <3>1. lockq' = <<Drop(c)>> /\ drop'[c] = "reinit"
      BY <1>1, <1>3, <2>2 DEF EnterDrop, EvictLocked, DropGoto
    <3>2. <<Drop(c)>> # <<>> /\ Head(<<Drop(c)>>) = Drop(c)
      BY <2>1, QueueSteps
    <3> QED BY <1>3, <3>1, <3>2 DEF OrderInv, Drop
  <2>3. CASE ~LockFree
    <3>1. lockq' = Append(lockq, Drop(c)) /\ UNCHANGED <<table, player>>
      BY <1>3, <2>3 DEF EnterDrop, vcVars
    <3>2. lockq # <<>> => lockq' # <<>> /\ Head(lockq') = Head(lockq)
      BY <1>1, <2>1, <3>1, QueueSteps
    <3>3. NobodyLights
      BY <1>1, <1>3, <2>3 DEF EnterDrop, DropGoto, NobodyLights
    <3> QED BY <1>3, <3>1, <3>2, <3>3, OrderUntouched
  <2> QED BY <2>2, <2>3
<1>4. ASSUME NEW c \in Controller, DropStep(c) \/ DisconnectStep(c) PROVE OrderInv'
  <2>1. stopping' = stopping /\ vcStage' = vcStage
    BY <1>4 DEF DropStep, DropStart, DropGetsLock, DropReorders, DropDone, DisconnectStep, DisconnectDone,
                DisconnectGivesUp, closeVars
  <2>2. CASE EnterDrop(c)
    BY <1>3, <2>1, <2>2
  <2>3. CASE DropGetsLock(c)
    <3>1. Holds(Drop(c)) /\ lockq' = lockq /\ drop'[c] = "reinit"
      BY <1>1, <2>3 DEF DropGetsLock, EvictLocked, DropGoto
    <3> QED BY <2>1, <3>1 DEF Holds, OrderInv
  <2>4. CASE DropReorders(c)
    BY <2>1, <2>4, ReorderKeepsSlots DEF DropReorders, OrderInv
  <2>5. CASE DropDone(c)
    <3>1. Holds(Drop(c)) /\ drop[c] = "leds" /\ UNCHANGED <<table, player>>
      BY <1>1, <2>5 DEF DropDone, CriticalSectionsExclusive, vcVars
    <3> QED BY <2>1, <3>1 DEF OrderInv, PlayersInOrder, Holds, Drop, Close
  <2>6. CASE UNCHANGED slotVars /\ (drop' = drop \/ DropGoto(c, "none"))
    <3>1. NobodyLights /\ UNCHANGED <<lockq, table, player>>
      BY <1>1, <2>1, <2>6 DEF NobodyLights, DropGoto, slotVars, vcVars
    <3> QED BY <2>1, <3>1, OrderUntouched
  <2> QED BY <1>4, <2>2, <2>3, <2>4, <2>5, <2>6 DEF DropStep, DropStart, DisconnectStep, DisconnectDone,
                                                    DisconnectGivesUp
<1>5. ASSUME NEW v \in VcId, CloseStart(v) \/ CloseStep(v) PROVE OrderInv'
  <2>1. stopping' = stopping /\ drop' = drop
    BY <1>5 DEF CloseStart, CloseStep, CloseGathered, CloseNotify, CloseGetsLock, CloseReorders,
                CloseReleases, CloseEnd, linkVars
  <2>2. Close(v) \in Process
    BY Processes
  <2>3. ASSUME UNCHANGED <<table, player>>,
               NEW s \in {"idle", "closing", "notify", "wait"}, CloseGoto(v, s),
               lockq' = lockq \/ lockq' = Append(lockq, Close(v))
        PROVE  OrderInv'
    <3>1. lockq # <<>> => lockq' # <<>> /\ Head(lockq') = Head(lockq)
      BY <1>1, <2>2, <2>3, QueueSteps
    <3>2. NobodyLights
      BY <1>1, <2>1, <2>3 DEF CloseGoto, NobodyLights
    <3> QED BY <2>1, <2>3, <3>1, <3>2, OrderUntouched
  <2>4. CASE CloseStart(v) \/ CloseGathered(v) \/ CloseEnd(v)
    BY <2>3, <2>4 DEF CloseStart, CloseGathered, CloseEnd, CloseGoto, slotVars, vcVars
  <2>5. CASE CloseNotify(v)
    <3>1. CASE CloseLocked(v, <<Close(v)>>)
      <4>1. lockq' = <<Close(v)>> /\ vcStage'[v] = "reinit"
        BY <1>1, <3>1 DEF CloseLocked, EvictLocked, CloseGoto
      <4>2. <<Close(v)>> # <<>> /\ Head(<<Close(v)>>) = Close(v)
        BY <2>2, QueueSteps
      <4> QED BY <2>1, <4>1, <4>2 DEF OrderInv, Close
    <3>2. CASE UNCHANGED vcVars /\ lockq' = Append(lockq, Close(v)) /\ CloseGoto(v, "wait")
      BY <2>3, <3>2 DEF vcVars
    <3>3. CASE UNCHANGED slotVars /\ Done(v)
      BY <2>3, <3>3 DEF Done, slotVars, vcVars
    <3> QED BY <2>5, <3>1, <3>2, <3>3 DEF CloseNotify
  <2>6. CASE CloseGetsLock(v)
    <3>1. Holds(Close(v)) /\ lockq' = lockq /\ vcStage'[v] = "reinit"
      BY <1>1, <2>6 DEF CloseGetsLock, CloseLocked, EvictLocked, CloseGoto
    <3> QED BY <2>1, <3>1 DEF Holds, OrderInv
  <2>7. CASE CloseReorders(v)
    BY <2>1, <2>7, ReorderKeepsSlots DEF CloseReorders, OrderInv
  <2>8. CASE CloseReleases(v)
    <3>1. Holds(Close(v)) /\ vcStage[v] = "leds" /\ UNCHANGED <<table, player>>
      BY <1>1, <2>8 DEF CloseReleases, CriticalSectionsExclusive, vcVars
    <3> QED BY <2>1, <3>1 DEF OrderInv, PlayersInOrder, Holds, Drop, Close
  <2> QED BY <1>5, <2>4, <2>5, <2>6, <2>7, <2>8 DEF CloseStep
<1>6. CASE (\E a \in Addr : LinkDrop(a)) \/ Stop \/ AtRest \/ UNCHANGED vars
  <2>1. UNCHANGED <<lockq, table, player>> /\ (stopping => stopping')
    BY <1>6 DEF LinkDrop, Stop, AtRest, vars, slotVars, vcVars
  <2>2. NobodyLights
    BY <1>6 DEF LinkDrop, Stop, AtRest, vars, linkVars, closeVars, NobodyLights
  <2> QED BY <2>1, <2>2, OrderUntouched
<1> QED BY <1>2, <1>4, <1>5, <1>6 DEF Next

-----------------------------------------------------------------------------
\* The inductive invariant.
Inv ==
  /\ TypeOK
  /\ SlotsInv
  /\ LockInv
  /\ SomebodyToReport
  /\ OrderInv

\* The program starts with an empty table, no task and a free lock.
LEMMA InitEstablishesInv == Init => Inv /\ NoLeakedReservation /\ PairsOpposite
<1> SUFFICES ASSUME Init PROVE Inv /\ NoLeakedReservation /\ PairsOpposite
  OBVIOUS
<1>1. /\ Slots \in Nat \ {0} /\ MaxVc \in Nat \ {0} /\ <<>> \in Seq(Controller) /\ <<>> \in Seq(Process)
      /\ Len(<<>>) = 0
  BY SlotsAssumption
<1>2. Occupied(table) = {} /\ 1 .. 0 = {} /\ 0 \in 0 .. Slots
  BY <1>1 DEF Init, SlotsInit, Occupied
<1>3. SlotsTypeOK
  BY <1>1 DEF Init, SlotsInit, SlotsTypeOK
<1>4. TypeOK
  BY <1>1, <1>3 DEF Init, TypeOK, Stages
<1>5. SlotsInv
  BY <1>1, <1>3 DEF Init, SlotsInit, SlotsInv, OncePerTable, NoVc
<1>6. LockInv
  BY <1>1 DEF Init, SlotsInit, LockInv, CriticalSectionsExclusive
<1>7. SomebodyToReport
  BY DEF Init, SomebodyToReport
<1>8. OrderInv
  BY <1>2 DEF OrderInv, PlayersInOrder
<1>9. NoLeakedReservation
  BY DEF Init, NoLeakedReservation
<1>10. PairsOpposite
  BY <1>1 DEF Init, SlotsInit, PairsOpposite
<1> QED BY <1>4, <1>5, <1>6, <1>7, <1>8, <1>9, <1>10 DEF Inv

\* Inv is inductive.
LEMMA NextKeepsInv == Inv /\ [Next]_vars => Inv'
<1> SUFFICES ASSUME Inv, [Next]_vars PROVE Inv'
  OBVIOUS
<1>1. TypeOK /\ SlotsInv /\ LockInv /\ SomebodyToReport /\ OrderInv
  BY DEF Inv
<1>2. SlotsInv'
  BY <1>1, SlotsStep
<1>3. /\ SomebodyToReport' /\ vcTodo' \in [VcId -> Seq(Controller)]
      /\ vcStage' \in [VcId -> {"idle", "closing", "notify", "wait", "reinit", "leds"}]
  BY <1>1, TodoStep
<1>4. LockInv' /\ stage' \in [Controller -> Stages] /\ DropTyped
  BY <1>1, LockStep
<1>5. MacsTyped /\ TaskTyped /\ LinkTyped
  BY <1>1 DEF TypeOK, MacsTyped, TaskTyped, LinkTyped
<1>6. MacsTyped' /\ TaskTyped' /\ LinkTyped'
  BY <1>1, <1>5, AddIsTyped, OthersAreTyped
<1>7. TypeOK'
  BY <1>2, <1>3, <1>4, <1>6 DEF TypeOK, MacsTyped, TaskTyped, LinkTyped, DropTyped, SlotsInv
<1>8. OrderInv'
  BY <1>1, OrderStep
<1> QED BY <1>2, <1>3, <1>4, <1>7, <1>8 DEF Inv

\* Inv holds in every reachable state.
THEOREM Invariance == Spec => []Inv
<1>1. Init => Inv
  BY InitEstablishesInv
<1> QED BY <1>1, NextKeepsInv, PTL DEF Spec

\* Every variable keeps its type; in particular connected_mac_addresses never counts
\* an address less than zero times, and the lock queue is never popped empty.
THEOREM TypeCorrect == Spec => []TypeOK
<1>1. Inv => TypeOK
  BY DEF Inv
<1> QED BY <1>1, Invariance, PTL

\* No two critical sections of GLOBAL_LOCK overlap, whatever number of controllers
\* and slots.
THEOREM SectionsExclude == Spec => []CriticalSectionsExclusive
<1>1. Inv => CriticalSectionsExclusive
  BY DEF Inv, LockInv
<1> QED BY <1>1, Invariance, PTL

\* A virtual device never outlives the slot of its VirtualController, however a late
\* setup_virtual_device() interleaves with the eviction.
THEOREM NoZombies == Spec => []NoZombieDevice
<1>1. Inv => NoZombieDevice
  BY DEF Inv, SlotsInv, NoZombieDevice
<1> QED BY <1>1, Invariance, PTL

\* Whenever GLOBAL_LOCK is free and the session is not stopping, the players are
\* numbered 1, 2, ... without a hole.
THEOREM Numbering == Spec => []PlayersNumbered
<1>1. Inv => PlayersNumbered
  BY DEF Inv, OrderInv, PlayersNumbered, LockFree
<1> QED BY <1>1, Invariance, PTL

\* An address is reserved in _connecting_macs only while an attempt on it is on its way.
THEOREM Reservations == Spec => []NoLeakedReservation
<1>1. Init => NoLeakedReservation
  BY InitEstablishesInv
<1>2. Inv /\ NoLeakedReservation /\ [Next]_vars => NoLeakedReservation'
  BY ReservationStep DEF Inv
<1> QED BY <1>1, <1>2, Invariance, PTL DEF Spec

\* A VirtualController never drives anything but a left/right pair or one controller.
THEOREM Pairs == Spec => []PairsOpposite
<1>1. Init => PairsOpposite
  BY InitEstablishesInv
<1>2. Inv /\ PairsOpposite /\ [Next]_vars => PairsOpposite'
  BY PairsStep DEF Inv
<1> QED BY <1>1, <1>2, Invariance, PTL DEF Spec

\* A slot is emptied only when its VirtualController has lost its last controller.
THEOREM SlotsFreed == Spec => SlotFreedWhenEmpty
<1>1. Inv /\ [Next]_vars => [\A v \in VcId : InTable(v) /\ ~InTable(v)' => members'[v] = <<>>]_vars
  BY SlotsStep DEF Inv, SlotFreed
<1> QED BY <1>1, Invariance, PTL DEF Spec, SlotFreedWhenEmpty

-----------------------------------------------------------------------------
(* The route implements SlotPool *)

\* The stages of an attempt that has not claimed a slot.
Unclaimed == {"unused", "claim_wait"} \cup Reserving

\* What the refinement needs beyond Inv: a VirtualController lists only controllers whose
\* attempt has claimed a slot, each of them in one place, and it is stopped for good once
\* its disconnect() has begun.
ClaimedFirst == \A v \in VcId : \A n \in DOMAIN members[v] : stage[members[v][n]] \notin Unclaimed
ClosedIsStopped == \A v \in VcId : vcStage[v] # "idle" => v <= made /\ ~running[v]
PoolInv == ClaimedFirst /\ DrivenOnce /\ ClosedIsStopped

\* A step the abstract specification allows.
PoolStep == [Pool!PoolNext]_(Pool!poolVars)

\* No attempt goes back to before its claim.
NoneUnclaims == \A c \in Controller : stage'[c] \in Unclaimed => stage[c] \in Unclaimed

\* No VirtualController begins to close.
NoneCloses == \A v \in VcId : vcStage'[v] # "idle" => vcStage[v] # "idle"

\* A step by which nobody joins a VirtualController keeps ClaimedFirst.
LEMMA ClaimedFirstKept ==
  ASSUME SlotsInv, ClaimedFirst, NoneUnclaims, NobodyJoins
  PROVE  ClaimedFirst'
BY MembersAreControllers DEF ClaimedFirst, NoneUnclaims, NobodyJoins

\* A step that touches no VirtualController does not show in the pool.
LEMMA HiddenStep ==
  ASSUME SlotsInv, PoolInv, UNCHANGED vcVars, NoneUnclaims, NoneCloses
  PROVE  PoolInv' /\ PoolStep
<1>1. ClaimedFirst'
  BY ClaimedFirstKept DEF PoolInv, vcVars, NobodyJoins
<1>2. DrivenOnce' /\ ClosedIsStopped'
  BY DEF PoolInv, vcVars, DrivenOnce, ClosedIsStopped, NoneCloses
<1>3. UNCHANGED Pool!poolVars
  BY PoolStutters DEF vcVars, InTable
<1> QED BY <1>1, <1>2, <1>3 DEF PoolInv, PoolStep

\* Neither does a reorder.
LEMMA ReorderShows ==
  ASSUME SlotsInv, PoolInv, Reorder(table, members), UNCHANGED <<made, members, running, device>>,
         NoneUnclaims, NoneCloses
  PROVE  PoolInv' /\ PoolStep
<1>1. ClaimedFirst'
  BY ClaimedFirstKept DEF PoolInv, NobodyJoins
<1>2. DrivenOnce' /\ ClosedIsStopped'
  BY DEF PoolInv, DrivenOnce, ClosedIsStopped, NoneCloses
<1> QED BY <1>1, <1>2, ReorderIsHidden DEF PoolInv, PoolStep

\* An eviction is a Leave.
LEMMA EvictShows ==
  ASSUME SlotsInv, PoolInv, NEW c \in Controller, Evict(c), NoneUnclaims, NoneCloses
  PROVE  PoolInv' /\ PoolStep
<1>1. ClaimedFirst' /\ DrivenOnce'
  BY EvictLeaves, ClaimedFirstKept DEF PoolInv
<1>2. ClosedIsStopped'
  <2>1. running \in [VcId -> BOOLEAN]
    BY DEF SlotsInv, SlotsTypeOK
  <2>2. made' = made /\ \A v \in VcId : running'[v] => running[v]
    BY <2>1 DEF Evict, vcVars
  <2> QED BY <2>2 DEF PoolInv, ClosedIsStopped, NoneCloses
<1>3. PoolStep
  BY EvictLeaves DEF PoolInv, PoolStep, Pool!PoolNext
<1> QED BY <1>1, <1>2, <1>3 DEF PoolInv

\* A claim is a Join or an Open, or finds the table full.
LEMMA ClaimShows ==
  ASSUME SlotsInv, TypeOK, PoolInv, NEW c \in Controller, NEW q, NEW macs, NEW reserved,
         stage[c] \in Unclaimed, Claim(c, q, macs, reserved), UNCHANGED vcStage
  PROVE  PoolInv' /\ PoolStep
<1>1. \A v \in VcId : ~Drives(v, c)
  BY DEF PoolInv, ClaimedFirst, Drives
<1>2. stage \in [Controller -> Stages] /\ made \in Nat
  BY SlotsAssumption DEF TypeOK, SlotsTypeOK
<1>3. ASSUME OnlyJoins(c), NEW s \in {"merge", "virtual_device_setup"}, stage' = [stage EXCEPT ![c] = s]
      PROVE  ClaimedFirst'
  <2>1. \A d \in Controller : stage'[d] \in Unclaimed => stage[d] \in Unclaimed /\ d # c
    BY <1>2, <1>3 DEF Unclaimed, Reserving
  <2>2. \A v \in VcId : \A n \in DOMAIN members[v] : members[v][n] \in Controller
    BY MembersAreControllers
  <2>3. ClaimedFirst /\ stage'[c] \notin Unclaimed
    BY <2>1 DEF PoolInv
  <2> QED BY <1>3, <2>1, <2>2, <2>3 DEF ClaimedFirst, OnlyJoins
<1>4. CASE JoinPair(c, q, macs, reserved)
  <2>1. PICK v \in VcId :
          /\ InTable(v) /\ Len(members[v]) = 1 /\ {Kind[c], Kind[members[v][1]]} = {"left", "right"}
          /\ members' = [members EXCEPT ![v] = Append(@, c)]
          /\ stage' = [stage EXCEPT ![c] = "merge"]
          /\ UNCHANGED <<table, made, running, device>>
    BY <1>4, JoinShape
  <2>2. Pool!Join(v, c) /\ DrivenOnce' /\ OnlyJoins(c)
    BY <1>1, <2>1, AppendingJoins DEF PoolInv
  <2>3. ClosedIsStopped'
    BY <2>1 DEF PoolInv, ClosedIsStopped
  <2> QED BY <1>3, <2>1, <2>2, <2>3 DEF PoolInv, PoolStep, Pool!PoolNext
<1>5. CASE TakeSlot(c, q, macs, reserved)
  <2>1. /\ Create(c) /\ stage' = [stage EXCEPT ![c] = "virtual_device_setup"] /\ NewVc \in VcId
        /\ Pool!Open(NewVc, c) /\ DrivenOnce' /\ OnlyJoins(c)
    BY <1>1, <1>5, TakingSlotOpens, TakingSlotKeepsSlots DEF PoolInv, TakeSlot
  <2>2. ClosedIsStopped'
    <3>1. /\ running \in [VcId -> BOOLEAN] /\ made' = made + 1
          /\ running' = [running EXCEPT ![made + 1] = TRUE]
      BY <2>1 DEF Create, NewVc, SlotsInv, SlotsTypeOK
    <3>2. \A v \in VcId : vcStage[v] # "idle" => v <= made /\ ~running[v]
      BY DEF PoolInv, ClosedIsStopped
    <3>3. \A v \in VcId : v \in Nat
      BY DEF VcId
    <3>4. \A v \in VcId : v <= made => v # made + 1 /\ v <= made + 1
      BY <1>2, <3>3
    <3>5. \A v \in VcId : v # made + 1 => running'[v] = running[v]
      BY <3>1
    <3> QED BY <3>1, <3>2, <3>4, <3>5 DEF ClosedIsStopped
  <2> QED BY <1>3, <2>1, <2>2 DEF PoolInv, PoolStep, Pool!PoolNext
<1>6. CASE FindTableFull(c, q, macs)
  <2>1. NoneUnclaims
    BY <1>2, <1>6 DEF FindTableFull, Fail, FinishRollback, NoneUnclaims, Unclaimed, Reserving
  <2> QED BY <1>6, <2>1, HiddenStep DEF FindTableFull, NoneCloses
<1> QED BY <1>4, <1>5, <1>6 DEF Claim

\* Every step of add_controller and of the scan callback is one of the pool or hidden.
LEMMA AddShows ==
  ASSUME SlotsInv, TypeOK, PoolInv, NEW c \in Controller, Advertise(c) \/ AddStep(c)
  PROVE  PoolInv' /\ PoolStep
<1>1. stage \in [Controller -> Stages]
  BY DEF TypeOK
<1>2. vcStage' = vcStage
  BY DEF AddStep, Advertise, ScanGetsLock, ConnectStart, LinkUp, ConnectDone, ConnectRaises,
         InitializeDone, InitializeRaises, InitializeAborted, PairStart, PairDone, PairRaises,
         AddGetsLock, MergeDone, MergeRaises, SetupDone, SetupFails, RollbackGetsLock, closeVars
<1>3. NoneCloses
  BY <1>2 DEF NoneCloses
<1>4. CASE Promote(c) /\ stage[c] \in {"initialize", "pair"}
  <2>1. CASE LockFree
    BY <1>2, <1>4, <2>1, ClaimShows DEF Promote, Unclaimed, Reserving
  <2>2. CASE ~LockFree
    <3>1. UNCHANGED vcVars /\ NoneUnclaims
      BY <1>1, <1>4, <2>2 DEF Promote, NoneUnclaims, Unclaimed, Reserving
    <3> QED BY <1>3, <3>1, HiddenStep
  <2> QED BY <2>1, <2>2
<1>5. CASE AddGetsLock(c)
  BY <1>2, <1>5, ClaimShows DEF AddGetsLock, Unclaimed
<1>6. CASE \/ Advertise(c) \/ ScanGetsLock(c) \/ ConnectStart(c) \/ LinkUp(c) \/ ConnectDone(c) \/ PairStart(c)
           \/ (InitializeDone(c) /\ c \in PairingMode) \/ (InitializeRaises(c) /\ link[c])
  <2>1. NoneUnclaims
    BY <1>1, <1>6 DEF Advertise, ScanGetsLock, ConnectStart, LinkUp, ConnectDone, PairStart, InitializeDone,
                      InitializeRaises, taskVars, NoneUnclaims, Unclaimed, Reserving
  <2>2. UNCHANGED vcVars
    BY <1>6 DEF Advertise, ScanGetsLock, ConnectStart, LinkUp, ConnectDone, PairStart, InitializeDone,
                InitializeRaises, slotVars
  <2> QED BY <1>3, <2>1, <2>2, HiddenStep
<1>7. ASSUME NEW q, NEW macs, Fail(c, q, macs) PROVE NoneUnclaims
  BY <1>1, <1>7 DEF Fail, FinishRollback, NoneUnclaims, Unclaimed, Reserving
<1>8. CASE \/ ConnectRaises(c) \/ (InitializeRaises(c) /\ ~link[c]) \/ InitializeAborted(c)
           \/ PairRaises(c) \/ MergeRaises(c) \/ RollbackGetsLock(c)
  <2>1. NoneUnclaims
    <3>1. CASE RollbackGetsLock(c)
      BY <1>1, <3>1 DEF RollbackGetsLock, FinishRollback, NoneUnclaims, Unclaimed, Reserving
    <3>2. CASE ~RollbackGetsLock(c)
      BY <1>7, <1>8, <3>2 DEF ConnectRaises, InitializeRaises, InitializeAborted, PairRaises, MergeRaises
    <3> QED BY <3>1, <3>2
  <2>2. UNCHANGED vcVars
    BY <1>8 DEF ConnectRaises, InitializeRaises, InitializeAborted, PairRaises, MergeRaises, RollbackGetsLock
  <2> QED BY <1>3, <2>1, <2>2, HiddenStep
<1>9. CASE MergeDone(c)
  <2>1. NoneUnclaims
    BY <1>1, <1>9 DEF MergeDone, NoneUnclaims, Unclaimed, Reserving
  <2> QED BY <1>3, <1>9, <2>1, ReorderShows DEF MergeDone
<1>10. CASE SetupDone(c) \/ SetupFails(c)
  <2>1. NoneUnclaims
    <3>1. CASE SetupDone(c)
      BY <1>1, <3>1 DEF SetupDone, NoneUnclaims, Unclaimed, Reserving
    <3>2. CASE SetupFails(c)
      BY <1>7, <3>2 DEF SetupFails
    <3> QED BY <1>10, <3>1, <3>2
  <2>2. device' \in Attempted(device, home[c]) /\ UNCHANGED <<table, made, members, running>>
    BY <1>10 DEF SetupDone, SetupFails, SetupSucceeds, SetupRaises
  <2>3. PoolStep
    BY <2>2, AttemptSwitchesOn DEF PoolStep, Pool!PoolNext
  <2>4. ClaimedFirst'
    BY <2>1, <2>2, ClaimedFirstKept DEF PoolInv, NobodyJoins
  <2>5. DrivenOnce' /\ ClosedIsStopped'
    BY <1>2, <2>2 DEF PoolInv, DrivenOnce, ClosedIsStopped
  <2> QED BY <2>3, <2>4, <2>5 DEF PoolInv
<1> QED BY <1>4, <1>5, <1>6, <1>8, <1>9, <1>10 DEF AddStep, InitializeDone, PairDone

\* So is every step of the disconnect callback and of Controller.disconnect.
LEMMA DropShows ==
  ASSUME SlotsInv, TypeOK, PoolInv, NEW c \in Controller, DropStep(c) \/ DisconnectStep(c)
  PROVE  PoolInv' /\ PoolStep
<1>1. NoneCloses
  BY DEF DropStep, DropStart, DropGetsLock, DropReorders, DropDone, DisconnectStep, DisconnectDone,
         DisconnectGivesUp, closeVars, NoneCloses
<1>2. NoneUnclaims
  BY DEF DropStep, DropStart, DropGoto, DropGetsLock, DropReorders, DropDone, DisconnectStep, DisconnectDone,
         DisconnectGivesUp, DisconnectReturns, taskVars, TypeOK, NoneUnclaims, Unclaimed, Reserving
<1>3. CASE Evict(c)
  BY <1>1, <1>2, <1>3, EvictShows
<1>4. CASE UNCHANGED vcVars
  BY <1>1, <1>2, <1>4, HiddenStep
<1>5. CASE DropReorders(c)
  BY <1>1, <1>2, <1>4, <1>5, ReorderShows DEF DropReorders, vcVars
<1> QED BY <1>3, <1>4, <1>5 DEF DropStep, DropStart, DropGetsLock, DropDone, DisconnectStep, DisconnectDone,
                DisconnectGivesUp, EnterDrop, EvictLocked, slotVars

\* The host-side close stops the VirtualController at once and dismisses at its end
\* the controllers still listed.
LEMMA CloseShows ==
  ASSUME SlotsInv, TypeOK, SomebodyToReport, PoolInv, NEW v \in VcId, CloseStart(v) \/ CloseStep(v)
  PROVE  PoolInv' /\ PoolStep
<1>1. /\ running \in [VcId -> BOOLEAN] /\ device \in [VcId -> BOOLEAN]
      /\ members \in [VcId -> Seq(Controller)]
      /\ vcStage \in [VcId -> {"idle", "closing", "notify", "wait", "reinit", "leds"}]
  BY DEF TypeOK, SlotsTypeOK
<1>2. NoneUnclaims
  BY DEF CloseStart, CloseStep, CloseGathered, CloseNotify, CloseGetsLock, CloseReorders, CloseReleases, CloseEnd,
         taskVars, NoneUnclaims
<1>3. CASE CloseStart(v)
  <2>1. /\ InTable(v) /\ vcStage' = [vcStage EXCEPT ![v] = "closing"]
        /\ running' = [running EXCEPT ![v] = FALSE] /\ device' = [device EXCEPT ![v] = FALSE]
        /\ UNCHANGED <<table, made, members>>
    BY <1>3 DEF CloseStart
  <2>2. \A w \in VcId : InTable(w)' = InTable(w) /\ Team(w)' = Team(w)
    BY <2>1 DEF InTable, Team
  <2>3. /\ \A w \in VcId : running'[w] <=> running[w] /\ w # v
        /\ \A w \in VcId : device'[w] <=> device[w] /\ w # v
    BY <1>1, <2>1
  <2>4. Pool!Close(v)
    BY <2>1, <2>2, <2>3 DEF Pool!Close
  <2>5. v <= made
    BY <2>1 DEF InTable, SlotsInv
  <2>6. ClosedIsStopped'
    BY <1>1, <2>1, <2>3, <2>5 DEF PoolInv, ClosedIsStopped
  <2>7. ClaimedFirst' /\ DrivenOnce'
    BY <1>2, <2>1, ClaimedFirstKept DEF PoolInv, NobodyJoins, DrivenOnce
  <2> QED BY <2>4, <2>6, <2>7 DEF PoolInv, PoolStep, Pool!PoolNext
<1>4. CASE CloseEnd(v)
  <2>1. /\ vcStage[v] = "notify" /\ vcStage' = [vcStage EXCEPT ![v] = "idle"]
        /\ members' = [members EXCEPT ![v] = <<>>]
        /\ UNCHANGED <<table, made, running, device>>
    BY <1>4 DEF CloseEnd
  <2>2. /\ DOMAIN members'[v] = {} /\ \A w \in VcId : w # v => members'[w] = members[w]
    BY <1>1, <2>1
  <2>3. ClaimedFirst' /\ DrivenOnce'
    BY <1>2, <2>2, ClaimedFirstKept DEF PoolInv, NobodyJoins, DrivenOnce
  <2>4. ClosedIsStopped' /\ ~running[v]
    BY <1>1, <2>1 DEF PoolInv, ClosedIsStopped
  <2>5. \A w \in VcId : InTable(w)' = InTable(w)
    BY <2>1 DEF InTable
  <2>6. CASE ~InTable(v)
    <3>1. UNCHANGED Pool!poolVars
      BY <2>1, <2>2, <2>5, <2>6, PoolStutters
    <3> QED BY <2>3, <2>4, <3>1 DEF PoolInv, PoolStep
  <2>7. CASE InTable(v)
    <3>1. \A w \in VcId : Team(w)' = IF w = v THEN {} ELSE Team(w)
      BY <2>2, <2>5 DEF Team
    <3>2. Pool!Dismiss(v)
      BY <2>1, <2>4, <2>5, <2>7, <3>1 DEF Pool!Dismiss
    <3> QED BY <2>3, <2>4, <3>2 DEF PoolInv, PoolStep, Pool!PoolNext
  <2> QED BY <2>6, <2>7
<1>5. CASE CloseStep(v) /\ ~CloseEnd(v)
  <2>1. NoneCloses
    BY <1>1, <1>5 DEF CloseStep, CloseGathered, CloseNotify, CloseLocked, CloseGetsLock, CloseReorders,
                CloseReleases, Done, CloseGoto, NoneCloses
  <2>2. CASE Evict(Head(vcTodo[v])) /\ vcTodo[v] # <<>>
    <3>1. vcTodo[v] \in Seq(Controller)
      BY DEF TypeOK
    <3>2. Head(vcTodo[v]) \in Controller
      BY <2>2, <3>1, HeadTailProperties
    <3> QED BY <1>2, <2>1, <2>2, <3>2, EvictShows
  <2>3. CASE UNCHANGED vcVars
    BY <1>2, <2>1, <2>3, HiddenStep
  <2>4. CASE CloseReorders(v)
    BY <1>2, <2>1, <2>3, <2>4, ReorderShows DEF CloseReorders, vcVars
  <2>5. vcStage[v] = "wait" => vcTodo[v] # <<>>
    BY DEF SomebodyToReport
  <2> QED BY <1>5, <2>2, <2>3, <2>4, <2>5 DEF CloseStep, CloseGathered, CloseNotify, CloseLocked, CloseGetsLock,
                EvictLocked, CloseReleases, slotVars
<1> QED BY <1>3, <1>4, <1>5

\* Every step of the route is a step of the pool or does not show in it.
LEMMA StepShows ==
  ASSUME SlotsInv, TypeOK, SomebodyToReport, PoolInv, [Next]_vars
  PROVE  PoolInv' /\ PoolStep
<1>1. CASE (\E a \in Addr : LinkDrop(a)) \/ Stop \/ AtRest \/ UNCHANGED vars
  <2>1. UNCHANGED vcVars /\ UNCHANGED <<stage, vcStage>>
    BY <1>1 DEF LinkDrop, Stop, AtRest, vars, slotVars, taskVars, closeVars
  <2> QED BY <2>1, HiddenStep DEF NoneUnclaims, NoneCloses
<1> QED BY <1>1, AddShows, DropShows, CloseShows DEF Next

LEMMA InitShows == Init => PoolInv /\ Pool!PoolInit
<1> SUFFICES ASSUME Init PROVE PoolInv /\ Pool!PoolInit
  OBVIOUS
<1>1. /\ made = 0 /\ \A v \in VcId : ~InTable(v) /\ ~running[v] /\ ~device[v] /\ DOMAIN members[v] = {}
      /\ \A v \in VcId : vcStage[v] = "idle"
  BY DEF Init, SlotsInit, InTable, NoVc, VcId
<1>2. PoolInv
  BY <1>1 DEF PoolInv, ClaimedFirst, DrivenOnce, ClosedIsStopped
<1>3. Pool!PoolInit
  BY <1>1 DEF Pool!PoolInit, Team
<1> QED BY <1>2, <1>3

\* However the tasks of the route interleave, the slots do what SlotPool allows.
THEOREM Refinement == Spec => ImplementsPool
<1>1. Init => PoolInv /\ Pool!PoolInit
  BY InitShows
<1>2. Inv /\ PoolInv /\ [Next]_vars => PoolInv' /\ [Pool!PoolNext]_(Pool!poolVars)
  BY StepShows DEF Inv, PoolStep
<1> QED BY <1>1, <1>2, Invariance, PTL DEF Spec, ImplementsPool, Pool!Spec

-----------------------------------------------------------------------------
(* The life of an attempt *)

\* Where an attempt is: before its link, with a link that is not promoted, promoted and on
\* its way to a slot's device, and after its claim.
Fresh == {"unused", "scan_wait", "waiting_connection_lock"}
Waiting == {"initialize", "pair_wait", "pair", "claim_wait"}
Working == {"merge", "virtual_device_setup"}
Claimed == Working \cup {"ready"} \cup Ending

\* A slot that the host closed and that nothing frees any more: its disconnect() is over,
\* and no controller is left to report.
Dead(v) == InTable(v) /\ ~running[v] /\ vcStage[v] = "idle" /\ Team(v) = {}
DeadSlot == \E v \in VcId : Dead(v)

InTeam(c) == \E v \in VcId : c \in Team(v)
Todo(v) == {vcTodo[v][n] : n \in DOMAIN vcTodo[v]}

\* A VirtualController out of the table drives nobody.
Listed == \A v \in VcId : \A n \in DOMAIN members[v] : InTable(v)

\* The link of an attempt, the callback that reports its loss, and who may be inside
\* Controller.disconnect().
RadioOk(c) ==
  /\ stage[c] \in Fresh => ~link[c] /\ ~client[c]
  /\ stage[c] \in Fresh \cup {"winrt_connect"} => drop[c] = "none"
  /\ stage[c] = "winrt_connect" => (link[c] => client[c])
  /\ stage[c] \in Waiting => client[c]
  /\ c \in closing => stage[c] \in Claimed \cup {"init_abort"}
  /\ link[c] => drop[c] = "none"

\* An attempt with a claim drives its home or nothing, and it drives it as long as it is
\* linked and its home runs; it is disconnected only by a close of its home.
HomeOk(c) ==
  stage[c] \in Working =>
    /\ home[c] \in 1 .. made
    /\ \A w \in VcId : c \in Team(w) => w = home[c]
    /\ link[c] /\ running[home[c]] => c \in Team(home[c])
    /\ ~client[c] \/ c \in closing => ~running[home[c]]

\* A controller that is ready drives a slot as long as it has a link, or a loss that its
\* callback will not be able to report; and a close that is under way disconnects it.
ReadyOk(c) ==
  /\ stage[c] = "ready" /\ (link[c] \/ (drop[c] = "start" /\ (~client[c] \/ c \in closing))) => InTeam(c)
  /\ \A v \in VcId : c \in Team(v) =>
       /\ stage[c] = "ready" /\ ~client[c] => vcStage[v] # "idle"
       /\ c \in closing /\ stage[c] \notin Ending => vcStage[v] = "closing"
       /\ vcStage[v] = "closing" /\ stage[c] = "ready" /\ link[c] => c \in closing \/ ~client[c]

\* What a close still has to report: controllers it has disconnected, which nobody else
\* drives, and the one that waits for GLOBAL_LOCK can be reported.
TodoOk(v) ==
  /\ vcStage[v] \in {"idle", "closing"} => Todo(v) = {}
  /\ \A c \in Todo(v) :
       /\ stage[c] \in Claimed
       /\ stage[c] \in Working => home[c] = v
       /\ stage[c] = "ready" => c \notin closing /\ (link[c] => ~client[c])
       /\ \A w \in VcId : c \in Team(w) => w = v
  /\ vcStage[v] = "wait" /\ stage[Head(vcTodo[v])] = "ready" => client[Head(vcTodo[v])]

\* A promoted attempt whose address is still to be forgotten.
Holding(c) ==
  /\ stage[c] \in Promoted
  /\ \/ link[c] \/ drop[c] = "start"
     \/ stage[c] \in Working /\ ~client[c]
     \/ stage[c] = "ready" /\ ~client[c] /\ drop[c] = "none" /\ InTeam(c)
HoldingOf(a) == {c \in Controller : AddrOf[c] = a /\ Holding(c)}
Begun == {c \in Controller : stage[c] # "unused"}

\* An address counts as connected at most once per attempt that is to forget it.
Counted == IsFiniteSet(Begun) /\ \A a \in Addr : connectedMacs[a] <= Cardinality(HoldingOf(a))

LivesOk ==
  /\ Listed
  /\ \A c \in Controller : RadioOk(c) /\ HomeOk(c) /\ ReadyOk(c)
  /\ \A v \in VcId : TodoOk(v)

\* Nothing is said once a slot is dead: it stays so.
Life == DeadSlot \/ (LivesOk /\ Counted)

-----------------------------------------------------------------------------
\* Nobody but the members of S leaves a VirtualController, and they leave theirs; nobody
\* joins one, and none is created or starts to run.
Shrinks(S) ==
  /\ made' = made
  /\ \A w \in VcId :
       /\ Team(w)' = Team(w) \ S
       /\ InTable(w)' => InTable(w)
       /\ running'[w] => running[w]

\* A step that leaves the VirtualControllers and their places alone, or only reorders them.
LEMMA NobodyLeaves ==
  ASSUME UNCHANGED <<table, made, members, running>>
  PROVE  Shrinks({}) /\ NobodyJoins
<1>1. \A w \in VcId : Team(w)' = Team(w) /\ InTable(w)' = InTable(w)
  BY DEF Team, InTable
<1> QED BY <1>1 DEF Shrinks, NobodyJoins

\* Reordering the table moves nobody.
LEMMA ReorderLeaves ==
  ASSUME SlotsInv, Reorder(table, members), UNCHANGED <<made, members, running, device>>
  PROVE  Shrinks({}) /\ NobodyJoins
<1>1. \A w \in VcId : InTable(w)' <=> InTable(w)
  BY ReorderKeepsSlots
<1>2. \A w \in VcId : Team(w)' = Team(w)
  BY <1>1 DEF Team
<1> QED BY <1>1, <1>2 DEF Shrinks, NobodyJoins

\* An eviction takes c, and only c, out of the slot it is in.
LEMMA EvictTakes ==
  ASSUME SlotsInv, DrivenOnce, NEW c \in Controller, Evict(c)
  PROVE  Shrinks({c}) /\ NobodyJoins
<1>1. NobodyJoins /\ ((\E v \in VcId : Pool!Leave(v, c)) \/ UNCHANGED Pool!poolVars)
  BY EvictLeaves
<1>2. made' = made /\ \A w \in VcId : running'[w] => running[w]
  <2>1. running \in [VcId -> BOOLEAN]
    BY DEF SlotsInv, SlotsTypeOK
  <2> QED BY <2>1 DEF Evict, vcVars
<1>3. \A v, w \in VcId : c \in Team(v) /\ c \in Team(w) => v = w
  BY DEF DrivenOnce, Team
<1>4. ASSUME NEW v \in VcId, Pool!Leave(v, c) PROVE Shrinks({c})
  <2>1. c \in Team(v) /\ \A w \in VcId : Team(w)' = IF w = v THEN Team(v) \ {c} ELSE Team(w)
    BY <1>4 DEF Pool!Leave
  <2>2. \A w \in VcId : InTable(w)' => InTable(w)
    BY <1>4 DEF Pool!Leave, Pool!GivesUpSeat
  <2> QED BY <1>2, <1>3, <2>1, <2>2 DEF Shrinks
<1>5. CASE VcOf(c) = NoVc
  <2>1. UNCHANGED vcVars
    BY <1>5 DEF Evict
  <2>2. \A w \in VcId : c \notin Team(w)
    <3>1. \A w \in VcId : ~(InTable(w) /\ Drives(w, c))
      BY <1>5 DEF VcOf, NoVc, VcId
    <3> QED BY <3>1 DEF Team, Drives
  <2>3. Shrinks({})
    BY <2>1, NobodyLeaves DEF vcVars
  <2>4. \A w \in VcId : Team(w) \ {} = Team(w) \ {c}
    BY <2>2
  <2> QED BY <1>1, <2>3, <2>4 DEF Shrinks
<1> QED BY <1>1, <1>4, <1>5, EvictLeaves

\* A dead slot stays dead: nobody is left whose callback could free it, a lone Joy-Con is
\* what another joins, and a close needs something to close.
LEMMA DeadStays ==
  ASSUME Inv, PoolInv, DeadSlot, [Next]_vars
  PROVE  DeadSlot'
<1>1. SlotsInv /\ TypeOK /\ SomebodyToReport /\ PoolStep
  BY StepShows DEF Inv
<1>2. PICK v \in VcId : Dead(v)
  BY DEF DeadSlot
<1>3. InTable(v) /\ ~running[v] /\ ~device[v] /\ Team(v) = {} /\ v \in 1 .. made /\ vcStage[v] = "idle"
  <2>1. v <= made /\ v \in Nat /\ v >= 1
    BY <1>1, <1>2 DEF Dead, InTable, SlotsInv, VcId
  <2>2. made \in Nat
    BY <1>1 DEF TypeOK, SlotsTypeOK
  <2> QED BY <1>1, <1>2, <2>1, <2>2 DEF Dead, SlotsInv
<1>4. InTable(v)' /\ ~running'[v] /\ Team(v)' = {}
  <2>1. CASE UNCHANGED Pool!poolVars
    BY <1>3, <2>1 DEF Pool!poolVars
  <2>2. ASSUME NEW w \in VcId, Pool!Close(w) \/ Pool!Dismiss(w) \/ Pool!SwitchOn(w) \/ Pool!SwitchOff(w)
        PROVE  InTable(v)' /\ ~running'[v] /\ Team(v)' = {}
    BY <1>3, <2>2 DEF Pool!Close, Pool!Dismiss, Pool!SwitchOn, Pool!SwitchOff
  <2>3. ASSUME NEW w \in VcId, NEW c \in Controller, Pool!Open(w, c) \/ Pool!Join(w, c) \/ Pool!Leave(w, c)
        PROVE  InTable(v)' /\ ~running'[v] /\ Team(v)' = {}
    <3>1. CASE Pool!Open(w, c)
      BY <1>3, <3>1 DEF Pool!Open
    <3>2. CASE Pool!Join(w, c)
      BY <1>3, <3>2 DEF Pool!Join
    <3>3. CASE Pool!Leave(w, c)
      BY <1>3, <3>3 DEF Pool!Leave, Pool!GivesUpSeat
    <3> QED BY <2>3, <3>1, <3>2, <3>3
  <2>4. ASSUME NEW w \in VcId, NEW u \in VcId, Pool!Move(u, w)
        PROVE  InTable(v)' /\ ~running'[v] /\ Team(v)' = {}
    BY <1>3, <2>4 DEF Pool!Move, Pool!GivesUpSeat
  <2> QED BY <1>1, <2>1, <2>2, <2>3, <2>4 DEF PoolStep, Pool!PoolNext
<1>5. vcStage'[v] = "idle"
  <2>1. vcStage \in [VcId -> {"idle", "closing", "notify", "wait", "reinit", "leds"}]
    BY <1>1 DEF TypeOK
  <2>2. ~CloseStart(v)
    <3>1. {members[v][n] : n \in DOMAIN members[v]} = {}
      BY <1>3 DEF Team
    <3> QED BY <1>3, <3>1 DEF CloseStart
  <2>3. ASSUME NEW w \in VcId, CloseStart(w) \/ CloseStep(w)
        PROVE  w # v /\ vcStage'[v] = vcStage[v]
    <3>1. w # v
      BY <1>3, <2>2, <2>3 DEF CloseStep, CloseGathered, CloseNotify, CloseGetsLock, CloseReorders,
                         CloseReleases, CloseEnd
    <3> QED BY <2>1, <2>3, <3>1 DEF CloseStart, CloseStep, CloseGathered, CloseNotify, CloseGetsLock, CloseReorders,
                         CloseReleases, CloseEnd, CloseLocked, CloseGoto, Done
  <2>4. CASE (\E a \in Addr : LinkDrop(a)) \/ Stop \/ AtRest \/ UNCHANGED vars
    BY <1>3, <2>4 DEF LinkDrop, Stop, AtRest, vars, closeVars
  <2> QED BY <1>3, <2>3, <2>4, OthersLeaveCloses DEF Next
<1> QED BY <1>4, <1>5 DEF DeadSlot, Dead

\* What a step of the tasks does to the attempt of d, but for a claim: one stage forward or
\* to its end; only winrt's connect() makes a link; a client is lost by the task itself or by
\* a disconnect(); and a callback is scheduled for a link that was there.
Goes(d) ==
  /\ \/ stage'[d] = stage[d] /\ (stage[d] \in Working => home'[d] = home[d])
     \/ stage[d] \in Fresh /\ stage'[d] \in Fresh \cup {"winrt_connect"}
     \/ stage[d] \in {"winrt_connect"} \cup Waiting /\ stage'[d] \in Waiting /\ client[d]
     \/ stage[d] \in Waiting /\ stage'[d] = "init_abort"
     \/ stage[d] \notin Fresh /\ stage'[d] \in Ending
     \/ stage[d] = "merge" /\ stage'[d] = "virtual_device_setup" /\ home'[d] = home[d]
     \/ stage[d] = "virtual_device_setup" /\ stage'[d] = "ready" /\ running[home[d]]
  /\ link'[d] => link[d] \/ (stage[d] = "winrt_connect" /\ stage'[d] = "winrt_connect" /\ client'[d])
  /\ client'[d] => client[d] \/ (stage[d] = "winrt_connect" /\ stage'[d] = "winrt_connect")
  /\ client[d] /\ ~client'[d] => d \in closing \/ stage'[d] \in Ending
  /\ d \in closing' => d \in closing \/ stage'[d] \in {"init_abort", "fail_disconnect"}
  /\ d \in closing /\ d \notin closing' => ~client'[d]
  /\ link'[d] => drop'[d] = drop[d]
  /\ drop[d] = "none" /\ drop'[d] # "none" => ~link'[d] /\ link[d] /\ stage[d] # "winrt_connect"
  /\ drop'[d] = "start" => drop[d] = "start" \/ link[d]

\* Whatever it does, somebody is still to forget d's address.
Owed(d) ==
  /\ stage[d] # "winrt_connect" /\ (link[d] \/ drop[d] = "start") =>
       \/ link'[d] \/ drop'[d] = "start"
       \/ drop[d] = "start" /\ ~client[d] /\ drop'[d] = "none"
  /\ drop[d] = "none" /\ ~link[d] => drop'[d] = "none"
  /\ stage[d] \in Promoted => stage'[d] \in Promoted

\* An attempt the step does not touch.
LEMMA UntouchedGoes ==
  ASSUME NEW d, stage'[d] = stage[d], home'[d] = home[d], link'[d] = link[d], client'[d] = client[d],
         drop'[d] = drop[d], d \in closing' <=> d \in closing
  PROVE  Goes(d) /\ Owed(d)
BY DEF Goes, Owed, Promoted, Ending

\* The failure path of add_controller, from wherever it is taken.
LEMMA RollbackGoes ==
  ASSUME TypeOK, NEW c \in Controller, NEW reserved, stage[c] \notin Fresh, FinishRollback(c, reserved),
         \A d \in Controller : d # c => home'[d] = home[d], UNCHANGED <<link, drop>>
  PROVE  \A d \in Controller : Goes(d) /\ (d # c \/ stage[c] \notin Promoted => Owed(d))
<1>1. /\ stage \in [Controller -> Stages] /\ client \in [Controller -> BOOLEAN] /\ link' = link /\ drop' = drop
  BY DEF TypeOK
<1>2. /\ stage'[c] \in Ending /\ \A d \in Controller : d # c => stage'[d] = stage[d]
      /\ \A d \in Controller : d # c => client'[d] = client[d] /\ (d \in closing' <=> d \in closing)
      /\ client'[c] => client[c]
      /\ c \in closing' => c \in closing \/ stage'[c] = "fail_disconnect"
      /\ closing \subseteq closing'
  BY <1>1 DEF FinishRollback, Ending
<1>3. ASSUME NEW d \in Controller, d # c PROVE Goes(d) /\ Owed(d)
  BY <1>1, <1>2, <1>3, UntouchedGoes
<1>4. Goes(c) /\ (stage[c] \notin Promoted => Owed(c))
  BY <1>1, <1>2 DEF Goes, Owed
<1> QED BY <1>3, <1>4

\* So with the wait for GLOBAL_LOCK before it.
LEMMA FailGoes ==
  ASSUME TypeOK, NEW c \in Controller, NEW q, NEW macs, stage[c] \notin Fresh, Fail(c, q, macs),
         UNCHANGED <<link, drop>>
  PROVE  /\ \A d \in Controller : Goes(d) /\ (d # c \/ stage[c] \notin Promoted => Owed(d))
         /\ connectedMacs' = Forget(macs, AddrOf[c]) /\ stage'[c] \in Ending
<1>1. /\ stage \in [Controller -> Stages] /\ home \in [Controller -> VcId \cup {NoVc}]
  BY DEF TypeOK
<1>2. connectedMacs' = Forget(macs, AddrOf[c]) /\ \A d \in Controller : d # c => home'[d] = home[d]
  BY <1>1 DEF Fail
<1>3. CASE q = <<>>
  <2>1. PICK reserved : FinishRollback(c, reserved)
    BY <1>3 DEF Fail
  <2>2. stage'[c] \in Ending
    BY <1>1, <2>1 DEF FinishRollback, Ending
  <2> QED BY <1>2, <2>1, <2>2, RollbackGoes
<1>4. CASE q # <<>>
  <2>1. /\ stage' = [stage EXCEPT ![c] = "fail_wait"] /\ UNCHANGED <<client, closing, link, drop>>
    BY <1>4 DEF Fail
  <2>2. ASSUME NEW d \in Controller, d # c PROVE Goes(d) /\ Owed(d)
    BY <1>1, <1>2, <2>1, <2>2, UntouchedGoes
  <2>3. stage'[c] \in Ending
    BY <1>1, <2>1 DEF Ending
  <2>4. Goes(c) /\ (stage[c] \notin Promoted => Owed(c))
    BY <2>1, <2>3 DEF Goes, Owed
  <2> QED BY <1>2, <2>2, <2>3, <2>4
<1> QED BY <1>3, <1>4

\* A claim: c drives v from now on, which it did not, and no other attempt is touched.
Claims(c, v) ==
  /\ stage[c] \in Waiting
  /\ stage' = [stage EXCEPT ![c] = stage'[c]] /\ stage'[c] \in Working
  /\ home' = [home EXCEPT ![c] = v]
  /\ UNCHANGED <<link, client, closing, drop>>
  /\ v \in 1 .. made' /\ made <= made'
  /\ \A w \in VcId : Team(w)' = IF w = v THEN Team(w) \cup {c} ELSE Team(w)
  /\ \A w \in VcId : running'[w] => running[w] \/ w \notin 1 .. made
  /\ \A w \in VcId : InTable(w)' <=> InTable(w) \/ w = v
  /\ \A w \in VcId : w # v => DOMAIN members'[w] = DOMAIN members[w]

\* That is what JoinPair and TakeSlot do.
LEMMA ClaimJoins ==
  ASSUME SlotsInv, TypeOK, PoolInv, NEW c \in Controller, NEW q, NEW macs, NEW reserved,
         JoinPair(c, q, macs, reserved) \/ TakeSlot(c, q, macs, reserved),
         stage[c] \in Waiting, UNCHANGED <<link, drop>>
  PROVE  \E v \in VcId : Claims(c, v)
<1>1. \A v \in VcId : ~Drives(v, c)
  BY DEF PoolInv, ClaimedFirst, Drives, Unclaimed, Waiting, Reserving
<1>2. /\ members \in [VcId -> Seq(Controller)] /\ running \in [VcId -> BOOLEAN] /\ made \in Nat
      /\ stage \in [Controller -> Stages] /\ UNCHANGED <<link, drop>>
  BY SlotsAssumption DEF TypeOK, SlotsTypeOK
<1>3. CASE JoinPair(c, q, macs, reserved)
  <2>1. PICK v \in VcId :
          /\ InTable(v) /\ Len(members[v]) = 1 /\ {Kind[c], Kind[members[v][1]]} = {"left", "right"}
          /\ members' = [members EXCEPT ![v] = Append(@, c)]
          /\ stage' = [stage EXCEPT ![c] = "merge"] /\ home' = [home EXCEPT ![c] = v]
          /\ UNCHANGED <<table, made, running, device>>
    BY <1>3, JoinShape
  <2>2. Pool!Join(v, c)
    BY <1>1, <2>1, AppendingJoins DEF PoolInv
  <2>3. \A w \in VcId : Team(w)' = IF w = v THEN Team(w) \cup {c} ELSE Team(w)
    BY <2>2 DEF Pool!Join
  <2>4. \A w \in VcId : InTable(w)' <=> InTable(w) \/ w = v
    BY <2>1 DEF InTable
  <2>5. v \in 1 .. made' /\ made <= made'
    BY <1>2, <2>1 DEF InTable, SlotsInv, VcId
  <2>6. UNCHANGED <<client, closing>>
    BY <1>3 DEF JoinPair
  <2>7. stage'[c] \in Working /\ stage' = [stage EXCEPT ![c] = stage'[c]]
    BY <1>2, <2>1 DEF Working
  <2> QED BY <1>2, <2>1, <2>3, <2>4, <2>5, <2>6, <2>7 DEF Claims
<1>4. CASE TakeSlot(c, q, macs, reserved)
  <2>1. PICK v : v = NewVc
    OBVIOUS
  <2>2. /\ Create(c) /\ NewVc \in VcId /\ Pool!Open(NewVc, c)
        /\ \A w \in VcId : InTable(w)' <=> InTable(w) \/ w = NewVc
    BY <1>1, <1>4, TakingSlotOpens, TakingSlotKeepsSlots DEF PoolInv, TakeSlot
  <2>3. /\ v \in VcId /\ made' = v /\ v = made + 1 /\ members' = [members EXCEPT ![v] = <<c>>]
        /\ running' = [running EXCEPT ![v] = TRUE]
    BY <2>1, <2>2 DEF Create, NewVc
  <2>4. ~InTable(v)
    BY <1>2, <2>3 DEF InTable, SlotsInv
  <2>5. \A w \in VcId : Team(w)' = IF w = v THEN Team(w) \cup {c} ELSE Team(w)
    <3>1. \A w \in VcId : Team(w)' = IF w = v THEN {c} ELSE Team(w)
      BY <2>1, <2>2 DEF Pool!Open
    <3>2. Team(v) = {}
      BY <2>4 DEF Team
    <3> QED BY <3>1, <3>2
  <2>6. v \in 1 .. made' /\ made <= made' /\ v \notin 1 .. made
    BY <1>2, <2>3
  <2>7. \A w \in VcId : running'[w] => running[w] \/ w \notin 1 .. made
    BY <1>2, <2>3, <2>6
  <2>8. /\ stage' = [stage EXCEPT ![c] = "virtual_device_setup"] /\ home' = [home EXCEPT ![c] = v]
        /\ UNCHANGED <<client, closing>>
    BY <1>4, <2>1 DEF TakeSlot
  <2>9. stage'[c] \in Working /\ stage' = [stage EXCEPT ![c] = stage'[c]]
    BY <1>2, <2>8 DEF Working
  <2> QED BY <1>2, <2>1, <2>2, <2>3, <2>5, <2>6, <2>7, <2>8, <2>9 DEF Claims
<1> QED BY <1>3, <1>4

\* One more attempt counts for the address of c.
CountsMore(c) == connectedMacs' = [connectedMacs EXCEPT ![AddrOf[c]] = @ + 1]
Forgets(c) == connectedMacs' = Forget(connectedMacs, AddrOf[c])

\* add_controller after initialize() or pair() claims a slot, waits for the lock, or finds
\* the table full and takes its promotion back.
LEMMA PromoteGoes ==
  ASSUME SlotsInv, TypeOK, PoolInv, NEW c \in Controller, stage[c] \in {"initialize", "pair"},
         client[c], Promote(c), UNCHANGED <<link, drop>>
  PROVE  \/ CountsMore(c) /\ \E v \in VcId : Claims(c, v)
         \/ /\ UNCHANGED vcVars /\ \A d \in Controller : Goes(d) /\ Owed(d)
            /\ connectedMacs' = connectedMacs \/ (CountsMore(c) /\ stage'[c] = "claim_wait")
<1>1. /\ stage \in [Controller -> Stages] /\ stage[c] \in Waiting /\ stage[c] \notin Fresh /\ stage[c] \notin Promoted
      /\ connectedMacs \in [Addr -> Nat] /\ AddrOf[c] \in Addr
  BY RouteAssumption DEF TypeOK, Waiting, Fresh, Promoted
<1>2. PICK macs : macs = [connectedMacs EXCEPT ![AddrOf[c]] = @ + 1]
  OBVIOUS
<1>3. PICK reserved : reserved = connectingMacs \ {AddrOf[c]}
  OBVIOUS
<1>4. CASE LockFree
  <2>1. Claim(c, <<Add(c)>>, macs, reserved)
    BY <1>2, <1>3, <1>4 DEF Promote
  <2>2. CASE JoinPair(c, <<Add(c)>>, macs, reserved) \/ TakeSlot(c, <<Add(c)>>, macs, reserved)
    <3>1. \E v \in VcId : Claims(c, v)
      BY <1>1, <2>2, ClaimJoins
    <3>2. connectedMacs' = macs
      BY <2>2 DEF JoinPair, TakeSlot
    <3> QED BY <1>2, <3>1, <3>2 DEF CountsMore
  <2>3. CASE FindTableFull(c, <<Add(c)>>, macs)
    <3>1. UNCHANGED vcVars /\ Fail(c, Tail(<<Add(c)>>), macs)
      BY <2>3 DEF FindTableFull
    <3>2. (\A d \in Controller : Goes(d) /\ Owed(d)) /\ connectedMacs' = Forget(macs, AddrOf[c])
      BY <1>1, <3>1, FailGoes
    <3>3. Forget(macs, AddrOf[c]) = connectedMacs
      <4>1. macs \in [Addr -> Nat] /\ macs[AddrOf[c]] = connectedMacs[AddrOf[c]] + 1
        BY <1>1, <1>2
      <4>2. connectedMacs[AddrOf[c]] + 1 > 0 /\ (connectedMacs[AddrOf[c]] + 1) - 1 = connectedMacs[AddrOf[c]]
        BY <1>1
      <4>3. Forget(macs, AddrOf[c]) = [macs EXCEPT ![AddrOf[c]] = connectedMacs[AddrOf[c]]]
        BY <4>1, <4>2 DEF Forget
      <4> QED BY <1>1, <1>2, <4>3
    <3> QED BY <3>1, <3>2, <3>3
  <2> QED BY <2>1, <2>2, <2>3 DEF Claim
<1>5. CASE ~LockFree
  <2>1. /\ connectedMacs' = macs /\ stage' = [stage EXCEPT ![c] = "claim_wait"]
        /\ UNCHANGED <<vcVars, home, client, closing, link, drop>>
    BY <1>2, <1>5 DEF Promote
  <2>2. stage'[c] = "claim_wait" /\ \A d \in Controller : d # c => stage'[d] = stage[d]
    BY <1>1, <2>1
  <2>3. \A d \in Controller : d # c => Goes(d) /\ Owed(d)
    BY <2>1, <2>2, UntouchedGoes
  <2>4. Goes(c) /\ Owed(c)
    BY <1>1, <2>1, <2>2 DEF Goes, Owed, Waiting, Ending
  <2> QED BY <1>2, <2>1, <2>2, <2>3, <2>4 DEF CountsMore
<1> QED BY <1>4, <1>5

\* The other steps of the scan callback and of add_controller.
LEMMA AttemptGoes ==
  ASSUME SlotsInv, TypeOK, NEW c \in Controller, RadioOk(c), HomeOk(c),
         \/ Advertise(c) \/ ScanGetsLock(c) \/ ConnectStart(c) \/ LinkUp(c) \/ ConnectDone(c) \/ PairStart(c)
         \/ (InitializeDone(c) /\ c \in PairingMode) \/ (InitializeRaises(c) /\ link[c])
         \/ RollbackGetsLock(c) \/ MergeDone(c) \/ SetupDone(c)
  PROVE  /\ Shrinks({}) /\ NobodyJoins /\ connectedMacs' = connectedMacs
         /\ \A d \in Controller : Goes(d) /\ Owed(d)
<1>1. /\ stage \in [Controller -> Stages] /\ link \in [Controller -> BOOLEAN] /\ client \in [Controller -> BOOLEAN]
      /\ home \in [Controller -> VcId \cup {NoVc}]
  BY DEF TypeOK
<1>2. CASE MergeDone(c)
  <2>1. /\ Shrinks({}) /\ NobodyJoins /\ stage[c] = "merge"
        /\ stage' = [stage EXCEPT ![c] = "virtual_device_setup"]
        /\ UNCHANGED <<connectedMacs, home, link, client, closing, drop>>
    BY <1>2, ReorderLeaves DEF MergeDone, linkVars
  <2>2. stage'[c] = "virtual_device_setup" /\ \A d \in Controller : d # c => stage'[d] = stage[d]
    BY <1>1, <2>1
  <2>3. \A d \in Controller : d # c => Goes(d) /\ Owed(d)
    BY <2>1, <2>2, UntouchedGoes
  <2>4. Goes(c) /\ Owed(c)
    BY <2>1, <2>2 DEF Goes, Owed, Promoted, Ending
  <2> QED BY <2>1, <2>3, <2>4
<1>3. CASE SetupDone(c)
  <2>1. /\ stage[c] = "virtual_device_setup" /\ stage' = [stage EXCEPT ![c] = "ready"]
        /\ home' = [home EXCEPT ![c] = NoVc]
        /\ UNCHANGED <<table, made, members, running, connectedMacs, link, client, closing, drop>>
    BY <1>3 DEF SetupDone, linkVars
  <2>2. stage'[c] = "ready" /\ \A d \in Controller : d # c => stage'[d] = stage[d] /\ home'[d] = home[d]
    BY <1>1, <2>1
  <2>3. running[home[c]]
    <3>1. device' \in Attempted(device, home[c]) /\ device'[home[c]]
      BY <1>3 DEF SetupDone, SetupSucceeds
    <3>2. ASSUME ~running[home[c]] PROVE FALSE
      <4>1. device' = device
        BY <3>1, <3>2, Zenon DEF Attempted
      <4>2. home[c] \in VcId
        BY <2>1, SlotsAssumption DEF HomeOk, Working, VcId, TypeOK, SlotsTypeOK
      <4> QED BY <3>1, <3>2, <4>1, <4>2 DEF SlotsInv
    <3> QED BY <3>2
  <2>4. \A d \in Controller : d # c => Goes(d) /\ Owed(d)
    BY <2>1, <2>2, UntouchedGoes
  <2>5. Goes(c) /\ Owed(c)
    BY <2>1, <2>2, <2>3 DEF Goes, Owed, Promoted, Ending
  <2> QED BY <2>1, <2>4, <2>5, NobodyLeaves
<1>4. CASE RollbackGetsLock(c)
  <2>1. /\ stage[c] = "fail_wait" /\ FinishRollback(c, connectingMacs)
        /\ UNCHANGED <<vcVars, connectedMacs, home, link, drop>>
    BY <1>4 DEF RollbackGetsLock
  <2>2. \A d \in Controller : Goes(d) /\ Owed(d)
    BY <2>1, RollbackGoes DEF Fresh, Promoted
  <2> QED BY <2>1, <2>2, NobodyLeaves DEF vcVars
<1>5. CASE LinkUp(c)
  <2>1. /\ stage[c] = "winrt_connect" /\ link' = [link EXCEPT ![c] = TRUE] /\ client' = [client EXCEPT ![c] = TRUE]
        /\ UNCHANGED <<vcVars, connectedMacs, stage, home, closing, drop>>
    BY <1>5 DEF LinkUp, slotVars, taskVars
  <2>2. \A d \in Controller : d # c => Goes(d) /\ Owed(d)
    <3>1. \A d \in Controller : d # c => link'[d] = link[d] /\ client'[d] = client[d]
      BY <1>1, <2>1
    <3> QED BY <2>1, <3>1, UntouchedGoes
  <2>3. link'[c] /\ client'[c]
    BY <1>1, <2>1
  <2>4. Goes(c) /\ Owed(c)
    BY <2>1, <2>3 DEF Goes, Owed, Promoted, Working
  <2> QED BY <2>1, <2>2, <2>4, NobodyLeaves DEF vcVars
<1>6. CASE \/ Advertise(c) \/ ScanGetsLock(c) \/ ConnectStart(c) \/ ConnectDone(c) \/ PairStart(c)
           \/ (InitializeDone(c) /\ c \in PairingMode) \/ (InitializeRaises(c) /\ link[c])
  <2>1. PICK s \in Stages :
          /\ stage' = [stage EXCEPT ![c] = s]
          /\ \/ stage[c] \in Fresh /\ s \in Fresh \cup {"winrt_connect"}
             \/ stage[c] \in {"winrt_connect"} \cup Waiting /\ s \in Waiting /\ client[c]
             \/ stage[c] \in Waiting /\ s = "init_abort"
          /\ stage[c] \notin Promoted /\ s \notin Ending
          /\ closing' = closing \/ (closing' = closing \cup {c} /\ s = "init_abort")
    <3>1. CASE Advertise(c)
      BY <3>1 DEF Advertise, Fresh, linkVars, Stages, Reserving, Promoted, Ending
    <3>2. CASE ScanGetsLock(c) \/ ConnectStart(c)
      BY <3>2 DEF ScanGetsLock, ConnectStart, Fresh, linkVars, Stages, Reserving, Promoted, Ending
    <3>3. CASE ConnectDone(c) \/ PairStart(c)
      BY <3>3 DEF ConnectDone, PairStart, RadioOk, Waiting, linkVars, Stages, Reserving, Promoted, Ending
    <3>4. CASE InitializeDone(c) /\ c \in PairingMode
      BY <3>4 DEF InitializeDone, RadioOk, Waiting, Stages, Reserving, Promoted, Ending
    <3>5. CASE InitializeRaises(c) /\ link[c]
      BY <3>5 DEF InitializeRaises, Waiting, Stages, Reserving, Promoted, Ending
    <3> QED BY <1>6, <3>1, <3>2, <3>3, <3>4, <3>5
  <2>2. UNCHANGED <<vcVars, connectedMacs, home, link, client, drop>>
    BY <1>6 DEF Advertise, ScanGetsLock, ConnectStart, ConnectDone, PairStart, InitializeDone, InitializeRaises,
                slotVars, linkVars
  <2>3. stage'[c] = s /\ \A d \in Controller : d # c => stage'[d] = stage[d]
    BY <1>1, <2>1
  <2>4. \A d \in Controller : d # c => Goes(d) /\ Owed(d)
    BY <2>1, <2>2, <2>3, UntouchedGoes
  <2>5. Goes(c) /\ Owed(c)
    <3>1. /\ link'[c] = link[c] /\ client'[c] = client[c] /\ drop'[c] = drop[c] /\ home'[c] = home[c]
          /\ c \in closing' => c \in closing \/ stage'[c] = "init_abort"
          /\ closing \subseteq closing'
      BY <2>1, <2>2, <2>3
    <3>2. Goes(c)
      BY <2>1, <2>3, <3>1 DEF Goes
    <3> QED BY <2>1, <2>3, <3>1, <3>2 DEF Owed
  <2> QED BY <2>2, <2>4, <2>5, NobodyLeaves DEF vcVars
<1> QED BY <1>2, <1>3, <1>4, <1>5, <1>6

\* A step of the tasks that is no claim, by which the controllers in S leave their slot: they
\* have no link any more.
Moves(S) ==
  /\ Shrinks(S) /\ NobodyJoins
  /\ \A d \in Controller : Goes(d) /\ (d \in S => ~link'[d] /\ drop'[d] # "start")

\* What it does to the connected addresses: nothing, while everybody's is still owed; it
\* forgets that of c; or c is promoted and waits for the lock.
Settles(S) ==
  \/ connectedMacs' = connectedMacs /\ \A d \in Controller : Owed(d) /\ (d \in S => drop[d] = "wait")
  \/ \E c \in Controller : Forgets(c) /\ S \subseteq {c} /\ \A d \in Controller : d # c => Owed(d)
  \/ /\ S = {} /\ \A d \in Controller : Owed(d)
     /\ \E c \in Controller : CountsMore(c) /\ stage[c] \notin Promoted /\ stage'[c] = "claim_wait" /\ link'[c]

\* The claim of c counts its address, unless that was done when it was promoted.
Pays(c) == connectedMacs' = connectedMacs \/ (CountsMore(c) /\ stage[c] \notin Promoted /\ link[c])

\* Every step of the scan callback and of add_controller is one or the other.
LEMMA AddGoes ==
  ASSUME SlotsInv, TypeOK, PoolInv, NEW c \in Controller, RadioOk(c), HomeOk(c), Advertise(c) \/ AddStep(c)
  PROVE  (Moves({}) /\ Settles({})) \/ (Pays(c) /\ \E v \in VcId : Claims(c, v))
<1>1. CASE \/ Advertise(c) \/ ScanGetsLock(c) \/ ConnectStart(c) \/ LinkUp(c) \/ ConnectDone(c) \/ PairStart(c)
           \/ (InitializeDone(c) /\ c \in PairingMode) \/ (InitializeRaises(c) /\ link[c])
           \/ RollbackGetsLock(c) \/ MergeDone(c) \/ SetupDone(c)
  BY <1>1, AttemptGoes DEF Moves, Settles
<1>2. CASE (InitializeDone(c) /\ c \notin PairingMode) \/ PairDone(c)
  <2>1. /\ stage[c] \in {"initialize", "pair"} /\ link[c] /\ client[c] /\ Promote(c) /\ UNCHANGED <<link, drop>>
    BY <1>2 DEF InitializeDone, PairDone, RadioOk, Waiting
  <2>2. stage[c] \notin Promoted /\ link'[c]
    BY <2>1 DEF Promoted
  <2>3. CASE CountsMore(c) /\ \E v \in VcId : Claims(c, v)
    BY <2>1, <2>2, <2>3 DEF Pays
  <2>4. CASE /\ UNCHANGED vcVars /\ \A d \in Controller : Goes(d) /\ Owed(d)
             /\ connectedMacs' = connectedMacs \/ (CountsMore(c) /\ stage'[c] = "claim_wait")
    <3>1. Moves({})
      BY <2>4, NobodyLeaves DEF Moves, vcVars
    <3> QED BY <2>2, <2>4, <3>1 DEF Settles
  <2> QED BY <2>1, <2>3, <2>4, PromoteGoes
<1>3. CASE AddGetsLock(c)
  <2>1. PICK q, macs, reserved :
          /\ Claim(c, q, macs, reserved) /\ macs = connectedMacs /\ stage[c] = "claim_wait" /\ UNCHANGED <<link, drop>>
    BY <1>3 DEF AddGetsLock
  <2>2. CASE JoinPair(c, q, macs, reserved) \/ TakeSlot(c, q, macs, reserved)
    <3>1. connectedMacs' = connectedMacs
      BY <2>1, <2>2 DEF JoinPair, TakeSlot
    <3> QED BY <2>1, <2>2, <3>1, ClaimJoins DEF Waiting, Pays
  <2>3. CASE FindTableFull(c, q, macs)
    <3>1. UNCHANGED vcVars /\ Fail(c, Tail(q), macs) /\ stage[c] \notin Fresh
      BY <2>1, <2>3 DEF FindTableFull, Fresh
    <3>2. (\A d \in Controller : Goes(d) /\ (d # c => Owed(d))) /\ Forgets(c)
      BY <2>1, <3>1, FailGoes DEF Forgets
    <3> QED BY <3>1, <3>2, NobodyLeaves DEF Moves, Settles, vcVars
  <2> QED BY <2>1, <2>2, <2>3 DEF Claim
<1>4. ASSUME NEW q, Fail(c, q, connectedMacs), stage[c] \notin Fresh,
             UNCHANGED <<table, made, members, running, link, drop>>
      PROVE  Moves({}) /\ Settles({})
  <2>1. (\A d \in Controller : Goes(d) /\ (d # c => Owed(d))) /\ Forgets(c)
    BY <1>4, FailGoes DEF Forgets
  <2> QED BY <1>4, <2>1, NobodyLeaves DEF Moves, Settles
<1>5. CASE ConnectRaises(c) \/ (InitializeRaises(c) /\ ~link[c]) \/ InitializeAborted(c) \/ PairRaises(c)
           \/ MergeRaises(c) \/ SetupFails(c)
  <2>1. stage[c] \notin Fresh /\ UNCHANGED <<table, made, members, running, link, drop>>
    BY <1>5 DEF ConnectRaises, InitializeRaises, InitializeAborted, PairRaises, MergeRaises, SetupFails, Fresh, vcVars
  <2>2. \E q : Fail(c, q, connectedMacs)
    BY <1>5 DEF ConnectRaises, InitializeRaises, InitializeAborted, PairRaises, MergeRaises, SetupFails
  <2> QED BY <1>4, <2>1, <2>2
<1> QED BY <1>1, <1>2, <1>3, <1>5 DEF AddStep

\* The callback that reports a lost link.
LEMMA DropGoes ==
  ASSUME SlotsInv, TypeOK, DrivenOnce, NEW c \in Controller, RadioOk(c), DropStep(c)
  PROVE  \E S \in SUBSET Controller : Moves(S) /\ Settles(S)
<1>1. drop \in [Controller -> {"none", "start", "wait", "reinit", "leds"}]
  BY DEF TypeOK
<1>2. /\ UNCHANGED <<stage, home, link, client, closing>> /\ drop[c] # "none" /\ ~link[c]
      /\ \A d \in Controller : d # c => drop'[d] = drop[d]
  BY <1>1 DEF DropStep, DropStart, EnterDrop, DropGoto, DropGetsLock, DropReorders, DropDone, taskVars, RadioOk
<1>3. \A d \in Controller : d # c => Goes(d) /\ Owed(d)
  BY <1>2, UntouchedGoes
<1>4. drop'[c] # "start" => Goes(c)
  BY <1>2 DEF Goes
<1>5. CASE DropStart(c)
  <2>1. CASE client[c]
    <3>1. /\ Forgets(c) /\ drop'[c] # "start"
          /\ Evict(c) \/ UNCHANGED vcVars
      BY <1>1, <1>5, <2>1 DEF DropStart, EnterDrop, EvictLocked, DropGoto, Forgets
    <3>2. PICK S \in SUBSET {c} : Shrinks(S) /\ NobodyJoins
      BY <3>1, EvictTakes, NobodyLeaves DEF vcVars
    <3>3. Moves(S) /\ Settles(S)
      BY <1>2, <1>3, <1>4, <3>1, <3>2 DEF Moves, Settles
    <3> QED BY <3>3
  <2>2. CASE ~client[c]
    <3>1. drop[c] = "start" /\ drop'[c] = "none" /\ UNCHANGED <<vcVars, connectedMacs>>
      BY <1>1, <1>5, <2>2 DEF DropStart, DropGoto, slotVars
    <3>2. Goes(c) /\ Owed(c)
      BY <1>2, <1>4, <2>2, <3>1 DEF Owed, Promoted, Ending
    <3>3. Moves({}) /\ Settles({})
      BY <1>3, <3>1, <3>2, NobodyLeaves DEF Moves, Settles, vcVars
    <3> QED BY <3>3
  <2> QED BY <2>1, <2>2
<1>6. CASE ~DropStart(c)
  <2>1. drop[c] # "start" /\ drop'[c] # "start" /\ connectedMacs' = connectedMacs
    BY <1>1, <1>6 DEF DropStep, DropGetsLock, DropReorders, DropDone, DropGoto, taskVars
  <2>2. Goes(c) /\ Owed(c)
    BY <1>2, <1>4, <2>1 DEF Owed, Promoted, Ending
  <2>3. CASE DropGetsLock(c)
    <3>1. Evict(c) /\ drop[c] = "wait"
      BY <2>3 DEF DropGetsLock, EvictLocked
    <3>2. Moves({c}) /\ Settles({c})
      BY <1>2, <1>3, <2>1, <2>2, <3>1, EvictTakes DEF Moves, Settles
    <3> QED BY <3>2
  <2>4. CASE DropReorders(c) \/ DropDone(c)
    <3>1. Shrinks({}) /\ NobodyJoins
      BY <2>4, ReorderLeaves, NobodyLeaves DEF DropReorders, DropDone, vcVars
    <3>2. Moves({}) /\ Settles({})
      BY <1>3, <2>1, <2>2, <3>1 DEF Moves, Settles
    <3> QED BY <3>2
  <2> QED BY <1>6, <2>3, <2>4 DEF DropStep
<1> QED BY <1>5, <1>6

\* Controller.disconnect() comes back.
LEMMA DisconnectGoes ==
  ASSUME SlotsInv, TypeOK, DrivenOnce, NEW c \in Controller, RadioOk(c), DisconnectStep(c)
  PROVE  \E S \in SUBSET Controller : Moves(S) /\ Settles(S)
<1>1. /\ drop \in [Controller -> {"none", "start", "wait", "reinit", "leds"}] /\ stage \in [Controller -> Stages]
      /\ client \in [Controller -> BOOLEAN] /\ link \in [Controller -> BOOLEAN] /\ home' = home
  BY DEF TypeOK, DisconnectStep, DisconnectDone, DisconnectGivesUp
<1>2. c \in closing /\ DisconnectReturns(c) /\ stage[c] \notin Fresh \cup {"winrt_connect"}
  BY DEF DisconnectStep, DisconnectDone, DisconnectGivesUp, RadioOk, Claimed, Working, Ending, Fresh
<1>3. /\ c \notin closing' /\ ~client'[c]
      /\ stage'[c] = stage[c] \/ (stage[c] = "fail_disconnect" /\ stage'[c] \in Ending)
      /\ \A d \in Controller : d # c => stage'[d] = stage[d] /\ client'[d] = client[d] /\ (d \in closing' <=> d \in closing)
  BY <1>1, <1>2 DEF DisconnectReturns, Ending
<1>4. CASE DisconnectDone(c)
  <2>1. /\ link[c] /\ ~link'[c] /\ Forgets(c) /\ drop'[c] \notin {"none", "start"}
        /\ Evict(c) \/ UNCHANGED vcVars
        /\ \A d \in Controller : d # c => drop'[d] = drop[d] /\ link'[d] = link[d]
    BY <1>1, <1>4 DEF DisconnectDone, EnterDrop, EvictLocked, DropGoto, Forgets
  <2>2. PICK S \in SUBSET {c} : Shrinks(S) /\ NobodyJoins
    BY <2>1, EvictTakes, NobodyLeaves DEF vcVars
  <2>3. \A d \in Controller : d # c => Goes(d) /\ Owed(d)
    BY <1>1, <1>3, <2>1, UntouchedGoes
  <2>4. Goes(c)
    BY <1>1, <1>2, <1>3, <2>1 DEF Goes
  <2>5. Moves(S) /\ Settles(S)
    BY <2>1, <2>2, <2>3, <2>4 DEF Moves, Settles
  <2> QED BY <2>5
<1>5. CASE DisconnectGivesUp(c)
  <2>1. UNCHANGED <<vcVars, connectedMacs, link, drop>>
    BY <1>5 DEF DisconnectGivesUp, slotVars
  <2>2. \A d \in Controller : d # c => Goes(d) /\ Owed(d)
    BY <1>1, <1>3, <2>1, UntouchedGoes
  <2>3. Goes(c)
    BY <1>1, <1>2, <1>3, <2>1 DEF Goes
  <2>4. Owed(c)
    BY <1>1, <1>3, <2>1 DEF Owed, Promoted, Ending
  <2>5. Moves({}) /\ Settles({})
    BY <2>1, <2>2, <2>3, <2>4, NobodyLeaves DEF Moves, Settles, vcVars
  <2> QED BY <2>5
<1> QED BY <1>4, <1>5 DEF DisconnectStep

\* The radio drops a link, and the rest.
LEMMA RadioGoes ==
  ASSUME TypeOK, (\E a \in Addr : LinkDrop(a)) \/ Stop \/ AtRest \/ UNCHANGED vars
  PROVE  Moves({}) /\ Settles({})
<1>1. UNCHANGED <<vcVars, connectedMacs, stage, home, client, closing>>
  BY DEF LinkDrop, Stop, AtRest, vars, slotVars, taskVars, linkVars
<1>2. ASSUME NEW d \in Controller, NEW a \in Addr, LinkDrop(a)
      PROVE  Goes(d) /\ Owed(d)
  <2>1. /\ link'[d] = (link[d] /\ ~(AddrOf[d] = a /\ link[d]))
        /\ drop'[d] = IF AddrOf[d] = a /\ link[d] /\ stage[d] # "winrt_connect" THEN "start" ELSE drop[d]
    BY <1>2 DEF LinkDrop, Armed
  <2>2. CASE AddrOf[d] = a /\ link[d]
    BY <1>1, <2>1, <2>2 DEF Goes, Owed, Promoted, Ending
  <2>3. CASE ~(AddrOf[d] = a /\ link[d])
    <3>1. link[d] \in BOOLEAN
      BY DEF TypeOK
    <3>2. link'[d] = link[d] /\ drop'[d] = drop[d]
      BY <2>1, <2>3, <3>1
    <3> QED BY <1>1, <3>2, UntouchedGoes
  <2> QED BY <2>2, <2>3
<1>3. ASSUME NEW d \in Controller, Stop \/ AtRest \/ UNCHANGED vars
      PROVE  Goes(d) /\ Owed(d)
  <2>1. UNCHANGED <<link, drop>>
    BY <1>3 DEF Stop, AtRest, vars, linkVars
  <2> QED BY <1>1, <2>1, UntouchedGoes
<1> QED BY <1>1, <1>2, <1>3, NobodyLeaves DEF Moves, Settles, vcVars

-----------------------------------------------------------------------------
(* An attempt that goes on *)

\* RadioOk, HomeOk and ReadyOk of an attempt that goes on.
LEMMA MovesKeepRadio ==
  ASSUME NEW d \in Controller, RadioOk(d), Goes(d)
  PROVE  RadioOk(d)'
<1>1. CASE stage'[d] = stage[d]
  BY <1>1 DEF RadioOk, Goes, Fresh, Waiting, Working, Claimed, Ending
<1>2. CASE stage'[d] # stage[d]
  <2>1. /\ link'[d] => link[d] /\ drop'[d] = drop[d]
        /\ client'[d] => client[d]
    BY <1>2 DEF Goes
  <2>2. CASE stage[d] \in Fresh /\ stage'[d] \in Fresh \cup {"winrt_connect"}
    BY <2>1, <2>2 DEF RadioOk, Goes, Fresh, Waiting, Working, Claimed, Ending
  <2>3. CASE stage[d] \in {"winrt_connect"} \cup Waiting /\ stage'[d] \in Waiting /\ client[d]
    BY <2>1, <2>3 DEF RadioOk, Goes, Fresh, Waiting, Working, Claimed, Ending
  <2>4. CASE stage'[d] \in Claimed \cup {"init_abort"}
    BY <2>1, <2>4 DEF RadioOk, Goes, Fresh, Waiting, Working, Claimed, Ending
  <2> QED BY <1>2, <2>2, <2>3, <2>4 DEF Goes, Claimed, Working
<1> QED BY <1>1, <1>2

\* Its home stays its home, and nobody leaves it with a link.
LEMMA MovesKeepHome ==
  ASSUME TypeOK, NEW d \in Controller, RadioOk(d), HomeOk(d), Goes(d), NEW S, Shrinks(S), d \in S => ~link'[d]
  PROVE  HomeOk(d)'
<1> SUFFICES ASSUME stage'[d] \in Working PROVE HomeOk(d)'
  BY DEF HomeOk
<1>1. stage[d] \in Working /\ home'[d] = home[d] /\ made' = made
  BY DEF Goes, Shrinks, Working, Fresh, Waiting, Ending
<1>2. PICK h \in VcId : h = home[d] /\ h = home'[d] /\ h \in 1 .. made
  BY <1>1, SlotsAssumption DEF HomeOk, TypeOK, SlotsTypeOK, VcId
<1>3. \A w \in VcId : d \in Team(w)' => w = h
  BY <1>1, <1>2 DEF Shrinks, HomeOk
<1>4. link'[d] /\ running'[h] => d \in Team(h)'
  <2>1. link'[d] /\ running'[h] => d \in Team(h) /\ d \notin S
    BY <1>1, <1>2 DEF Shrinks, HomeOk, Goes, Working
  <2> QED BY <1>2, <2>1 DEF Shrinks
<1>5. ~client'[d] \/ d \in closing' => ~running'[h]
  BY <1>1, <1>2 DEF Shrinks, HomeOk, Goes, Working, Ending
<1>6. \A w \in VcId : w = h => (d \in Team(home[d])' <=> d \in Team(w)')
  BY <1>2
<1> QED BY <1>1, <1>2, <1>3, <1>4, <1>5, <1>6 DEF HomeOk

\* It becomes ready only in a slot that runs, and so not in one that is closed.
LEMMA MovesKeepReady ==
  ASSUME TypeOK, PoolInv, NEW d \in Controller, RadioOk(d), HomeOk(d), ReadyOk(d), Goes(d), vcStage' = vcStage,
         NEW S, Shrinks(S), d \in S => ~link'[d] /\ drop'[d] # "start"
  PROVE  ReadyOk(d)'
<1>1. \A w \in VcId : (d \in Team(w)' => d \in Team(w)) /\ (d \in Team(w) /\ d \notin S => d \in Team(w)')
  BY DEF Shrinks
<1>2. \A w \in VcId : vcStage[w] # "idle" => ~running[w]
  BY DEF PoolInv, ClosedIsStopped
<1>3. ASSUME stage'[d] = "ready", stage[d] # "ready"
      PROVE  /\ client'[d] /\ d \notin closing'
             /\ \A w \in VcId : d \in Team(w) => vcStage[w] = "idle"
             /\ link'[d] => link[d] /\ d \in Team(home[d]) /\ home[d] \in VcId
  <2>1. stage[d] = "virtual_device_setup" /\ running[home[d]]
    BY <1>3 DEF Goes, Fresh, Waiting, Ending
  <2>2. stage[d] \in Working
    BY <2>1 DEF Working
  <2>3. home[d] \in VcId
    BY <2>2, SlotsAssumption DEF HomeOk, TypeOK, SlotsTypeOK, VcId
  <2>4. client[d] /\ d \notin closing
    BY <2>1, <2>2 DEF HomeOk
  <2> QED BY <1>2, <1>3, <2>1, <2>2, <2>3, <2>4 DEF HomeOk, Goes, Ending
<1>4. ASSUME stage'[d] = "ready", stage[d] = "ready"
      PROVE  /\ link'[d] => link[d]
             /\ client'[d] => client[d]
             /\ d \in closing' => d \in closing
             /\ d \in closing /\ d \notin closing' => ~client'[d]
             /\ client[d] /\ ~client'[d] => d \in closing
             /\ drop'[d] = "start" => drop[d] = "start" \/ link[d]
  BY <1>4 DEF Goes, Ending
<1>5. stage'[d] = "ready" /\ (link'[d] \/ (drop'[d] = "start" /\ (~client'[d] \/ d \in closing'))) => InTeam(d)'
  <2>1. CASE stage[d] = "ready"
    <3>1. ASSUME stage'[d] = "ready", link'[d] \/ (drop'[d] = "start" /\ (~client'[d] \/ d \in closing'))
          PROVE  d \notin S /\ InTeam(d)
      BY <1>4, <2>1, <3>1 DEF ReadyOk
    <3> QED BY <1>1, <3>1 DEF InTeam
  <2>2. CASE stage[d] # "ready"
    BY <1>1, <1>3, <2>2 DEF InTeam
  <2> QED BY <2>1, <2>2
<1>6. ASSUME NEW v \in VcId, d \in Team(v)'
      PROVE  /\ stage'[d] = "ready" /\ ~client'[d] => vcStage'[v] # "idle"
             /\ d \in closing' /\ stage'[d] \notin Ending => vcStage'[v] = "closing"
             /\ vcStage'[v] = "closing" /\ stage'[d] = "ready" /\ link'[d] => d \in closing' \/ ~client'[d]
  <2>1. d \in Team(v) /\ vcStage'[v] = vcStage[v]
    BY <1>1, <1>6
  <2>2. stage[d] \notin Unclaimed
    BY <2>1 DEF Team, PoolInv, ClaimedFirst
  <2>3. d \in closing' /\ stage'[d] \notin Ending => vcStage[v] = "closing"
    BY <2>1, <2>2 DEF ReadyOk, Goes, Ending, Unclaimed, Reserving, Waiting, Fresh
  <2>4. CASE stage[d] = "ready"
    BY <1>4, <2>1, <2>3, <2>4 DEF ReadyOk, Ending
  <2>5. CASE stage[d] # "ready"
    BY <1>3, <2>1, <2>3, <2>5
  <2> QED BY <2>4, <2>5
<1> QED BY <1>5, <1>6 DEF ReadyOk

\* Meanwhile a close keeps its list.
LEMMA MovesKeepTodo ==
  ASSUME PoolInv, SomebodyToReport, TypeOK, NEW v \in VcId, TodoOk(v), UNCHANGED <<vcStage, vcTodo>>,
         NEW S, Shrinks(S), \A d \in Controller : RadioOk(d) /\ HomeOk(d) /\ Goes(d)
  PROVE  TodoOk(v)'
<1>1. /\ Todo(v)' = Todo(v) /\ Todo(v) \subseteq Controller
      /\ vcTodo[v] # <<>> => Head(vcTodo[v]) \in Todo(v)
  <2>1. vcTodo[v] \in Seq(Controller)
    BY DEF TypeOK
  <2> QED BY <2>1 DEF Todo
<1>2. \A d \in Todo(v) : vcStage[v] # "idle" /\ ~running[v]
  BY DEF TodoOk, PoolInv, ClosedIsStopped
<1>3. ASSUME NEW d \in Todo(v)
      PROVE  /\ stage'[d] \in Claimed
             /\ stage'[d] \in Working => home'[d] = v
             /\ stage'[d] = "ready" => /\ stage[d] = "ready"
                                       /\ d \notin closing' /\ (link'[d] => ~client'[d])
                                       /\ client[d] => client'[d]
             /\ \A w \in VcId : d \in Team(w)' => w = v
  <2>1. d \in Controller /\ Goes(d) /\ HomeOk(d) /\ stage[d] \in Claimed
    BY <1>1 DEF TodoOk
  <2>2. stage'[d] \in Claimed /\ (stage'[d] \in Working => stage[d] \in Working /\ home'[d] = home[d])
    BY <2>1 DEF Goes, Claimed, Working, Fresh, Waiting, Ending
  <2>3. stage'[d] = "ready" => stage[d] = "ready"
    BY <1>2, <2>1 DEF Goes, Claimed, Working, Fresh, Waiting, Ending, TodoOk
  <2>4. stage'[d] = "ready" => /\ d \notin closing' /\ (link'[d] => ~client'[d])
                               /\ client[d] => client'[d]
    BY <2>1, <2>3 DEF Goes, TodoOk, Ending
  <2>5. \A w \in VcId : d \in Team(w)' => w = v
    BY DEF Shrinks, TodoOk
  <2> QED BY <2>2, <2>3, <2>4, <2>5 DEF TodoOk
<1>4. vcStage'[v] = "wait" /\ stage'[Head(vcTodo'[v])] = "ready" => client'[Head(vcTodo'[v])]
  <2>1. vcStage[v] = "wait" => Head(vcTodo[v]) \in Todo(v)
    BY <1>1 DEF SomebodyToReport
  <2> QED BY <1>3, <2>1 DEF TodoOk
<1>5. vcStage'[v] \in {"idle", "closing"} => Todo(v)' = {}
  BY <1>1 DEF TodoOk
<1> QED BY <1>1, <1>3, <1>4, <1>5 DEF TodoOk

\* A slot that is emptied lists nobody.
LEMMA MovesKeepListed ==
  ASSUME SlotsInv, Listed, NobodyJoins, SlotFreed, \A v \in VcId : members'[v] \in Seq(Controller)
  PROVE  Listed'
<1> SUFFICES ASSUME NEW v \in VcId, NEW n \in DOMAIN members'[v] PROVE InTable(v)'
  BY DEF Listed
<1>1. InTable(v)
  BY DEF NobodyJoins, Listed
<1>2. members'[v] # <<>>
  OBVIOUS
<1> QED BY <1>1, <1>2 DEF SlotFreed

-----------------------------------------------------------------------------
(* The connected addresses are counted *)

\* At most one attempt begins in a step.
LEMMA OneBegins ==
  ASSUME TypeOK, [Next]_vars, IsFiniteSet(Begun)
  PROVE  IsFiniteSet(Begun')
<1>1. stage \in [Controller -> Stages]
  BY DEF TypeOK
<1>2. ASSUME NEW c \in Controller, Advertise(c) \/ AddStep(c) \/ DropStep(c) \/ DisconnectStep(c)
      PROVE  \A d \in Controller : d # c => stage'[d] = stage[d]
  <2>1. CASE Advertise(c)
    BY <1>1, <2>1 DEF Advertise
  <2>2. CASE AddStep(c)
    BY <1>1, <2>2 DEF AddStep, ScanGetsLock, ConnectStart, LinkUp, ConnectDone, ConnectRaises, InitializeDone,
       InitializeRaises, InitializeAborted, PairStart, PairDone, PairRaises, AddGetsLock, MergeDone, MergeRaises,
       SetupDone, SetupFails, RollbackGetsLock, Fail, FinishRollback, Promote, Claim, JoinPair, TakeSlot,
       FindTableFull, taskVars
  <2>3. CASE DropStep(c) \/ DisconnectStep(c)
    BY <1>1, <2>3 DEF DropStep, DropStart, DropGetsLock, DropReorders, DropDone, DisconnectStep, DisconnectDone,
       DisconnectGivesUp, DisconnectReturns, taskVars
  <2> QED BY <1>2, <2>1, <2>2, <2>3
<1>3. ASSUME NEW v \in VcId, CloseStart(v) \/ CloseStep(v)
      PROVE  stage' = stage
  BY <1>3 DEF CloseStart, CloseStep, CloseGathered, CloseNotify, CloseGetsLock, CloseReorders, CloseReleases, CloseEnd,
     taskVars
<1>4. ASSUME (\E a \in Addr : LinkDrop(a)) \/ Stop \/ AtRest \/ UNCHANGED vars
      PROVE  stage' = stage
  BY <1>4 DEF LinkDrop, Stop, AtRest, vars, taskVars
<1>5. CASE stage' = stage
  <2>1. Begun' = Begun
    BY <1>5 DEF Begun
  <2> QED BY <2>1
<1>6. ASSUME NEW c \in Controller, \A d \in Controller : d # c => stage'[d] = stage[d]
      PROVE  IsFiniteSet(Begun')
  <2>1. Begun' \subseteq Begun \cup {c}
    BY <1>6 DEF Begun
  <2>2. IsFiniteSet(Begun \cup {c})
    BY FS_AddElement
  <2> QED BY <2>1, <2>2, FS_Subset
<1> QED BY <1>2, <1>3, <1>4, <1>5, <1>6 DEF Next

\* As long as nobody stops holding an address, it may stay; when c does, one occurrence of
\* its address must go; when c starts to, one may come.
LEMMA HoldersCounted ==
  ASSUME Counted, IsFiniteSet(Begun'), connectedMacs \in [Addr -> Nat], NEW c \in Controller,
         \A d \in Controller : d # c /\ Holding(d) => Holding(d)',
         \/ (connectedMacs' = connectedMacs \/ Forgets(c)) /\ (Holding(c) => Holding(c)')
         \/ Forgets(c)
         \/ CountsMore(c) /\ ~Holding(c) /\ Holding(c)'
  PROVE  Counted'
<1> SUFFICES ASSUME NEW a \in Addr PROVE connectedMacs'[a] <= Cardinality(HoldingOf(a)')
  BY DEF Counted
<1> DEFINE old == HoldingOf(a)
           new == HoldingOf(a)'
<1>1. IsFiniteSet(old) /\ IsFiniteSet(new)
  <2>1. old \subseteq Begun /\ new \subseteq Begun'
    BY DEF HoldingOf, Holding, Begun, Promoted
  <2> QED BY <2>1, FS_Subset DEF Counted
<1>2. /\ Cardinality(old) \in Nat /\ Cardinality(new) \in Nat /\ connectedMacs[a] \in Nat
      /\ connectedMacs[a] <= Cardinality(old)
  BY <1>1, FS_CardinalityType DEF Counted
<1>3. CASE old \subseteq new /\ (connectedMacs' = connectedMacs \/ Forgets(c))
  <2>1. Cardinality(old) <= Cardinality(new)
    BY <1>1, <1>3, FS_Subset
  <2>2. connectedMacs'[a] <= connectedMacs[a] /\ connectedMacs'[a] \in Nat
    <3>1. CASE connectedMacs' = connectedMacs
      BY <1>2, <3>1
    <3>2. CASE Forgets(c)
      <4>1. connectedMacs'[a] = IF a = AddrOf[c] /\ connectedMacs[a] > 0 THEN connectedMacs[a] - 1 ELSE connectedMacs[a]
        BY <3>2 DEF Forgets, Forget
      <4> QED BY <1>2, <4>1
    <3> QED BY <1>3, <3>1, <3>2
  <2> QED BY <1>2, <2>1, <2>2
<1>4. CASE Forgets(c) /\ ~(old \subseteq new)
  <2>1. a = AddrOf[c] /\ c \in old /\ old \ {c} \subseteq new
    BY <1>4 DEF HoldingOf
  <2>2. IsFiniteSet(old \ {c}) /\ Cardinality(old \ {c}) = Cardinality(old) - 1
    BY <1>1, <2>1, FS_RemoveElement
  <2>3. Cardinality(old) - 1 <= Cardinality(new)
    BY <1>1, <2>1, <2>2, FS_Subset
  <2>4. connectedMacs'[a] = IF connectedMacs[a] > 0 THEN connectedMacs[a] - 1 ELSE connectedMacs[a]
    BY <1>4, <2>1 DEF Forgets, Forget
  <2> QED BY <1>2, <2>3, <2>4
<1>5. CASE CountsMore(c) /\ ~Holding(c) /\ Holding(c)'
  <2>1. old \subseteq new /\ (a = AddrOf[c] => c \notin old /\ c \in new)
    BY <1>5 DEF HoldingOf
  <2>2. CASE a = AddrOf[c]
    <3>1. IsFiniteSet(old \cup {c}) /\ Cardinality(old \cup {c}) = Cardinality(old) + 1
      BY <1>1, <2>1, <2>2, FS_AddElement
    <3>2. Cardinality(old) + 1 <= Cardinality(new)
      <4>1. old \cup {c} \subseteq new
        BY <2>1, <2>2
      <4> QED BY <1>1, <3>1, <4>1, FS_Subset
    <3>3. connectedMacs'[a] = connectedMacs[a] + 1
      BY <1>5, <2>2 DEF CountsMore
    <3> QED BY <1>2, <3>2, <3>3
  <2>3. CASE a # AddrOf[c]
    <3>1. connectedMacs'[a] = connectedMacs[a]
      BY <1>5, <2>3 DEF CountsMore
    <3>2. Cardinality(old) <= Cardinality(new)
      BY <1>1, <2>1, FS_Subset
    <3> QED BY <1>2, <3>1, <3>2
  <2> QED BY <2>2, <2>3
<1>6. old \subseteq new \/ Forgets(c)
  BY DEF HoldingOf
<1> QED BY <1>3, <1>4, <1>5, <1>6

\* A step of the tasks keeps an address held, unless its holder leaves its slot.
LEMMA OwedHolds ==
  ASSUME NEW d \in Controller, RadioOk(d), HomeOk(d), ReadyOk(d), Goes(d), Owed(d),
         NEW S, Shrinks(S), d \in S => drop[d] = "wait", Holding(d)
  PROVE  Holding(d)'
<1>1. stage[d] \in Promoted /\ stage'[d] \in Promoted /\ (client'[d] => client[d])
  BY DEF Holding, Owed, Goes, Promoted
<1>2. d \notin S => (InTeam(d) => InTeam(d)')
  BY DEF Shrinks, InTeam
<1>3. ASSUME stage[d] \in Working, ~client[d] PROVE stage'[d] \in Working /\ ~client'[d]
  BY <1>1, <1>3 DEF Goes, HomeOk, Promoted, Working, Fresh, Waiting, Ending
<1>4. stage[d] = "ready" => stage'[d] = "ready"
  BY <1>1 DEF Goes, Promoted, Working, Fresh, Waiting, Ending
<1>5. stage[d] = "claim_wait" => client[d]
  BY DEF RadioOk, Waiting
<1>6. CASE link[d] \/ drop[d] = "start"
  <2>1. CASE link'[d] \/ drop'[d] = "start"
    BY <1>1, <2>1 DEF Holding
  <2>2. CASE drop[d] = "start" /\ ~client[d] /\ drop'[d] = "none"
    <3>1. stage[d] = "ready" => InTeam(d)
      BY <2>2 DEF ReadyOk
    <3>2. d \notin S
      BY <2>2
    <3>3. stage[d] \in Working \/ stage[d] = "ready"
      BY <1>1, <1>5, <2>2 DEF Promoted, Working
    <3> QED BY <1>1, <1>2, <1>3, <1>4, <2>2, <3>1, <3>2, <3>3 DEF Holding
  <2> QED BY <1>1, <1>6, <2>1, <2>2 DEF Owed, Promoted
<1>7. CASE stage[d] \in Working /\ ~client[d]
  BY <1>1, <1>3, <1>7 DEF Holding
<1>8. CASE ~link[d] /\ stage[d] = "ready" /\ ~client[d] /\ drop[d] = "none" /\ InTeam(d)
  <2>1. drop'[d] = "none" /\ d \notin S
    BY <1>8 DEF Owed
  <2> QED BY <1>1, <1>2, <1>4, <1>8, <2>1 DEF Holding
<1> QED BY <1>6, <1>7, <1>8 DEF Holding

\* So the count is kept by the steps of the tasks that are no claim, and by the claims.
LEMMA MovesKeepCount ==
  ASSUME TypeOK, Counted, IsFiniteSet(Begun'),
         \A d \in Controller : RadioOk(d) /\ HomeOk(d) /\ ReadyOk(d),
         NEW S \in SUBSET Controller, Moves(S), Settles(S)
  PROVE  Counted'
<1>1. connectedMacs \in [Addr -> Nat] /\ Shrinks(S) /\ \A d \in Controller : Goes(d)
  BY DEF TypeOK, Moves
<1>2. CASE connectedMacs' = connectedMacs /\ \A d \in Controller : Owed(d) /\ (d \in S => drop[d] = "wait")
  <2>1. \A d \in Controller : Holding(d) => Holding(d)'
    BY <1>1, <1>2, OwedHolds
  <2>2. CASE Controller = {}
    <3>1. \A a \in Addr : HoldingOf(a) = {} /\ HoldingOf(a)' = {}
      BY <2>2 DEF HoldingOf
    <3> QED BY <1>2, <3>1 DEF Counted
  <2>3. CASE \E c \in Controller : TRUE
    BY <1>1, <1>2, <2>1, <2>3, HoldersCounted
  <2> QED BY <2>2, <2>3
<1>3. ASSUME NEW c \in Controller, Forgets(c), S \subseteq {c}, \A d \in Controller : d # c => Owed(d)
      PROVE  Counted'
  <2>1. \A d \in Controller : d # c /\ Holding(d) => Holding(d)'
    BY <1>1, <1>3, OwedHolds
  <2> QED BY <1>1, <1>3, <2>1, HoldersCounted
<1>4. ASSUME NEW c \in Controller, S = {}, \A d \in Controller : Owed(d), CountsMore(c), stage[c] \notin Promoted,
             stage'[c] = "claim_wait", link'[c]
      PROVE  Counted'
  <2>1. \A d \in Controller : Holding(d) => Holding(d)'
    BY <1>1, <1>4, OwedHolds
  <2>2. ~Holding(c) /\ Holding(c)'
    BY <1>4 DEF Holding, Promoted
  <2> QED BY <1>1, <1>4, <2>1, <2>2, HoldersCounted
<1> QED BY <1>2, <1>3, <1>4 DEF Settles

\* Who claims a slot holds its address from then on.
LEMMA ClaimKeepsCount ==
  ASSUME TypeOK, Counted, IsFiniteSet(Begun'),
         NEW c \in Controller, NEW v \in VcId, RadioOk(c), Claims(c, v), Pays(c)
  PROVE  Counted'
<1>1. /\ connectedMacs \in [Addr -> Nat] /\ stage \in [Controller -> Stages]
      /\ UNCHANGED <<link, client, drop>> /\ stage'[c] \in Working
      /\ \A d \in Controller : d # c => stage'[d] = stage[d]
      /\ \A d \in Controller : InTeam(d) => InTeam(d)'
  BY DEF TypeOK, Claims, InTeam
<1>2. \A d \in Controller : d # c /\ Holding(d) => Holding(d)'
  BY <1>1 DEF Holding
<1>3. Holding(c) => Holding(c)'
  <2>1. stage[c] \in Waiting /\ client[c]
    BY DEF Claims, RadioOk
  <2> QED BY <1>1, <2>1 DEF Holding, Waiting, Promoted, Working
<1>4. CASE connectedMacs' = connectedMacs
  BY <1>1, <1>2, <1>3, <1>4, HoldersCounted
<1>5. CASE CountsMore(c) /\ stage[c] \notin Promoted /\ link[c]
  <2>1. ~Holding(c) /\ Holding(c)'
    BY <1>1, <1>5 DEF Holding, Promoted, Working
  <2> QED BY <1>1, <1>2, <1>5, <2>1, HoldersCounted
<1> QED BY <1>4, <1>5 DEF Pays

-----------------------------------------------------------------------------
(* Claims and closes *)

\* Who is on a list is in no state a claim starts from.
LEMMA ListedAreClaimed ==
  ASSUME TypeOK, PoolInv, LivesOk, NEW c \in Controller
  PROVE  /\ InTeam(c) \/ (\E v \in VcId : c \in Todo(v)) => stage[c] \in Claimed
         /\ stage[c] \in Waiting => ~InTeam(c) /\ client[c] /\ c \notin closing
<1>1. \A v \in VcId : c \in Team(v) => stage[c] \notin Unclaimed
  BY DEF Team, PoolInv, ClaimedFirst
<1>2. stage[c] \notin Unclaimed => stage[c] \in Claimed
  BY DEF TypeOK, Stages, Unclaimed, Promoted, Claimed, Working
<1>3. stage[c] \in Waiting => stage[c] \in Unclaimed /\ stage[c] \notin Claimed
  BY DEF Waiting, Unclaimed, Reserving, Claimed, Working, Ending
<1>4. stage[c] \in Waiting => client[c] /\ c \notin closing
  BY <1>3 DEF LivesOk, RadioOk, Waiting
<1> QED BY <1>1, <1>2, <1>3, <1>4 DEF InTeam, LivesOk, TodoOk

\* And it is new to every slot and to every list.
LEMMA ClaimKeepsLives ==
  ASSUME SlotsInv, SlotsInv', TypeOK, PoolInv, SomebodyToReport, LivesOk,
         NEW c \in Controller, NEW v \in VcId, Claims(c, v), UNCHANGED <<vcStage, vcTodo>>
  PROVE  LivesOk'
<1>1. ~InTeam(c) /\ client[c] /\ c \notin closing /\ stage[c] \notin Claimed /\ \A w \in VcId : c \notin Todo(w)
  <2>1. stage[c] \in Waiting /\ stage[c] \notin Claimed
    BY DEF Claims, Waiting, Claimed, Working, Ending
  <2> QED BY <2>1, ListedAreClaimed
<1>2. /\ stage \in [Controller -> Stages] /\ home \in [Controller -> VcId \cup {NoVc}]
      /\ made \in Nat /\ \A w \in VcId : vcTodo[w] \in Seq(Controller)
  BY SlotsAssumption DEF TypeOK, SlotsTypeOK
<1>3. /\ UNCHANGED <<link, client, closing, drop>> /\ stage'[c] \in Working /\ home'[c] = v /\ v \in 1 .. made'
      /\ \A d \in Controller : d # c => stage'[d] = stage[d] /\ home'[d] = home[d]
  BY <1>2 DEF Claims
<1>4. /\ \A w \in VcId, d \in Controller : d # c => (d \in Team(w)' <=> d \in Team(w))
      /\ \A w \in VcId : c \in Team(w)' <=> w = v
  BY <1>1 DEF Claims, InTeam
<1>5. Listed'
  BY DEF Claims, LivesOk, Listed
<1>6. ASSUME NEW d \in Controller, d # c PROVE RadioOk(d)' /\ HomeOk(d)' /\ ReadyOk(d)'
  <2>1. RadioOk(d)'
    BY <1>3, <1>6 DEF LivesOk, RadioOk
  <2>2. ASSUME stage'[d] \in Working PROVE HomeOk(d)'
    <3>1. stage[d] \in Working /\ home[d] \in 1 .. made
      BY <1>3, <1>6, <2>2 DEF LivesOk, HomeOk
    <3>2. PICK h \in VcId : h = home[d] /\ h = home'[d] /\ h \in 1 .. made
      <4>1. home[d] \in VcId
        BY <3>1, SlotsAssumption DEF TypeOK, SlotsTypeOK, VcId
      <4> QED BY <1>3, <1>6, <3>1, <4>1
    <3>3. h \in 1 .. made' /\ (running'[h] => running[h])
      <4>1. made' \in Nat /\ made <= made'
        BY SlotsAssumption DEF Claims, SlotsInv, SlotsTypeOK
      <4> QED BY <1>2, <3>2, <4>1 DEF Claims
    <3> QED BY <1>3, <1>4, <1>6, <3>1, <3>2, <3>3 DEF LivesOk, HomeOk
  <2>3. ReadyOk(d)'
    BY <1>3, <1>4, <1>6 DEF LivesOk, ReadyOk, InTeam
  <2> QED BY <2>1, <2>2, <2>3 DEF HomeOk
<1>7. RadioOk(c)' /\ HomeOk(c)' /\ ReadyOk(c)'
  <2>1. RadioOk(c)'
    BY <1>1, <1>3 DEF LivesOk, RadioOk, Working, Fresh, Waiting
  <2>2. HomeOk(c)'
    BY <1>1, <1>3, <1>4 DEF HomeOk
  <2>3. ReadyOk(c)'
    BY <1>1, <1>3 DEF ReadyOk, Working
  <2> QED BY <2>1, <2>2, <2>3
<1>8. ASSUME NEW w \in VcId PROVE TodoOk(w)'
  <2>1. Todo(w)' = Todo(w) /\ Todo(w) \subseteq Controller \ {c}
    BY <1>1, <1>2 DEF Todo
  <2>2. vcStage[w] = "wait" => Head(vcTodo[w]) \in Todo(w)
    BY <1>2 DEF SomebodyToReport, Todo
  <2>3. \A d \in Todo(w) : /\ stage'[d] = stage[d] /\ home'[d] = home[d]
                           /\ \A u \in VcId : d \in Team(u)' <=> d \in Team(u)
    BY <1>3, <1>4, <2>1
  <2> QED BY <1>3, <2>1, <2>2, <2>3 DEF LivesOk, TodoOk
<1> QED BY <1>5, <1>6, <1>7, <1>8 DEF LivesOk


\* A step of a close, by which the controllers in S leave their slot: nothing else happens
\* to an attempt.
Rests(S) ==
  /\ Shrinks(S) /\ NobodyJoins /\ UNCHANGED <<stage, home, link, client, drop>>
  /\ \A d \in S : stage[d] = "ready" => client[d]
  /\ connectedMacs' = connectedMacs \/ \E c \in Controller : Forgets(c)

\* Nobody stops holding an address in it.
LEMMA RestsKeepsCount ==
  ASSUME TypeOK, Counted, IsFiniteSet(Begun'), NEW S, Rests(S)
  PROVE  Counted'
<1>1. \A d \in Controller : Holding(d) => Holding(d)'
  <2>1. \A d \in Controller : InTeam(d) /\ d \notin S => InTeam(d)'
    BY DEF Rests, Shrinks, InTeam
  <2> QED BY <2>1 DEF Rests, Holding, Working
<1>2. connectedMacs \in [Addr -> Nat]
  BY DEF TypeOK
<1>3. ASSUME NEW c \in Controller, connectedMacs' = connectedMacs \/ Forgets(c) PROVE Counted'
  BY <1>1, <1>2, <1>3, HoldersCounted
<1>4. CASE connectedMacs' = connectedMacs /\ Controller = {}
  <2>1. \A a \in Addr : HoldingOf(a) = {} /\ HoldingOf(a)' = {}
    BY <1>4 DEF HoldingOf
  <2> QED BY <1>4, <2>1 DEF Counted
<1> QED BY <1>3, <1>4 DEF Rests

\* The host closes a slot: its controllers are disconnected.
LEMMA CloseStartKeepsLives ==
  ASSUME SlotsInv, TypeOK, PoolInv, SomebodyToReport, LivesOk, NEW v \in VcId, CloseStart(v)
  PROVE  LivesOk' /\ Rests({})
<1>1. /\ InTable(v) /\ vcStage[v] = "idle" /\ vcStage' = [vcStage EXCEPT ![v] = "closing"]
      /\ closing' = closing \cup {c \in Team(v) : client[c] /\ link[c]}
      /\ running' = [running EXCEPT ![v] = FALSE]
      /\ UNCHANGED <<table, made, members, connectedMacs, stage, home, link, client, drop, vcTodo>>
  BY DEF CloseStart, Team, taskVars
<1>2. /\ vcStage \in [VcId -> {"idle", "closing", "notify", "wait", "reinit", "leds"}]
      /\ running \in [VcId -> BOOLEAN] /\ members \in [VcId -> Seq(Controller)]
      /\ \A w \in VcId : vcTodo[w] \in Seq(Controller)
  BY DEF TypeOK, SlotsTypeOK
<1>3. /\ \A w \in VcId : Team(w)' = Team(w) /\ InTable(w)' = InTable(w) /\ (running'[w] <=> running[w] /\ w # v)
      /\ \A w \in VcId : vcStage'[w] = IF w = v THEN "closing" ELSE vcStage[w]
  BY <1>1, <1>2 DEF Team, InTable
<1>4. Rests({})
  BY <1>1, <1>3 DEF Rests, Shrinks, NobodyJoins
<1>5. Listed'
  BY <1>1, <1>3 DEF LivesOk, Listed
<1>6. ASSUME NEW d \in Controller PROVE RadioOk(d)' /\ HomeOk(d)' /\ ReadyOk(d)'
  <2>1. d \in Team(v) => stage[d] \in Claimed
    BY ListedAreClaimed DEF InTeam
  <2>2. RadioOk(d)'
    BY <1>1, <2>1 DEF LivesOk, RadioOk
  <2>3. HomeOk(d)'
    <3> SUFFICES ASSUME stage[d] \in Working PROVE HomeOk(d)'
      BY <1>1 DEF HomeOk
    <3>1. PICK h \in VcId : h = home[d] /\ h = home'[d] /\ h \in 1 .. made
      <4>1. home[d] \in VcId /\ home[d] \in 1 .. made
        BY SlotsAssumption DEF TypeOK, SlotsTypeOK, VcId, LivesOk, HomeOk
      <4> QED BY <1>1, <4>1
    <3>2. d \in Team(v) => h = v
      BY <3>1 DEF LivesOk, HomeOk
    <3> QED BY <1>1, <1>3, <3>1, <3>2 DEF LivesOk, HomeOk
  <2>4. ReadyOk(d)'
    <3>1. \A w \in VcId : w # v => ~(d \in Team(v) /\ d \in Team(w))
      BY DEF PoolInv, DrivenOnce, Team
    <3>2. stage[d] = "ready" /\ (link[d] \/ (drop[d] = "start" /\ (~client[d] \/ d \in closing'))) => InTeam(d)
      BY <1>1 DEF LivesOk, ReadyOk
    <3>3. InTeam(d)' <=> InTeam(d)
      BY <1>3 DEF InTeam
    <3>4. ASSUME NEW w \in VcId, d \in Team(w)
          PROVE  /\ stage[d] = "ready" /\ ~client[d] => vcStage'[w] # "idle"
                 /\ d \in closing' /\ stage[d] \notin Ending => vcStage'[w] = "closing"
                 /\ vcStage'[w] = "closing" /\ stage[d] = "ready" /\ link[d] => d \in closing' \/ ~client[d]
      <4>1. CASE w = v
        BY <1>1, <1>3, <3>4, <4>1
      <4>2. CASE w # v
        BY <1>1, <1>3, <3>1, <3>4, <4>2 DEF LivesOk, ReadyOk
      <4> QED BY <4>1, <4>2
    <3> QED BY <1>1, <1>3, <3>2, <3>3, <3>4 DEF ReadyOk
  <2> QED BY <2>2, <2>3, <2>4
<1>7. ASSUME NEW w \in VcId PROVE TodoOk(w)'
  <2>1. Todo(w)' = Todo(w)
    BY <1>1 DEF Todo
  <2>2. CASE w = v
    BY <1>1, <1>3, <2>1, <2>2 DEF LivesOk, TodoOk
  <2>3. CASE w # v
    <3>1. \A d \in Todo(w) : d \in closing' <=> d \in closing
      BY <1>1, <2>3 DEF LivesOk, TodoOk
    <3> QED BY <1>1, <1>3, <2>1, <2>3, <3>1 DEF LivesOk, TodoOk
  <2> QED BY <2>2, <2>3
<1> QED BY <1>4, <1>5, <1>6, <1>7 DEF LivesOk


\* The disconnects are over: who is to be reported is who is listed.
LEMMA CloseGatheredKeepsLives ==
  ASSUME SlotsInv, TypeOK, PoolInv, SomebodyToReport, LivesOk, NEW v \in VcId, CloseGathered(v)
  PROVE  LivesOk' /\ Rests({})
<1>1. /\ vcStage[v] = "closing" /\ vcStage' = [vcStage EXCEPT ![v] = "notify"]
      /\ vcTodo' = [vcTodo EXCEPT ![v] = members[v]]
      /\ \A n \in DOMAIN members[v] : members[v][n] \notin closing
      /\ UNCHANGED <<table, made, members, running, connectedMacs, stage, home, link, client, closing, drop>>
  BY DEF CloseGathered, slotVars, vcVars, taskVars, linkVars
<1>2. /\ vcStage \in [VcId -> {"idle", "closing", "notify", "wait", "reinit", "leds"}]
      /\ members \in [VcId -> Seq(Controller)] /\ vcTodo \in [VcId -> Seq(Controller)]
  BY DEF TypeOK, SlotsTypeOK
<1>3. /\ \A w \in VcId : Team(w)' = Team(w) /\ InTable(w)' = InTable(w)
      /\ \A w \in VcId : vcStage'[w] = IF w = v THEN "notify" ELSE vcStage[w]
      /\ vcTodo'[v] = members[v] /\ \A w \in VcId : w # v => vcTodo'[w] = vcTodo[w]
  BY <1>1, <1>2 DEF Team, InTable
<1>4. Rests({})
  BY <1>1, <1>3 DEF Rests, Shrinks, NobodyJoins
<1>5. Todo(v)' = Team(v) /\ \A d \in Team(v) : d \in Controller /\ d \notin closing
  BY <1>1, <1>2, <1>3 DEF Todo, Team, LivesOk, Listed
<1>6. Listed'
  BY <1>1, <1>3 DEF LivesOk, Listed
<1>7. ASSUME NEW d \in Controller PROVE RadioOk(d)' /\ HomeOk(d)' /\ ReadyOk(d)'
  <2>1. RadioOk(d)'
    BY <1>1 DEF LivesOk, RadioOk
  <2>2. HomeOk(d)'
    <3> SUFFICES ASSUME stage[d] \in Working PROVE HomeOk(d)'
      BY <1>1 DEF HomeOk
    <3>1. PICK h \in VcId : h = home[d] /\ h = home'[d] /\ h \in 1 .. made
      <4>1. home[d] \in VcId /\ home[d] \in 1 .. made
        BY SlotsAssumption DEF TypeOK, SlotsTypeOK, VcId, LivesOk, HomeOk
      <4> QED BY <1>1, <4>1
    <3> QED BY <1>1, <1>3, <3>1 DEF LivesOk, HomeOk
  <2>3. ReadyOk(d)'
    BY <1>1, <1>3, <1>5 DEF LivesOk, ReadyOk, InTeam
  <2> QED BY <2>1, <2>2, <2>3
<1>8. ASSUME NEW w \in VcId, w # v PROVE TodoOk(w)'
  <2>1. Todo(w)' = Todo(w)
    BY <1>3, <1>8 DEF Todo
  <2> QED BY <1>1, <1>3, <1>8, <2>1 DEF LivesOk, TodoOk
<1>9. TodoOk(v)'
  <2>1. \A d \in Team(v) : stage[d] \in Claimed /\ (stage[d] \in Working => home[d] = v)
    BY <1>5, ListedAreClaimed DEF InTeam, LivesOk, HomeOk
  <2>2. \A d \in Team(v) : stage[d] = "ready" => (link[d] => ~client[d])
    BY <1>1, <1>5 DEF LivesOk, ReadyOk
  <2>3. \A d \in Team(v) : \A w \in VcId : d \in Team(w) => w = v
    BY DEF PoolInv, DrivenOnce, Team
  <2> QED BY <1>1, <1>3, <1>5, <2>1, <2>2, <2>3 DEF TodoOk
<1> QED BY <1>4, <1>6, <1>7, <1>8, <1>9 DEF LivesOk

\* A report: the one reported leaves its slot.
Reports(v, S) ==
  /\ Rests(S) /\ UNCHANGED closing /\ S \subseteq Todo(v)
  /\ vcStage[v] \notin {"idle", "closing"} /\ vcStage'[v] \notin {"idle", "closing"}
  /\ \A w \in VcId : w # v => vcStage'[w] = vcStage[w] /\ vcTodo'[w] = vcTodo[w]
  /\ Todo(v)' \subseteq Todo(v)
  /\ vcStage'[v] = "wait" => client[Head(vcTodo'[v])]

\* Who is reported has no link, or drives a home that has stopped.
LEMMA ReportsKeepLives ==
  ASSUME SlotsInv, TypeOK, PoolInv, LivesOk, NEW v \in VcId, NEW S \in SUBSET Controller, Reports(v, S), Listed'
  PROVE  LivesOk'
<1>1. /\ UNCHANGED <<stage, home, link, client, drop, closing>> /\ made' = made
      /\ \A w \in VcId, d \in Controller : d \in Team(w)' <=> d \in Team(w) /\ d \notin S
      /\ \A w \in VcId : running'[w] => running[w]
  BY DEF Reports, Rests, Shrinks
<1>2. ~running[v]
  BY DEF Reports, PoolInv, ClosedIsStopped
<1>3. ASSUME NEW d \in S
      PROVE  /\ stage[d] \in Working => home[d] = v
             /\ stage[d] = "ready" => client[d] /\ ~link[d] /\ d \notin closing
  BY DEF Reports, Rests, LivesOk, TodoOk
<1>4. ASSUME NEW d \in Controller PROVE RadioOk(d)' /\ HomeOk(d)' /\ ReadyOk(d)'
  <2>1. RadioOk(d)'
    BY <1>1 DEF LivesOk, RadioOk
  <2>2. HomeOk(d)'
    <3> SUFFICES ASSUME stage[d] \in Working PROVE HomeOk(d)'
      BY <1>1 DEF HomeOk
    <3>1. PICK h \in VcId : h = home[d] /\ h = home'[d] /\ h \in 1 .. made
      <4>1. home[d] \in VcId /\ home[d] \in 1 .. made
        BY SlotsAssumption DEF TypeOK, SlotsTypeOK, VcId, LivesOk, HomeOk
      <4> QED BY <1>1, <4>1
    <3>2. running'[h] => d \notin S
      BY <1>1, <1>2, <1>3, <3>1
    <3> QED BY <1>1, <3>1, <3>2 DEF LivesOk, HomeOk
  <2>3. ReadyOk(d)'
    <3>1. stage[d] = "ready" /\ (link[d] \/ (drop[d] = "start" /\ (~client[d] \/ d \in closing))) => InTeam(d)'
      BY <1>1, <1>3 DEF LivesOk, ReadyOk, InTeam
    <3>2. \A w \in VcId : /\ vcStage'[w] = "idle" <=> vcStage[w] = "idle"
                          /\ vcStage'[w] = "closing" <=> vcStage[w] = "closing"
      BY DEF Reports
    <3> QED BY <1>1, <3>1, <3>2 DEF LivesOk, ReadyOk
  <2> QED BY <2>1, <2>2, <2>3
<1>5. ASSUME NEW w \in VcId PROVE TodoOk(w)'
  <2>1. Todo(w) \subseteq Controller
    BY DEF TypeOK, Todo
  <2>2. CASE w = v
    BY <1>1, <2>1, <2>2 DEF Reports, LivesOk, TodoOk
  <2>3. CASE w # v
    <3>1. Todo(w)' = Todo(w)
      BY <2>3 DEF Reports, Todo
    <3> QED BY <1>1, <2>1, <2>3, <3>1 DEF Reports, LivesOk, TodoOk
  <2> QED BY <2>2, <2>3
<1> QED BY <1>4, <1>5 DEF LivesOk


\* The other steps of a close are reports.
LEMMA CloseReports ==
  ASSUME SlotsInv, TypeOK, PoolInv, SomebodyToReport, LivesOk,
         NEW v \in VcId, CloseStep(v), ~CloseGathered(v), ~CloseEnd(v)
  PROVE  \E S \in SUBSET Controller : Reports(v, S)
<1>1. /\ vcStage \in [VcId -> {"idle", "closing", "notify", "wait", "reinit", "leds"}]
      /\ vcTodo \in [VcId -> Seq(Controller)] /\ vcTodo[v] \in Seq(Controller)
      /\ DrivenOnce
  BY DEF TypeOK, PoolInv
<1>2. /\ vcTodo[v] # <<>> /\ vcStage[v] \notin {"idle", "closing"}
      /\ UNCHANGED <<stage, home, link, client, drop, closing>>
  BY DEF CloseStep, CloseNotify, CloseGetsLock, CloseReorders, CloseReleases, SomebodyToReport, taskVars, linkVars
<1>3. PICK c \in Controller : c = Head(vcTodo[v]) /\ c \in Todo(v)
  BY <1>1, <1>2 DEF Todo
<1>4. PICK todo : todo = Tail(vcTodo[v]) /\ todo \in Seq(Controller) /\ \A n \in DOMAIN todo : todo[n] \in Todo(v)
  <2>1. /\ Tail(vcTodo[v]) \in Seq(Controller)
        /\ \A n \in 1 .. Len(Tail(vcTodo[v])) : n + 1 \in DOMAIN vcTodo[v] /\ Tail(vcTodo[v])[n] = vcTodo[v][n + 1]
    BY <1>1, <1>2
  <2>2. DOMAIN Tail(vcTodo[v]) = 1 .. Len(Tail(vcTodo[v]))
    BY <2>1
  <2>3. \A n \in DOMAIN Tail(vcTodo[v]) : Tail(vcTodo[v])[n] \in Todo(v)
    BY <2>1, <2>2 DEF Todo
  <2> QED BY <2>1, <2>3
<1>5. ASSUME NEW S \in SUBSET {c}, Shrinks(S), NobodyJoins, c \in S => (stage[c] = "ready" => client[c]),
             connectedMacs' = connectedMacs \/ Forgets(c),
             NEW s \in {"notify", "wait", "reinit", "leds"}, vcStage' = [vcStage EXCEPT ![v] = s],
             vcTodo' = vcTodo \/ vcTodo' = [vcTodo EXCEPT ![v] = todo],
             s = "wait" => vcTodo' = vcTodo /\ client[c]
      PROVE  Reports(v, S)
  <2>1. Rests(S)
    BY <1>2, <1>5 DEF Rests
  <2>2. /\ vcStage'[v] = s /\ \A w \in VcId : w # v => vcStage'[w] = vcStage[w] /\ vcTodo'[w] = vcTodo[w]
        /\ vcTodo'[v] = vcTodo[v] \/ vcTodo'[v] = todo
    <3>1. vcStage'[v] = s /\ \A w \in VcId : w # v => vcStage'[w] = vcStage[w]
      BY <1>1, <1>5
    <3>2. CASE vcTodo' = vcTodo
      BY <3>1, <3>2
    <3>3. CASE vcTodo' = [vcTodo EXCEPT ![v] = todo]
      BY <1>1, <3>1, <3>3
    <3> QED BY <1>5, <3>2, <3>3
  <2>3. Todo(v)' \subseteq Todo(v)
    <3>1. CASE vcTodo'[v] = vcTodo[v]
      BY <3>1 DEF Todo
    <3>2. CASE vcTodo'[v] = todo
      BY <1>4, <3>2 DEF Todo
    <3> QED BY <2>2, <3>1, <3>2
  <2>4. ASSUME s = "wait" PROVE client[Head(vcTodo'[v])]
    <3>1. vcTodo' = vcTodo /\ client[c]
      BY <1>5, <2>4
    <3> QED BY <1>3, <3>1
  <2> QED BY <1>2, <1>3, <1>5, <2>1, <2>2, <2>3, <2>4 DEF Reports
<1>6. CASE CloseNotify(v)
  <2>1. CASE ~client[c]
    <3>1. UNCHANGED <<table, made, members, running, connectedMacs>> /\ Done(v)
      BY <1>3, <1>6, <2>1 DEF CloseNotify, slotVars, vcVars
    <3>2. Reports(v, {})
      BY <1>4, <1>5, <3>1, NobodyLeaves DEF Done, CloseGoto
    <3> QED BY <3>2
  <2>2. CASE client[c]
    <3>1. /\ Forgets(c) /\ vcTodo' = vcTodo
          /\ \/ Evict(c) /\ CloseGoto(v, "reinit")
             \/ UNCHANGED <<table, made, members, running>> /\ CloseGoto(v, "wait")
      BY <1>3, <1>6, <2>2 DEF CloseNotify, CloseLocked, EvictLocked, Forgets, vcVars
    <3>2. CASE Evict(c) /\ CloseGoto(v, "reinit")
      <4>1. Reports(v, {c})
        BY <1>1, <1>5, <2>2, <3>1, <3>2, EvictTakes DEF CloseGoto
      <4> QED BY <4>1
    <3>3. CASE UNCHANGED <<table, made, members, running>> /\ CloseGoto(v, "wait")
      <4>1. Reports(v, {})
        BY <1>5, <2>2, <3>1, <3>3, NobodyLeaves DEF CloseGoto
      <4> QED BY <4>1
    <3> QED BY <3>1, <3>2, <3>3
  <2> QED BY <2>1, <2>2
<1>7. CASE CloseGetsLock(v)
  <2>1. Evict(c) /\ CloseGoto(v, "reinit") /\ UNCHANGED <<connectedMacs, vcTodo>> /\ vcStage[v] = "wait"
    BY <1>3, <1>7 DEF CloseGetsLock, CloseLocked, EvictLocked, taskVars
  <2>2. stage[c] = "ready" => client[c]
    BY <1>3, <2>1 DEF LivesOk, TodoOk
  <2>3. Reports(v, {c})
    BY <1>1, <1>5, <2>1, <2>2, EvictTakes DEF CloseGoto
  <2> QED BY <2>3
<1>8. CASE CloseReorders(v) \/ CloseReleases(v)
  <2>1. Shrinks({}) /\ NobodyJoins
    <3>1. CASE Reorder(table, members) /\ UNCHANGED <<made, members, running, device>>
      BY <3>1, ReorderLeaves
    <3>2. CASE UNCHANGED <<table, made, members, running>>
      BY <3>2, NobodyLeaves
    <3> QED BY <1>8, <3>1, <3>2 DEF CloseReorders, CloseReleases, vcVars
  <2>2. /\ connectedMacs' = connectedMacs
        /\ Done(v) \/ (CloseGoto(v, "leds") /\ vcTodo' = vcTodo)
    BY <1>8 DEF CloseReorders, CloseReleases, taskVars
  <2>3. Reports(v, {})
    BY <1>4, <1>5, <2>1, <2>2 DEF Done, CloseGoto
  <2> QED BY <2>3
<1> QED BY <1>6, <1>7, <1>8 DEF CloseStep

\* The close is over: unless it leaves a dead slot, the slot is free.
LEMMA CloseEndKeepsLives ==
  ASSUME SlotsInv, TypeOK, PoolInv, LivesOk, NEW v \in VcId, CloseEnd(v), ~DeadSlot'
  PROVE  LivesOk' /\ Rests({})
<1>1. /\ vcStage[v] = "notify" /\ vcStage' = [vcStage EXCEPT ![v] = "idle"] /\ vcTodo[v] = <<>>
      /\ members' = [members EXCEPT ![v] = <<>>]
      /\ UNCHANGED <<table, made, running, connectedMacs, stage, home, link, client, closing, drop, vcTodo>>
  BY DEF CloseEnd, taskVars, linkVars
<1>2. /\ vcStage \in [VcId -> {"idle", "closing", "notify", "wait", "reinit", "leds"}]
      /\ members \in [VcId -> Seq(Controller)]
  BY DEF TypeOK, SlotsTypeOK
<1>3. /\ \A w \in VcId : vcStage'[w] = IF w = v THEN "idle" ELSE vcStage[w]
      /\ DOMAIN members'[v] = {} /\ \A w \in VcId : w # v => members'[w] = members[w]
      /\ \A w \in VcId : InTable(w)' = InTable(w)
  BY <1>1, <1>2 DEF InTable
<1>4. ~InTable(v)
  <2>1. ~running'[v]
    BY <1>1 DEF PoolInv, ClosedIsStopped
  <2>2. Team(v)' = {}
    BY <1>3 DEF Team
  <2> QED BY <1>3, <2>1, <2>2 DEF DeadSlot, Dead
<1>5. \A w \in VcId : Team(w)' = Team(w) /\ (w = v => Team(w) = {})
  BY <1>3, <1>4 DEF Team
<1>6. Listed' /\ NobodyJoins
  BY <1>3 DEF LivesOk, Listed, NobodyJoins
<1>7. Rests({})
  BY <1>1, <1>3, <1>5, <1>6 DEF Rests, Shrinks
<1>8. ASSUME NEW d \in Controller PROVE RadioOk(d)' /\ HomeOk(d)' /\ ReadyOk(d)'
  <2>1. RadioOk(d)'
    BY <1>1 DEF LivesOk, RadioOk
  <2>2. HomeOk(d)'
    <3> SUFFICES ASSUME stage[d] \in Working PROVE HomeOk(d)'
      BY <1>1 DEF HomeOk
    <3>1. PICK h \in VcId : h = home[d] /\ h = home'[d] /\ h \in 1 .. made
      <4>1. home[d] \in VcId /\ home[d] \in 1 .. made
        BY SlotsAssumption DEF TypeOK, SlotsTypeOK, VcId, LivesOk, HomeOk
      <4> QED BY <1>1, <4>1
    <3> QED BY <1>1, <1>5, <3>1 DEF LivesOk, HomeOk
  <2>3. ReadyOk(d)'
    BY <1>1, <1>3, <1>5 DEF LivesOk, ReadyOk, InTeam
  <2> QED BY <2>1, <2>2, <2>3
<1>9. ASSUME NEW w \in VcId PROVE TodoOk(w)'
  <2>1. Todo(w)' = Todo(w) /\ Todo(w) \subseteq Controller
    BY <1>1 DEF Todo, TypeOK
  <2>2. CASE w = v
    <3>1. Todo(v) = {}
      BY <1>1 DEF Todo
    <3> QED BY <1>3, <2>1, <2>2, <3>1 DEF TodoOk
  <2>3. CASE w # v
    BY <1>1, <1>3, <1>5, <2>1, <2>3 DEF LivesOk, TodoOk
  <2> QED BY <2>2, <2>3
<1> QED BY <1>6, <1>7, <1>8, <1>9 DEF LivesOk


\* The invariant but for the count, in a step of the tasks that is no claim.
LEMMA MovesKeepLives ==
  ASSUME SlotsInv, SlotsInv', SlotFreed, TypeOK, PoolInv, SomebodyToReport, LivesOk,
         NEW S \in SUBSET Controller, Moves(S), UNCHANGED <<vcStage, vcTodo>>
  PROVE  LivesOk'
<1>1. Shrinks(S) /\ NobodyJoins /\ \A d \in Controller : Goes(d) /\ RadioOk(d) /\ HomeOk(d) /\ ReadyOk(d)
  BY DEF Moves, LivesOk
<1>2. Listed'
  BY <1>1, MovesKeepListed DEF LivesOk, SlotsInv, SlotsTypeOK
<1>3. ASSUME NEW d \in Controller PROVE RadioOk(d)' /\ HomeOk(d)' /\ ReadyOk(d)'
  <2>1. d \in S => ~link'[d] /\ drop'[d] # "start"
    BY DEF Moves
  <2> QED BY <1>1, <2>1, MovesKeepRadio, MovesKeepHome, MovesKeepReady
<1>4. \A v \in VcId : TodoOk(v)'
  BY <1>1, MovesKeepTodo DEF LivesOk
<1> QED BY <1>2, <1>3, <1>4 DEF LivesOk

\* Every step keeps it.
LEMMA StepKeepsLife ==
  ASSUME Inv, PoolInv, Life, [Next]_vars
  PROVE  Life'
<1> SUFFICES ASSUME ~DeadSlot' PROVE (LivesOk /\ Counted)'
  BY DEF Life
<1>1. LivesOk /\ Counted
  BY DeadStays DEF Life
<1>2. SlotsInv /\ SlotsInv' /\ SlotFreed /\ TypeOK /\ SomebodyToReport
  BY SlotsStep, NextKeepsInv DEF Inv
<1>3. IsFiniteSet(Begun')
  BY <1>1, <1>2, OneBegins DEF Counted
<1>4. ASSUME NEW S \in SUBSET Controller, Moves(S), Settles(S), UNCHANGED <<vcStage, vcTodo>>
      PROVE  (LivesOk /\ Counted)'
  BY <1>1, <1>2, <1>3, <1>4, MovesKeepLives, MovesKeepCount DEF LivesOk
<1>5. ASSUME NEW c \in Controller, NEW v \in VcId, Claims(c, v), Pays(c), UNCHANGED <<vcStage, vcTodo>>
      PROVE  (LivesOk /\ Counted)'
  BY <1>1, <1>2, <1>3, <1>5, ClaimKeepsLives, ClaimKeepsCount DEF LivesOk
<1>6. ASSUME NEW c \in Controller, Advertise(c) \/ AddStep(c) \/ DropStep(c) \/ DisconnectStep(c)
      PROVE  (LivesOk /\ Counted)'
  <2>1. UNCHANGED <<vcStage, vcTodo>>
    BY <1>6, OthersLeaveCloses
  <2>2. RadioOk(c) /\ HomeOk(c) /\ DrivenOnce
    BY <1>1 DEF LivesOk, PoolInv
  <2>3. CASE Advertise(c) \/ AddStep(c)
    BY <1>2, <1>4, <1>5, <2>1, <2>2, <2>3, AddGoes
  <2>4. CASE DropStep(c) \/ DisconnectStep(c)
    BY <1>2, <1>4, <2>1, <2>2, <2>4, DropGoes, DisconnectGoes
  <2> QED BY <1>6, <2>3, <2>4
<1>7. ASSUME NEW v \in VcId, CloseStart(v) \/ CloseStep(v)
      PROVE  (LivesOk /\ Counted)'
  <2>1. \E S \in SUBSET Controller : LivesOk' /\ Rests(S)
    <3>1. CASE CloseStart(v) \/ CloseGathered(v) \/ CloseEnd(v)
      BY <1>1, <1>2, <3>1, CloseStartKeepsLives, CloseGatheredKeepsLives, CloseEndKeepsLives
    <3>2. CASE CloseStep(v) /\ ~CloseGathered(v) /\ ~CloseEnd(v)
      <4>1. PICK S \in SUBSET Controller : Reports(v, S)
        BY <1>1, <1>2, <3>2, CloseReports
      <4>2. Listed'
        BY <1>1, <1>2, <4>1, MovesKeepListed DEF LivesOk, Reports, Rests, SlotsInv, SlotsTypeOK
      <4>3. LivesOk'
        BY <1>1, <1>2, <4>1, <4>2, ReportsKeepLives
      <4> QED BY <4>1, <4>3 DEF Reports
    <3> QED BY <1>7, <3>1, <3>2
  <2> QED BY <1>1, <1>2, <1>3, <2>1, RestsKeepsCount
<1>8. CASE (\E a \in Addr : LinkDrop(a)) \/ Stop \/ AtRest \/ UNCHANGED vars
  <2>1. UNCHANGED <<vcStage, vcTodo>>
    BY <1>8 DEF LinkDrop, Stop, AtRest, vars, closeVars
  <2> QED BY <1>2, <1>4, <1>8, <2>1, RadioGoes
<1> QED BY <1>6, <1>7, <1>8 DEF Next

\* It holds before anything happens.
LEMMA InitIsAlive == Init => Life
<1> SUFFICES ASSUME Init PROVE LivesOk /\ Counted
  BY DEF Life
<1>1. \A v \in VcId : DOMAIN members[v] = {} /\ Team(v) = {} /\ Todo(v) = {} /\ vcStage[v] = "idle"
  BY DEF Init, SlotsInit, Team, Todo
<1>2. \A c \in Controller : stage[c] = "unused" /\ ~link[c] /\ ~client[c] /\ c \notin closing /\ drop[c] = "none"
  BY DEF Init
<1>3. LivesOk
  BY <1>1, <1>2 DEF LivesOk, Listed, RadioOk, HomeOk, ReadyOk, TodoOk, Fresh, Waiting, Working
<1>4. Begun = {} /\ \A a \in Addr : HoldingOf(a) = {} /\ connectedMacs[a] = 0
  BY <1>2 DEF Init, Begun, HoldingOf, Holding, Promoted
<1>5. Counted
  BY <1>4, FS_EmptySet DEF Counted
<1> QED BY <1>3, <1>5

\* What it says of a moment at which no closed slot is left.
LEMMA LifeIsUsable ==
  ASSUME TypeOK, Life
  PROVE  UsableUnlessClosed
<1> SUFFICES ASSUME NoClosedSlot PROVE ReadyIsDriven /\ ConnectedIsLinked
  BY DEF UsableUnlessClosed
<1>1. LivesOk /\ Counted
  BY DEF Life, DeadSlot, Dead, NoClosedSlot
<1>2. ReadyIsDriven
  <2> SUFFICES ASSUME NEW c \in Controller, stage[c] = "ready", link[c] PROVE VcOf(c) # NoVc
    BY DEF ReadyIsDriven
  <2>1. \E v \in VcId : InTable(v) /\ Drives(v, c)
    BY <1>1 DEF LivesOk, ReadyOk, InTeam, Team, Drives
  <2>2. VcOf(c) \in VcId
    BY <2>1 DEF VcOf
  <2> QED BY <2>2 DEF VcId, NoVc
<1>3. ConnectedIsLinked
  <2> SUFFICES ASSUME Quiet, NEW a \in Addr, connectedMacs[a] > 0 PROVE Linked(a)
    BY DEF ConnectedIsLinked
  <2>1. HoldingOf(a) # {}
    <3>1. ASSUME HoldingOf(a) = {} PROVE FALSE
      <4>1. connectedMacs[a] <= 0
        BY <1>1, <3>1, FS_EmptySet DEF Counted
      <4> QED BY <4>1 DEF TypeOK
    <3> QED BY <3>1
  <2>2. PICK c \in Controller : AddrOf[c] = a /\ Holding(c)
    BY <2>1 DEF HoldingOf
  <2>3. stage[c] = "ready" /\ drop[c] = "none" /\ \A v \in VcId : vcStage[v] = "idle"
    BY <2>2 DEF Quiet, Holding, Promoted
  <2>4. link[c]
    BY <1>1, <2>2, <2>3 DEF Holding, Working, InTeam, LivesOk, ReadyOk
  <2> QED BY <2>2, <2>4 DEF Linked
<1> QED BY <1>2, <1>3

\* However the attempts, the callbacks and the closes interleave: unless a slot that the host
\* closed is left in the table, a controller that is ready drives a slot as long as it has a
\* link, and once nothing is going on only addresses with a link count as connected.
THEOREM Usable == Spec => []UsableUnlessClosed
<1>1. Init => Life /\ PoolInv
  BY InitIsAlive, InitShows
<1>2. Inv /\ (Life /\ PoolInv) /\ [Next]_vars => (Life /\ PoolInv)'
  BY StepKeepsLife, StepShows DEF Inv
<1>3. Inv /\ Life => UsableUnlessClosed
  BY LifeIsUsable DEF Inv
<1> QED BY <1>1, <1>2, <1>3, Invariance, PTL DEF Spec

=============================================================================
