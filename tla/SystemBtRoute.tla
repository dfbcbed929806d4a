---------------------------- MODULE SystemBtRoute ----------------------------
(***************************************************************************)
(* The system-Bluetooth discovery route of src/src/discoverer.py: the scan *)
(* callback, one add_controller task per accepted advertisement, the       *)
(* disconnect callback bleak schedules when a link goes down, and          *)
(* VirtualController.disconnect.  All of them are coroutines of one event  *)
(* loop: an action here is the code between two suspension points, and     *)
(* everything else may run in between.  Where the code suspends only when  *)
(* there is something to write (re-initialising the half that remains, the *)
(* LEDs), the model always suspends.                                       *)
(*                                                                         *)
(* External and modelled from its use: the radio (a link may drop at any   *)
(* moment, a connected device does not advertise), WinRT's client (it      *)
(* reports the drop through the callback before its own disconnect()       *)
(* returns, and that disconnect() may exceed the caller's timeout).        *)
(***************************************************************************)
EXTENDS PlayerSlots

CONSTANTS
  Addr,            \* Bluetooth addresses of the physical controllers
  AddrOf,          \* the device a Controller object stands for
  CombineJoycons,  \* CONFIG.combine_joycons
  PairingMode,     \* the attempts whose controller advertised in pairing mode
  MayClose,        \* a VirtualController may be disconnected from the host side
  MayStop          \* the GUI may quit, or the machine suspend

ASSUME RouteAssumption ==
  /\ AddrOf \in [Controller -> Addr]
  /\ CombineJoycons \in BOOLEAN
  /\ PairingMode \subseteq Controller
  /\ MayClose \in BOOLEAN
  /\ MayStop \in BOOLEAN

VARIABLES
  connectingMacs,  \* _connecting_macs
  connectedMacs,   \* connected_mac_addresses, a list: occurrences per address
  connLock,        \* who holds CONNECTION_LOCK
  stage,           \* where the add_controller task of each Controller is
  home,            \* its local virtual_controller, NoVc once the task is over
  link,            \* the radio link is up (client.is_connected)
  client,          \* controller.client is not None
  closing,         \* controllers inside Controller.disconnect's await
  drop,            \* the disconnected_callback task of each Controller
  vcStage,         \* VirtualController.disconnect of each VirtualController
  vcTodo,          \* controllers it still has to report
  stopping         \* IS_SHUTTING_DOWN or _IS_SUSPENDING

taskVars == <<connectingMacs, connectedMacs, connLock, stage, home>>
linkVars == <<link, client, closing, drop>>
closeVars == <<vcStage, vcTodo>>
vars == <<slotVars, taskVars, linkVars, closeVars, stopping>>

\* Stages of an attempt that still owns the reservation of its address.
Reserving == {"scan_wait", "waiting_connection_lock", "winrt_connect",
              "initialize", "init_abort", "pair_wait", "pair"}
Promoted == {"claim_wait", "merge", "virtual_device_setup", "ready"}
Ending == {"fail_wait", "fail_disconnect", "failed"}
Stages == {"unused"} \cup Reserving \cup Promoted \cup Ending

TypeOK ==
  /\ SlotsTypeOK
  /\ connectingMacs \subseteq Addr
  /\ connectedMacs \in [Addr -> Nat]
  /\ connLock \subseteq Controller
  /\ stage \in [Controller -> Stages]
  /\ home \in [Controller -> VcId \cup {NoVc}]
  /\ link \in [Controller -> BOOLEAN]
  /\ client \in [Controller -> BOOLEAN]
  /\ closing \subseteq Controller
  /\ drop \in [Controller -> {"none", "start", "wait", "reinit", "leds"}]
  /\ vcStage \in [VcId -> {"idle", "closing", "notify", "wait", "reinit", "leds"}]
  /\ vcTodo \in [VcId -> Seq(Controller)]
  /\ stopping \in BOOLEAN

-----------------------------------------------------------------------------
(* Processes that queue for GLOBAL_LOCK *)
Scan(c) == <<"scan", c>>
Add(c) == <<"add", c>>
Rollback(c) == <<"rollback", c>>
Drop(c) == <<"drop", c>>
Close(v) == <<"close", v>>

\* (mutation) list.remove without looking first
ForgetUnchecked(macs, a) == [macs EXCEPT ![a] = @ - 1]

\* list.remove of one occurrence, when there is one
Forget(macs, a) == [macs EXCEPT ![a] = IF @ > 0 THEN @ - 1 ELSE @]

\* A device advertises once its link is gone, and the event loop is told of the
\* loss before it is told of the advertisement.
Advertising(a) ==
  \A c \in Controller : AddrOf[c] = a => ~link[c] /\ drop[c] # "start"
Linked(a) == \E c \in Controller : AddrOf[c] = a /\ link[c]

-----------------------------------------------------------------------------
(* The failure path of add_controller *)

\* controller.disconnect() at its end, then the finally clause
FinishRollback(c, reserved) ==
  IF client[c] /\ link[c]
  THEN /\ closing' = closing \cup {c}
       /\ stage' = [stage EXCEPT ![c] = "fail_disconnect"]
       /\ connectingMacs' = reserved
       /\ UNCHANGED client
  ELSE /\ client' = [client EXCEPT ![c] = FALSE]
       /\ stage' = [stage EXCEPT ![c] = "failed"]
       /\ connectingMacs' = reserved \ {AddrOf[c]}
       /\ UNCHANGED closing

\* The except clause: both address lists are cleaned at once, then GLOBAL_LOCK
\* is awaited for the pending counter.  q is the lock queue, macs the connected
\* addresses, as the step has left them.
Fail(c, q, macs) ==
  LET reserved == connectingMacs \ {AddrOf[c]} IN
  /\ connectedMacs' = Forget(macs, AddrOf[c])
  /\ home' = [home EXCEPT ![c] = NoVc]
  /\ IF q = <<>>
     THEN lockq' = q /\ FinishRollback(c, reserved)
     ELSE /\ lockq' = Append(q, Rollback(c))
          /\ stage' = [stage EXCEPT ![c] = "fail_wait"]
          /\ connectingMacs' = reserved
          /\ UNCHANGED <<client, closing>>

RollbackGetsLock(c) ==
  /\ stage[c] = "fail_wait" /\ Holds(Rollback(c))
  /\ lockq' = Tail(lockq)
  /\ FinishRollback(c, connectingMacs)
  /\ UNCHANGED <<vcVars, connectedMacs, connLock, home, link, drop, closeVars, stopping>>

-----------------------------------------------------------------------------
(* The scan callback *)

\* An advertisement of a controller in pairing mode, or one that names this
\* host, passes the filters and reserves its address.  (In Full power-saving mode
\* the scanner also stands back once enough controllers are connected; the mode
\* is the user's to change at any moment, so that restricts no behaviour here.)
Advertise(c) ==
  LET a == AddrOf[c] IN
  /\ stage[c] = "unused" /\ Advertising(a)
  /\ connectedMacs[a] = 0 /\ a \notin connectingMacs
  /\ connectingMacs' = connectingMacs \cup {a}
  /\ IF LockFree
     THEN stage' = [stage EXCEPT ![c] = "waiting_connection_lock"] /\ UNCHANGED lockq
     ELSE stage' = [stage EXCEPT ![c] = "scan_wait"] /\ lockq' = Append(lockq, Scan(c))
  /\ UNCHANGED <<vcVars, connectedMacs, connLock, home, linkVars, closeVars, stopping>>

ScanGetsLock(c) ==
  /\ stage[c] = "scan_wait" /\ Holds(Scan(c))
  /\ lockq' = Tail(lockq)
  /\ stage' = [stage EXCEPT ![c] = "waiting_connection_lock"]
  /\ UNCHANGED <<vcVars, connectingMacs, connectedMacs, connLock, home, linkVars, closeVars, stopping>>

-----------------------------------------------------------------------------
(* add_controller *)

ConnectStart(c) ==
  /\ stage[c] = "waiting_connection_lock" /\ connLock = {}
  /\ connLock' = {c}
  /\ stage' = [stage EXCEPT ![c] = "winrt_connect"]
  /\ UNCHANGED <<slotVars, connectingMacs, connectedMacs, home, linkVars, closeVars, stopping>>

\* client.connect() succeeds; connect_ble() still has awaits before it returns.
LinkUp(c) ==
  /\ stage[c] = "winrt_connect" /\ ~client[c]
  /\ link' = [link EXCEPT ![c] = TRUE]
  /\ client' = [client EXCEPT ![c] = TRUE]
  /\ UNCHANGED <<slotVars, taskVars, closing, drop, closeVars, stopping>>

\* connect_ble() returns and disconnected_callback is assigned: a link that
\* dropped before this point is reported to nobody.
ConnectDone(c) ==
  /\ stage[c] = "winrt_connect" /\ client[c]
  /\ connLock' = {}
  /\ stage' = [stage EXCEPT ![c] = "initialize"]
  /\ UNCHANGED <<slotVars, connectingMacs, connectedMacs, home, linkVars, closeVars, stopping>>

ConnectRaises(c) ==
  /\ stage[c] = "winrt_connect" /\ ~link[c]
  /\ connLock' = {}
  /\ Fail(c, lockq, connectedMacs)
  /\ UNCHANGED <<vcVars, link, drop, closeVars, stopping>>

\* (mutation) any single Joy-Con will do
MergeSlotsAnySide(c) ==
  {i \in Slot : table[i] # NoVc /\ Kind[c] \in {"left", "right"} /\
     (SingleOf(table[i], "right") \/ SingleOf(table[i], "left"))}

\* Claiming a slot under GLOBAL_LOCK.  q is the lock queue with this task as
\* its holder; macs and reserved are the two address lists the step leaves.
MergeSlots(c) ==
  {i \in Slot : table[i] # NoVc /\
     \/ Kind[c] = "left" /\ SingleOf(table[i], "right")
     \/ Kind[c] = "right" /\ SingleOf(table[i], "left")}

\* A Joy-Con may join the first slot that holds the opposite single one (unless
\* a side button is held); init_added_controller then awaits WinRT for the pair,
\* with the lock held.
JoinPair(c, q, macs, reserved) ==
  LET v == table[First(MergeSlots(c))] IN
  /\ CombineJoycons /\ MergeSlots(c) # {}
  /\ members' = [members EXCEPT ![v] = Append(@, c)]
  /\ home' = [home EXCEPT ![c] = v]
  /\ stage' = [stage EXCEPT ![c] = "merge"]
  /\ lockq' = q /\ connectedMacs' = macs /\ connectingMacs' = reserved
  /\ UNCHANGED <<table, made, running, device, player, client, closing>>

\* A new VirtualController in the first empty slot: created, reordered and the
\* lock released without suspension.
TakeSlot(c, q, macs, reserved) ==
  LET i == First({j \in Slot : table[j] = NoVc})
      t == [table EXCEPT ![i] = NewVc]
  IN
  /\ Occupied(table) # Slot
  /\ Create(c)
  /\ Reorder(t, members')
  /\ home' = [home EXCEPT ![c] = NewVc]
  /\ stage' = [stage EXCEPT ![c] = "virtual_device_setup"]
  /\ lockq' = Tail(q) /\ connectedMacs' = macs /\ connectingMacs' = reserved
  /\ UNCHANGED <<client, closing>>

\* next(...) finds no empty slot: StopIteration, and the lock is released.
FindTableFull(c, q, macs) ==
  /\ Occupied(table) = Slot
  /\ Fail(c, Tail(q), macs)
  /\ UNCHANGED vcVars

Claim(c, q, macs, reserved) ==
  \/ JoinPair(c, q, macs, reserved)
  \/ TakeSlot(c, q, macs, reserved)
  \/ FindTableFull(c, q, macs)

\* (mutation) the address stays reserved when it is promoted
PromoteKeepsReservation(c) ==
  LET macs == [connectedMacs EXCEPT ![AddrOf[c]] = @ + 1] IN
  IF LockFree
  THEN Claim(c, <<Add(c)>>, macs, connectingMacs)
  ELSE /\ connectedMacs' = macs
       /\ lockq' = Append(lockq, Add(c))
       /\ stage' = [stage EXCEPT ![c] = "claim_wait"]
       /\ UNCHANGED <<vcVars, connectingMacs, home, client, closing>>

\* The reservation becomes a connected address and the task asks for GLOBAL_LOCK.
Promote(c) ==
  LET macs == [connectedMacs EXCEPT ![AddrOf[c]] = @ + 1]
      reserved == connectingMacs \ {AddrOf[c]}
  IN
  IF LockFree
  THEN Claim(c, <<Add(c)>>, macs, reserved)
  ELSE /\ connectingMacs' = reserved /\ connectedMacs' = macs
       /\ lockq' = Append(lockq, Add(c))
       /\ stage' = [stage EXCEPT ![c] = "claim_wait"]
       /\ UNCHANGED <<vcVars, home, client, closing>>

\* A controller that advertised in pairing mode is paired first.
InitializeDone(c) ==
  /\ stage[c] = "initialize" /\ link[c]
  /\ IF c \notin PairingMode
     THEN Promote(c)
     ELSE /\ stage' = [stage EXCEPT ![c] = "pair_wait"]
          /\ UNCHANGED <<slotVars, connectingMacs, connectedMacs, home, client, closing>>
  /\ UNCHANGED <<connLock, link, drop, closeVars, stopping>>

\* initialize() disconnects by itself before it re-raises.
InitializeRaises(c) ==
  /\ stage[c] = "initialize"
  /\ IF link[c]
     THEN /\ closing' = closing \cup {c}
          /\ stage' = [stage EXCEPT ![c] = "init_abort"]
          /\ UNCHANGED <<lockq, connectingMacs, connectedMacs, home, client>>
     ELSE Fail(c, lockq, connectedMacs)
  /\ UNCHANGED <<vcVars, connLock, link, drop, closeVars, stopping>>

InitializeAborted(c) ==
  /\ stage[c] = "init_abort" /\ c \notin closing
  /\ Fail(c, lockq, connectedMacs)
  /\ UNCHANGED <<vcVars, connLock, link, drop, closeVars, stopping>>

PairStart(c) ==
  /\ stage[c] = "pair_wait" /\ connLock = {}
  /\ connLock' = {c}
  /\ stage' = [stage EXCEPT ![c] = "pair"]
  /\ UNCHANGED <<slotVars, connectingMacs, connectedMacs, home, linkVars, closeVars, stopping>>

PairDone(c) ==
  /\ stage[c] = "pair" /\ link[c]
  /\ connLock' = {}
  /\ Promote(c)
  /\ UNCHANGED <<link, drop, closeVars, stopping>>

PairRaises(c) ==
  /\ stage[c] = "pair"
  /\ connLock' = {}
  /\ Fail(c, lockq, connectedMacs)
  /\ UNCHANGED <<vcVars, link, drop, closeVars, stopping>>

AddGetsLock(c) ==
  /\ stage[c] = "claim_wait" /\ Holds(Add(c))
  /\ Claim(c, lockq, connectedMacs, connectingMacs)
  /\ UNCHANGED <<connLock, link, drop, closeVars, stopping>>

\* The pair session is active; reorder, publish, release GLOBAL_LOCK.
MergeDone(c) ==
  /\ stage[c] = "merge"
  /\ Reorder(table, members)
  /\ lockq' = Tail(lockq)
  /\ stage' = [stage EXCEPT ![c] = "virtual_device_setup"]
  /\ UNCHANGED <<made, members, running, device, connectingMacs, connectedMacs, connLock, home,
                 linkVars, closeVars, stopping>>

\* (mutation) the exception leaves GLOBAL_LOCK held
MergeRaisesHolding(c) ==
  /\ stage[c] = "merge"
  /\ Fail(c, lockq, connectedMacs)
  /\ UNCHANGED <<vcVars, connLock, link, drop, closeVars, stopping>>

\* Activating the pair session raises: the controller stays in the slot it joined.
MergeRaises(c) ==
  /\ stage[c] = "merge"
  /\ Fail(c, Tail(lockq), connectedMacs)
  /\ UNCHANGED <<vcVars, connLock, link, drop, closeVars, stopping>>

\* The finally clause discards the address here too.
SetupDone(c) ==
  /\ stage[c] = "virtual_device_setup"
  /\ SetupSucceeds(home[c])
  /\ stage' = [stage EXCEPT ![c] = "ready"]
  /\ home' = [home EXCEPT ![c] = NoVc]
  /\ connectingMacs' = connectingMacs \ {AddrOf[c]}
  /\ UNCHANGED <<lockq, table, made, members, running, player, connectedMacs, connLock,
                 linkVars, closeVars, stopping>>

\* The except clause does not free the slot; it relies on the disconnect
\* callback of the controller it disconnects.
SetupFails(c) ==
  /\ stage[c] = "virtual_device_setup"
  /\ SetupRaises(home[c])
  /\ Fail(c, lockq, connectedMacs)
  /\ UNCHANGED <<table, made, members, running, player, connLock, link, drop, closeVars, stopping>>

-----------------------------------------------------------------------------
(* disconnected_controller *)

\* Its critical section, entered with lock queue q: the slot is freed, and the
\* half that may remain is re-initialised.
EvictLocked(c, q) == Evict(c) /\ lockq' = q

DropGoto(c, s) == drop' = [drop EXCEPT ![c] = s]

\* (mutation) the address of a lost controller is not forgotten
EnterDropRemembers(c) ==
  /\ UNCHANGED connectedMacs
  /\ IF LockFree
     THEN EvictLocked(c, <<Drop(c)>>) /\ DropGoto(c, "reinit")
     ELSE lockq' = Append(lockq, Drop(c)) /\ DropGoto(c, "wait") /\ UNCHANGED vcVars

\* (mutation) the slot is freed without GLOBAL_LOCK
EnterDropUnlocked(c) ==
  /\ connectedMacs' = Forget(connectedMacs, AddrOf[c])
  /\ EvictLocked(c, Append(lockq, Drop(c))) /\ DropGoto(c, "reinit")

\* The callback up to its first suspension: the address is forgotten, and with
\* nobody on GLOBAL_LOCK the slot too.
EnterDrop(c) ==
  /\ connectedMacs' = Forget(connectedMacs, AddrOf[c])
  /\ IF LockFree
     THEN EvictLocked(c, <<Drop(c)>>) /\ DropGoto(c, "reinit")
     ELSE lockq' = Append(lockq, Drop(c)) /\ DropGoto(c, "wait") /\ UNCHANGED vcVars

\* First step of the task: its log line reads controller.client.address, so
\* with client already None the task dies of an AttributeError here.
DropStart(c) ==
  /\ drop[c] = "start"
  /\ IF client[c]
     THEN EnterDrop(c)
     ELSE DropGoto(c, "none") /\ UNCHANGED <<slotVars, connectedMacs>>
  /\ UNCHANGED <<connectingMacs, connLock, stage, home, link, client, closing, closeVars, stopping>>

DropGetsLock(c) ==
  /\ drop[c] = "wait" /\ Holds(Drop(c))
  /\ EvictLocked(c, lockq)
  /\ DropGoto(c, "reinit")
  /\ UNCHANGED <<taskVars, link, client, closing, closeVars, stopping>>

\* (mutation) the players are not renumbered
DropReordersNothing(c) ==
  /\ drop[c] = "reinit"
  /\ IF stopping
     THEN lockq' = Tail(lockq) /\ DropGoto(c, "none")
     ELSE DropGoto(c, "leds") /\ UNCHANGED lockq
  /\ UNCHANGED <<vcVars, taskVars, link, client, closing, closeVars, stopping>>

\* A session that is stopping leaves at once; otherwise reorder and publish, then
\* the LEDs.
DropReorders(c) ==
  /\ drop[c] = "reinit"
  /\ IF stopping
     THEN lockq' = Tail(lockq) /\ DropGoto(c, "none") /\ UNCHANGED <<table, player>>
     ELSE Reorder(table, members) /\ DropGoto(c, "leds") /\ UNCHANGED lockq
  /\ UNCHANGED <<made, members, running, device, taskVars, link, client, closing, closeVars, stopping>>

\* (mutation) GLOBAL_LOCK is not released
DropDoneHolding(c) ==
  /\ drop[c] = "leds"
  /\ DropGoto(c, "none")
  /\ UNCHANGED <<slotVars, taskVars, link, client, closing, closeVars, stopping>>

DropDone(c) ==
  /\ drop[c] = "leds"
  /\ lockq' = Tail(lockq)
  /\ DropGoto(c, "none")
  /\ UNCHANGED <<vcVars, taskVars, link, client, closing, closeVars, stopping>>

-----------------------------------------------------------------------------
(* The radio, and Controller.disconnect *)

\* The callback is assigned only when connect_ble() has returned.
Armed(c) == stage[c] # "winrt_connect"

LinkDrop(a) ==
  LET gone == {c \in Controller : AddrOf[c] = a /\ link[c]} IN
  /\ gone # {}
  /\ link' = [c \in Controller |-> link[c] /\ c \notin gone]
  /\ drop' = [c \in Controller |-> IF c \in gone /\ Armed(c) THEN "start" ELSE drop[c]]
  /\ UNCHANGED <<slotVars, taskVars, client, closing, closeVars, stopping>>

\* Controller.disconnect returns: client = None, and the add task that waited
\* for it runs its finally clause.
DisconnectReturns(c) ==
  /\ closing' = closing \ {c}
  /\ client' = [client EXCEPT ![c] = FALSE]
  /\ IF stage[c] = "fail_disconnect"
     THEN /\ stage' = [stage EXCEPT ![c] = "failed"]
          /\ connectingMacs' = connectingMacs \ {AddrOf[c]}
     ELSE UNCHANGED <<stage, connectingMacs>>

\* client.disconnect() completes; WinRT has reported the loss just before.
DisconnectDone(c) ==
  /\ c \in closing /\ link[c]
  /\ link' = [link EXCEPT ![c] = FALSE]
  /\ EnterDrop(c)
  /\ DisconnectReturns(c)
  /\ UNCHANGED <<connLock, home, closeVars, stopping>>

\* The link was lost meanwhile, or client.disconnect() exceeds its 2 s: the
\* link stays up until it drops later, with client already None.
DisconnectGivesUp(c) ==
  /\ c \in closing
  /\ DisconnectReturns(c)
  /\ UNCHANGED <<slotVars, connectedMacs, connLock, home, link, drop, closeVars, stopping>>

-----------------------------------------------------------------------------
(* VirtualController.disconnect, from auto-disconnect or the GUI *)

CloseStart(v) ==
  LET ours == {members[v][n] : n \in DOMAIN members[v]} IN
  /\ MayClose /\ InTable(v) /\ vcStage[v] = "idle"
  /\ running[v] \/ device[v] \/ ours # {}
  /\ running' = [running EXCEPT ![v] = FALSE]
  /\ device' = [device EXCEPT ![v] = FALSE]
  /\ closing' = closing \cup {c \in ours : client[c] /\ link[c]}
  /\ vcStage' = [vcStage EXCEPT ![v] = "closing"]
  /\ UNCHANGED <<lockq, table, made, members, player, taskVars, link, client, drop, vcTodo, stopping>>

\* gather() of the disconnects is over; on_disconnected_callback for each.
CloseGathered(v) ==
  /\ vcStage[v] = "closing"
  /\ \A n \in DOMAIN members[v] : members[v][n] \notin closing
  /\ vcStage' = [vcStage EXCEPT ![v] = "notify"]
  /\ vcTodo' = [vcTodo EXCEPT ![v] = members[v]]
  /\ UNCHANGED <<slotVars, taskVars, linkVars, stopping>>

CloseGoto(v, s) == vcStage' = [vcStage EXCEPT ![v] = s]
Done(v) == CloseGoto(v, "notify") /\ vcTodo' = [vcTodo EXCEPT ![v] = Tail(@)]

CloseLocked(v, q) ==
  /\ EvictLocked(Head(vcTodo[v]), q)
  /\ CloseGoto(v, "reinit")

\* The callback, awaited inline; its AttributeError is swallowed.
CloseNotify(v) ==
  /\ vcStage[v] = "notify" /\ vcTodo[v] # <<>>
  /\ LET c == Head(vcTodo[v]) IN
     IF client[c]
     THEN /\ connectedMacs' = Forget(connectedMacs, AddrOf[c])
          /\ IF LockFree
             THEN CloseLocked(v, <<Close(v)>>)
             ELSE lockq' = Append(lockq, Close(v)) /\ CloseGoto(v, "wait") /\ UNCHANGED vcVars
          /\ UNCHANGED vcTodo
     ELSE Done(v) /\ UNCHANGED <<slotVars, connectedMacs>>
  /\ UNCHANGED <<connectingMacs, connLock, stage, home, linkVars, stopping>>

CloseGetsLock(v) ==
  /\ vcStage[v] = "wait" /\ Holds(Close(v))
  /\ CloseLocked(v, lockq)
  /\ UNCHANGED <<taskVars, linkVars, vcTodo, stopping>>

CloseReorders(v) ==
  /\ vcStage[v] = "reinit"
  /\ IF stopping
     THEN lockq' = Tail(lockq) /\ Done(v) /\ UNCHANGED <<table, player>>
     ELSE Reorder(table, members) /\ CloseGoto(v, "leds") /\ UNCHANGED <<lockq, vcTodo>>
  /\ UNCHANGED <<made, members, running, device, taskVars, linkVars, stopping>>

CloseReleases(v) ==
  /\ vcStage[v] = "leds"
  /\ lockq' = Tail(lockq)
  /\ Done(v)
  /\ UNCHANGED <<vcVars, taskVars, linkVars, stopping>>

\* self.controllers.clear(), whatever slot still holds this object.
CloseEnd(v) ==
  /\ vcStage[v] = "notify" /\ vcTodo[v] = <<>>
  /\ members' = [members EXCEPT ![v] = <<>>]
  /\ vcStage' = [vcStage EXCEPT ![v] = "idle"]
  /\ UNCHANGED <<lockq, table, made, running, device, player, taskVars, linkVars, vcTodo, stopping>>

\* The GUI quits or the machine suspends.
Stop ==
  /\ MayStop /\ ~stopping
  /\ stopping' = TRUE
  /\ UNCHANGED <<slotVars, taskVars, linkVars, closeVars>>

-----------------------------------------------------------------------------
Init ==
  /\ SlotsInit
  /\ connectingMacs = {}
  /\ connectedMacs = [a \in Addr |-> 0]
  /\ connLock = {}
  /\ stage = [c \in Controller |-> "unused"]
  /\ home = [c \in Controller |-> NoVc]
  /\ link = [c \in Controller |-> FALSE]
  /\ client = [c \in Controller |-> FALSE]
  /\ closing = {}
  /\ drop = [c \in Controller |-> "none"]
  /\ vcStage = [v \in VcId |-> "idle"]
  /\ vcTodo = [v \in VcId |-> <<>>]
  /\ stopping = FALSE

\* Steps of the coroutines, which the event loop runs on its own
AddStep(c) ==
  \/ ScanGetsLock(c) \/ ConnectStart(c) \/ LinkUp(c) \/ ConnectDone(c) \/ ConnectRaises(c)
  \/ InitializeDone(c) \/ InitializeRaises(c) \/ InitializeAborted(c)
  \/ PairStart(c) \/ PairDone(c) \/ PairRaises(c)
  \/ AddGetsLock(c) \/ MergeDone(c) \/ MergeRaises(c)
  \/ SetupDone(c) \/ SetupFails(c) \/ RollbackGetsLock(c)
DropStep(c) == DropStart(c) \/ DropGetsLock(c) \/ DropReorders(c) \/ DropDone(c)
DisconnectStep(c) == DisconnectDone(c) \/ DisconnectGivesUp(c)
CloseStep(v) ==
  \/ CloseGathered(v) \/ CloseNotify(v) \/ CloseGetsLock(v)
  \/ CloseReorders(v) \/ CloseReleases(v) \/ CloseEnd(v)

\* Nothing is going on: every task and callback is over.
Quiet ==
  /\ LockFree /\ closing = {}
  /\ \A c \in Controller : stage[c] \in {"unused", "ready", "failed"} /\ drop[c] = "none"
  /\ \A v \in VcId : vcStage[v] = "idle"

\* Standing still is a deadlock unless nothing is going on.
AtRest == Quiet /\ UNCHANGED vars

Next ==
  \/ \E c \in Controller : Advertise(c) \/ AddStep(c) \/ DropStep(c) \/ DisconnectStep(c)
  \/ \E v \in VcId : CloseStart(v) \/ CloseStep(v)
  \/ \E a \in Addr : LinkDrop(a)
  \/ Stop
  \/ AtRest

Spec == Init /\ [][Next]_vars

\* The event loop runs every task that is ready, WinRT and the driver answer or
\* time out, and asyncio.Lock serves CONNECTION_LOCK's waiters in turn.  Nothing
\* is assumed of the radio, the scanner, the host-side close or the GUI.
Fairness ==
  /\ \A c \in Controller :
       /\ WF_vars(AddStep(c)) /\ WF_vars(DropStep(c)) /\ WF_vars(DisconnectStep(c))
       /\ SF_vars(ConnectStart(c)) /\ SF_vars(PairStart(c))
  /\ \A v \in VcId : WF_vars(CloseStep(v))

FairSpec == Spec /\ Fairness

-----------------------------------------------------------------------------
(* Safety *)

\* GLOBAL_LOCK protects every critical section that spans an await: whoever is
\* in the middle of one is the holder, so no two of them overlap.
CriticalSectionsExclusive ==
  /\ \A c \in Controller : stage[c] = "merge" => Holds(Add(c))
  /\ \A c \in Controller : drop[c] \in {"reinit", "leds"} => Holds(Drop(c))
  /\ \A v \in VcId : vcStage[v] \in {"reinit", "leds"} => Holds(Close(v))

\* An address is reserved only while some attempt on it is still on its way to
\* a connection: a reservation that outlived its task would keep the scanner
\* from ever connecting that controller again.
NoLeakedReservation ==
  \A a \in connectingMacs : \E c \in Controller : AddrOf[c] = a /\ stage[c] \in Reserving

\* A virtual device exists only for a running VirtualController in the table:
\* a setup_virtual_device() that was still pending when its slot was freed
\* never leaves a device that no slot owns.
NoZombieDevice == \A v \in VcId : device[v] => running[v] /\ InTable(v)

\* A VirtualController with two controllers drives one left and one right
\* Joy-Con, and none drives more.
PairsOpposite ==
  \A v \in VcId :
    Len(members[v]) > 1 =>
      Len(members[v]) = 2 /\ {Kind[members[v][n]] : n \in 1 .. 2} = {"left", "right"}

\* With nobody inside the lock the players are 1, 2, ... without a hole, each
\* VirtualController carrying the number of its slot.
PlayersNumbered == LockFree /\ ~stopping => PlayersInOrder

\* A controller whose add_controller came to its end drives a slot for as long
\* as its link is up.
ReadyIsDriven ==
  \A c \in Controller : stage[c] = "ready" /\ link[c] => VcOf(c) # NoVc

\* Once nothing is going on, every slot is driven by controllers that are there.
NoStaleSlot ==
  Quiet /\ ~stopping =>
    \A v \in VcId : InTable(v) => members[v] # <<>> /\ \A n \in DOMAIN members[v] : link[members[v][n]]

\* A slot is emptied only when its VirtualController lost its last controller.
SlotFreedWhenEmpty ==
  [][\A v \in VcId : InTable(v) /\ ~InTable(v)' => members'[v] = <<>>]_vars

\* Once nothing is going on, only devices with a link count as connected.
ConnectedIsLinked ==
  Quiet /\ ~stopping => \A a \in Addr : connectedMacs[a] > 0 => Linked(a)

\* No VirtualController that the host closed is left in the table.
NoClosedSlot == \A v \in VcId : vcStage[v] = "idle" /\ (InTable(v) => running[v])

\* Unless the host closed a slot and left it in the table (which it does when a disconnect
\* times out, and then nothing frees the slot): a controller whose add_controller came to
\* its end drives a slot for as long as its link is up, and, once nothing is going on, only
\* devices with a link count as connected.
UsableUnlessClosed == NoClosedSlot => ReadyIsDriven /\ ConnectedIsLinked

-----------------------------------------------------------------------------
(* Liveness *)

\* Every accepted advertisement comes to an end: a usable controller or a failure.
AttemptsEnd ==
  \A c \in Controller : stage[c] # "unused" ~> stage[c] \in {"ready", "failed"}

\* A disconnect callback that was scheduled runs to its end.
CallbacksEnd == \A c \in Controller : drop[c] # "none" ~> drop[c] = "none"

=============================================================================
