----------------------------- MODULE BridgeRoute -----------------------------
(***************************************************************************)
(* The ESP32-S3 bridge route of run_discovery in src/src/discoverer.py:    *)
(* bridge_event_callback on the serial reader's dispatch thread, the       *)
(* coroutines it posts to the event loop, add_esp32_channel,               *)
(* esp32_disconnected_controller and the status loop with its watchdogs.   *)
(* The other end of the serial line is BridgeFirmware, the player slots    *)
(* are PlayerSlots.                                                        *)
(*                                                                         *)
(* Timers are abstracted to "may fire": the 0.8 s of a retry, the 12 s and *)
(* 45 s of the watchdogs.  The pairing handshake changes no state here and *)
(* its errors are swallowed, so bridge_pending_pair is left out.           *)
(***************************************************************************)
EXTENDS PlayerSlots, BridgeFirmware

CONSTANTS
  NoController,    \* not a Controller
  MacOf,           \* the device a Controller object stands for
  CombineJoycons,  \* CONFIG.combine_joycons
  Groups,          \* MAX_ESP32S3_GROUPS, 4 in the code
  MissLimit,       \* 3 in the code
  MaxRetry,        \* 10 in the code
  MaxPosted,       \* bound: coroutines posted and not started
  MayLose          \* the USB link to the bridge may be lost

ASSUME BridgeAssumption ==
  /\ NoController \notin Controller
  /\ MacOf \in [Controller -> Mac]
  /\ CombineJoycons \in BOOLEAN
  /\ Groups \in 1 .. Slots
  /\ MissLimit \in Nat \ {0, 1}
  /\ MaxRetry \in Nat
  /\ MaxPosted \in Nat \ {0}
  /\ MayLose \in BOOLEAN

VARIABLES
  connecting,   \* bridge_connecting_macs
  connected,    \* connected_mac_addresses (this route adds an address once)
  initMacs,     \* bridge_init_macs
  retryCount,   \* bridge_retry_counts
  retrying,     \* _retry coroutines, between their awaits
  chanMap,      \* controllers_by_channel
  misses,       \* missing_counts_by_channel
  posted,       \* coroutines posted to the event loop and not started yet
  stage,        \* where the add_esp32_channel of each Controller stands
  chanOf,       \* controller.channel
  home,         \* its virtual_controller, NoVc once the task is over
  created,      \* created_virtual_controller
  initLock,     \* who holds esp32_init_lock
  removal,      \* the calls of esp32_disconnected_controller
  poll,         \* where the route's own loop stands
  pollTodo,     \* channels it still has to look at, or to tear down
  mask          \* the answer it looks at

macVars == <<connecting, connected, initMacs, retryCount>>
chanVars == <<chanMap, misses>>
addVars == <<stage, chanOf, home, created, initLock>>
pollVars == <<poll, pollTodo, mask>>
hostVars == <<macVars, retrying, chanVars, posted, addVars, removal, pollVars>>
bridgeVars == <<slotVars, fwVars, hostVars>>

\* Who calls it for a controller: the coroutine of an event, or the route's loop.
Caller == {"event", "loop"}
Stages == {"unused", "init_wait", "init", "claim_wait", "added", "device", "over"}

BridgeTypeOK ==
  /\ SlotsTypeOK /\ FwTypeOK
  /\ connecting \subseteq Mac /\ connected \subseteq Mac /\ initMacs \subseteq Mac
  /\ retryCount \in [Mac -> 0 .. MaxRetry]
  /\ retrying \in [Mac -> {"no", "sleeping", "sending"}]
  /\ chanMap \in [Chan -> Controller \cup {NoController}]
  /\ misses \in [Chan -> 0 .. MissLimit - 1]
  /\ stage \in [Controller -> Stages]
  /\ chanOf \in [Controller -> Chan]
  /\ home \in [Controller -> VcId \cup {NoVc}]
  /\ created \in [Controller -> BOOLEAN]
  /\ initLock \in Controller \cup {NoController}
  /\ removal \in [Controller \X Caller -> {"none", "send", "wait", "reinit"}]
  /\ poll \in {"down", "arming", "idle", "answered", "looking", "teardown"}
  /\ pollTodo \subseteq Chan /\ mask \subseteq Chan

-----------------------------------------------------------------------------
(* Processes that queue for GLOBAL_LOCK *)
Add(c) == <<"add", c>>
Remove(k) == <<"remove", k>>

\* send_fire_and_forget "conn"; what is sent to a closed port is lost.
SendConn(m) == IF poll = "down" THEN UNCHANGED chVars ELSE DoConn(m)

Registered(ch) == chanMap[ch] # NoController
Armed == poll \notin {"down", "arming"}  \* BRIDGE_SCAN_ACTIVE

-----------------------------------------------------------------------------
(* bridge_event_callback, on the dispatch thread *)

Post(t) == posted' = Append(posted, t)

\* "connected" or "gatt_ready"
OnConnected(e) ==
  /\ connected' = connected \cup {e.mac}
  /\ connecting' = connecting \ {e.mac}
  /\ retryCount' = [retryCount EXCEPT ![e.mac] = 0]
  /\ IF ~Registered(e.ch) /\ e.mac \notin initMacs
     THEN initMacs' = initMacs \cup {e.mac} /\ Post(e)
     ELSE UNCHANGED <<initMacs, posted>>

\* (mutation) one retry too many
OnConnectFailOnceMore(e) ==
  /\ IF retryCount[e.mac] <= MaxRetry
     THEN /\ retryCount' = [retryCount EXCEPT ![e.mac] = @ + 1]
          /\ Post(e)
          /\ UNCHANGED connecting
     ELSE /\ retryCount' = [retryCount EXCEPT ![e.mac] = 0]
          /\ connecting' = connecting \ {e.mac}
          /\ UNCHANGED posted
  /\ UNCHANGED <<connected, initMacs>>

\* "connect_fail": a retry 0.8 s later, up to MaxRetry of them
OnConnectFail(e) ==
  /\ IF retryCount[e.mac] < MaxRetry
     THEN /\ retryCount' = [retryCount EXCEPT ![e.mac] = @ + 1]
          /\ Post(e)
          /\ UNCHANGED connecting
     ELSE /\ retryCount' = [retryCount EXCEPT ![e.mac] = 0]
          /\ connecting' = connecting \ {e.mac}
          /\ UNCHANGED posted
  /\ UNCHANGED <<connected, initMacs>>

\* "disconnected"
OnDisconnected(e) == Post(e) /\ UNCHANGED macVars

\* "scan_result" of a controller that names this bridge, or is in pairing mode
OnScanResult(e) ==
  /\ IF e.mac \in connecting \cup connected
     THEN UNCHANGED <<connecting, posted>>
     ELSE connecting' = connecting \cup {e.mac} /\ Post(e)
  /\ UNCHANGED <<connected, initMacs, retryCount>>

\* An early "connected" is answered by "disc", an early "scan_result" ignored.
Dispatch ==
  /\ poll # "down" /\ toHost # <<>> /\ Len(posted) < MaxPosted
  /\ toHost' = Tail(toHost)
  /\ LET e == Head(toHost) IN
     \/ e.ev = "connected" /\ Armed /\ OnConnected(e)
     \/ e.ev = "connect_fail" /\ OnConnectFail(e)
     \/ e.ev = "disconnected" /\ OnDisconnected(e)
     \/ e.ev = "scan_result" /\ Armed /\ OnScanResult(e)
     \/ e.ev \in {"connected", "scan_result"} /\ ~Armed /\ UNCHANGED <<macVars, posted>>
  /\ UNCHANGED <<slotVars, chVars, retrying, chanVars, addVars, removal, pollVars>>

-----------------------------------------------------------------------------
(* The coroutines it posts, started in the order they were posted *)

Unregister(ch) ==
  /\ chanMap' = [chanMap EXCEPT ![ch] = NoController]
  /\ misses' = [misses EXCEPT ![ch] = 0]

RemovalGoto(k, s) == removal' = [removal EXCEPT ![k] = s]

Started(ev) ==
  /\ posted # <<>> /\ Head(posted).ev = ev
  /\ posted' = Tail(posted)

\* _conn_directed and _conn_undirected
StartConn ==
  /\ Started("scan_result")
  /\ SendConn(Head(posted).mac)
  /\ UNCHANGED <<slotVars, toHost, macVars, retrying, chanVars, addVars, removal, pollVars>>

\* handle_disconnected: nothing to do unless the channel has its controller
StartDisconnected ==
  LET ch == Head(posted).ch IN
  /\ Started("disconnected")
  /\ Unregister(ch)
  /\ IF Registered(ch) THEN RemovalGoto(<<chanMap[ch], "event">>, "send") ELSE UNCHANGED removal
  /\ UNCHANGED <<slotVars, fwVars, macVars, retrying, addVars, pollVars>>

\* handle_connected, into add_esp32_channel up to esp32_init_lock.  A channel that
\* was taken meanwhile ends it, with the address still in bridge_init_macs.
StartConnected ==
  LET e == Head(posted) IN
  /\ Started("connected")
  /\ IF Registered(e.ch)
     THEN UNCHANGED addVars
     ELSE \E c \in Controller :
            /\ MacOf[c] = e.mac /\ stage[c] = "unused"
            /\ chanOf' = [chanOf EXCEPT ![c] = e.ch]
            /\ IF initLock = NoController
               THEN initLock' = c /\ stage' = [stage EXCEPT ![c] = "init"]
               ELSE stage' = [stage EXCEPT ![c] = "init_wait"] /\ UNCHANGED initLock
            /\ UNCHANGED <<home, created>>
  /\ UNCHANGED <<slotVars, fwVars, macVars, retrying, chanVars, removal, pollVars>>

\* _retry, one per address
StartRetry ==
  /\ Started("connect_fail")
  /\ retrying' = [retrying EXCEPT ![Head(posted).mac] = "sleeping"]
  /\ UNCHANGED <<slotVars, fwVars, macVars, chanVars, addVars, removal, pollVars>>

RetrySends(m) ==
  /\ retrying[m] = "sleeping"
  /\ retrying' = [retrying EXCEPT ![m] = "sending"]
  /\ connecting' = connecting \ {m}
  /\ SendConn(m)
  /\ UNCHANGED <<slotVars, toHost, connected, initMacs, retryCount, chanVars,
                 posted, addVars, removal, pollVars>>

RetryMarks(m) ==
  /\ retrying[m] = "sending"
  /\ retrying' = [retrying EXCEPT ![m] = "no"]
  /\ connecting' = connecting \cup {m}
  /\ UNCHANGED <<slotVars, fwVars, connected, initMacs, retryCount, chanVars, posted, addVars,
                 removal, pollVars>>

-----------------------------------------------------------------------------
(* add_esp32_channel *)

AddGoto(c, s) == stage' = [stage EXCEPT ![c] = s]

\* The end of handle_connected: its finally clause, after the controller was
\* registered for its channel, or not.
EndAdd(c) ==
  /\ AddGoto(c, "over")
  /\ initMacs' = initMacs \ {MacOf[c]}
  /\ home' = [home EXCEPT ![c] = NoVc]
  /\ created' = [created EXCEPT ![c] = FALSE]

GiveUp(c) == EndAdd(c) /\ UNCHANGED chanVars

Register(c) ==
  /\ EndAdd(c)
  /\ chanMap' = [chanMap EXCEPT ![chanOf[c]] = c]
  /\ misses' = [misses EXCEPT ![chanOf[c]] = 0]

InitGetsLock(c) ==
  /\ stage[c] = "init_wait" /\ initLock = NoController
  /\ initLock' = c
  /\ AddGoto(c, "init")
  /\ UNCHANGED <<slotVars, fwVars, macVars, retrying, chanVars, posted, chanOf, home, created,
                 removal, pollVars>>

\* A lock of an earlier session is released to nobody.
ReleaseInit(c) == initLock' = IF initLock = c THEN NoController ELSE initLock

\* initialize() raises: the address is forgotten, the link is left as it is.
InitRaises(c) ==
  /\ stage[c] = "init"
  /\ ReleaseInit(c)
  /\ connected' = connected \ {MacOf[c]}
  /\ connecting' = connecting \ {MacOf[c]}
  /\ retryCount' = [retryCount EXCEPT ![MacOf[c]] = 0]
  /\ GiveUp(c)
  /\ UNCHANGED <<slotVars, fwVars, retrying, posted, chanOf, removal, pollVars>>

\* Claiming a slot among the first Groups, with lock queue q
GroupSlots(c) ==
  {i \in 1 .. Groups : table[i] # NoVc /\
     \/ Kind[c] = "left" /\ SingleOf(table[i], "right")
     \/ Kind[c] = "right" /\ SingleOf(table[i], "left")}

JoinPair(c, q) ==
  LET v == table[First(GroupSlots(c))] IN
  /\ CombineJoycons /\ GroupSlots(c) # {}
  /\ members' = [members EXCEPT ![v] = Append(@, c)]
  /\ home' = [home EXCEPT ![c] = v]
  /\ AddGoto(c, "added") /\ created' = [created EXCEPT ![c] = FALSE]
  /\ lockq' = q
  /\ UNCHANGED <<table, made, running, device, player, initMacs, chanVars>>

TakeSlot(c, q) ==
  LET i == First({j \in 1 .. Groups : table[j] = NoVc}) IN
  /\ \E j \in 1 .. Groups : table[j] = NoVc
  /\ Create(c)
  /\ table' = [table EXCEPT ![i] = NewVc]
  /\ player' = [player EXCEPT ![NewVc] = i]
  /\ home' = [home EXCEPT ![c] = NewVc]
  /\ AddGoto(c, "added") /\ created' = [created EXCEPT ![c] = TRUE]
  /\ lockq' = q
  /\ UNCHANGED <<initMacs, chanVars>>

\* No group left: controller.disconnect() only sends "disc".
FindGroupsFull(c, q) ==
  /\ \A j \in 1 .. Groups : table[j] # NoVc
  /\ GiveUp(c)
  /\ lockq' = Tail(q)
  /\ UNCHANGED vcVars

Claim(c, q) == JoinPair(c, q) \/ TakeSlot(c, q) \/ FindGroupsFull(c, q)

\* initialize() succeeds, the controller is paired if need be; GLOBAL_LOCK.
InitDone(c) ==
  /\ stage[c] = "init"
  /\ ReleaseInit(c)
  /\ connected' = connected \cup {MacOf[c]}
  /\ connecting' = connecting \ {MacOf[c]}
  /\ IF LockFree
     THEN Claim(c, <<Add(c)>>)
     ELSE /\ lockq' = Append(lockq, Add(c))
          /\ AddGoto(c, "claim_wait")
          /\ UNCHANGED <<vcVars, initMacs, chanVars, home, created>>
  /\ UNCHANGED <<fwVars, retryCount, retrying, posted, chanOf, removal, pollVars>>

AddGetsLock(c) ==
  /\ stage[c] = "claim_wait" /\ Holds(Add(c))
  /\ Claim(c, lockq)
  /\ UNCHANGED <<fwVars, connecting, connected, retryCount, retrying, posted,
                 chanOf, initLock, removal, pollVars>>

\* init_added_controller() returns: reorder, publish, LEDs, release.  Only a new
\* VirtualController still needs its device.
AddedDone(c) ==
  /\ stage[c] = "added"
  /\ Reorder(table, members)
  /\ lockq' = Tail(lockq)
  /\ IF created[c]
     THEN AddGoto(c, "device") /\ UNCHANGED <<initMacs, home, created, chanVars>>
     ELSE Register(c)
  /\ UNCHANGED <<made, members, running, device, fwVars, connecting, connected, retryCount,
                 retrying, posted, chanOf, initLock, removal, pollVars>>

\* It raises: the controller stays in the slot it took.
AddedRaises(c) ==
  /\ stage[c] = "added"
  /\ lockq' = Tail(lockq)
  /\ GiveUp(c)
  /\ UNCHANGED <<vcVars, fwVars, connecting, connected, retryCount, retrying, posted, chanOf,
                 initLock, removal, pollVars>>

DeviceDone(c) ==
  /\ stage[c] = "device"
  /\ SetupSucceeds(home[c])
  /\ Register(c)
  /\ UNCHANGED <<lockq, table, made, members, running, player, fwVars, connecting, connected,
                 retryCount, retrying, posted, chanOf, initLock, removal, pollVars>>

DeviceRaises(c) ==
  /\ stage[c] = "device"
  /\ SetupRaises(home[c])
  /\ GiveUp(c)
  /\ UNCHANGED <<lockq, table, made, members, running, player, fwVars, connecting, connected,
                 retryCount, retrying, posted, chanOf, initLock, removal, pollVars>>

-----------------------------------------------------------------------------
(* esp32_disconnected_controller *)

EvictLocked(k, q) == Evict(k[1]) /\ lockq' = q /\ RemovalGoto(k, "reinit")

\* (mutation) the channel stays registered
RemoveKeepsChannel(k) ==
  LET m == MacOf[k[1]] IN
  /\ removal[k] = "send"
  /\ connected' = connected \ {m} /\ connecting' = connecting \ {m}
  /\ retryCount' = [retryCount EXCEPT ![m] = 0]
  /\ IF LockFree
     THEN EvictLocked(k, <<Remove(k)>>)
     ELSE lockq' = Append(lockq, Remove(k)) /\ RemovalGoto(k, "wait") /\ UNCHANGED vcVars
  /\ UNCHANGED <<fwVars, initMacs, chanVars, retrying, posted, addVars, pollVars>>

\* Both "disc" and "scan on" are sent: the channel and the address are forgotten.
RemoveClears(k) ==
  LET m == MacOf[k[1]] IN
  /\ removal[k] = "send"
  /\ Unregister(chanOf[k[1]])
  /\ connected' = connected \ {m} /\ connecting' = connecting \ {m}
  /\ retryCount' = [retryCount EXCEPT ![m] = 0]
  /\ IF LockFree
     THEN EvictLocked(k, <<Remove(k)>>)
     ELSE lockq' = Append(lockq, Remove(k)) /\ RemovalGoto(k, "wait") /\ UNCHANGED vcVars
  /\ UNCHANGED <<fwVars, initMacs, retrying, posted, addVars, pollVars>>

RemoveGetsLock(k) ==
  /\ removal[k] = "wait" /\ Holds(Remove(k))
  /\ EvictLocked(k, lockq)
  /\ UNCHANGED <<fwVars, macVars, retrying, chanVars, posted, addVars, pollVars>>

\* (mutation) the players are not renumbered
RemoveReordersNothing(k) ==
  /\ removal[k] = "reinit"
  /\ lockq' = Tail(lockq)
  /\ RemovalGoto(k, "none")
  /\ UNCHANGED <<vcVars, fwVars, macVars, retrying, chanVars, posted, addVars, pollVars>>

RemoveReorders(k) ==
  /\ removal[k] = "reinit"
  /\ Reorder(table, members)
  /\ lockq' = Tail(lockq)
  /\ RemovalGoto(k, "none")
  /\ UNCHANGED <<made, members, running, device, fwVars, macVars, retrying, chanVars, posted,
                 addVars, pollVars>>

-----------------------------------------------------------------------------
(* The route's loop: status polls, watchdogs, teardown, a new session *)

LoopWaits == \E c \in Controller : removal[<<c, "loop">>] # "none"
RegisteredChans == {ch \in Chan : Registered(ch)}

PollGoto(p) == poll' = p

\* "status lite": the firmware answers at some moment, the answer is read later.
PollAnswer ==
  /\ poll = "idle"
  /\ PollGoto("answered")
  /\ mask' = ActiveMask
  /\ UNCHANGED <<slotVars, fwVars, macVars, retrying, chanVars, posted, addVars, removal, pollTodo>>

\* A channel is looked at: missing for the MissLimit-th time in a row it is torn
\* down, and the loop waits for that.
Overdue(ch) == ch \notin mask /\ misses[ch] + 1 >= MissLimit

Looked(S) ==
  [ch \in Chan |-> IF ch \notin S THEN misses[ch] ELSE IF ch \in mask THEN 0 ELSE misses[ch] + 1]

\* The rest of todo, none of which is overdue; then the watchdogs.  12 s in
\* bridge_connecting_macs or 45 s in bridge_init_macs, and the address is taken
\* out.  (The "cancel" of the first is no command of the firmware.)
LooksAtAll(todo) ==
  /\ \A ch \in todo : ~Overdue(ch)
  /\ misses' = Looked(todo)
  /\ PollGoto("idle") /\ mask' = {} /\ pollTodo' = {}
  /\ \/ UNCHANGED macVars
     \/ \E m \in connecting :
          /\ connecting' = connecting \ {m}
          /\ retryCount' = [retryCount EXCEPT ![m] = 0]
          /\ UNCHANGED <<connected, initMacs>>
     \/ \E m \in initMacs :
          /\ initMacs' = initMacs \ {m}
          /\ connected' = connected \ {m} /\ connecting' = connecting \ {m}
          /\ UNCHANGED retryCount
  /\ UNCHANGED <<chanMap, removal>>

TearsDown(todo) ==
  \E ch \in todo, before \in SUBSET todo :
    /\ Overdue(ch) /\ ch \notin before /\ \A d \in before : ~Overdue(d)
    /\ misses' = [Looked(before) EXCEPT ![ch] = 0]
    /\ chanMap' = [chanMap EXCEPT ![ch] = NoController]
    /\ connected' = connected \ {MacOf[chanMap[ch]]}
    /\ RemovalGoto(<<chanMap[ch], "loop">>, "send")
    /\ PollGoto("looking") /\ pollTodo' = todo \ (before \cup {ch})
    /\ UNCHANGED <<connecting, initMacs, retryCount, mask>>

PollReads ==
  /\ \/ poll = "answered" /\ (LooksAtAll(RegisteredChans) \/ TearsDown(RegisteredChans))
     \/ poll = "looking" /\ ~LoopWaits /\ (LooksAtAll(pollTodo) \/ TearsDown(pollTodo))
  /\ UNCHANGED <<slotVars, fwVars, retrying, posted, addVars>>

\* Too many unanswered polls: the loop ends and its controllers are torn down.
BridgeLost ==
  /\ MayLose /\ poll = "idle"
  /\ PollGoto("teardown")
  /\ pollTodo' = RegisteredChans
  /\ UNCHANGED <<slotVars, fwVars, macVars, retrying, chanVars, posted, addVars, removal, mask>>

TeardownRemoves(ch) ==
  /\ poll = "teardown" /\ ch \in pollTodo /\ ~LoopWaits
  /\ pollTodo' = pollTodo \ {ch}
  /\ IF Registered(ch) THEN RemovalGoto(<<chanMap[ch], "loop">>, "send") ELSE UNCHANGED removal
  /\ UNCHANGED <<slotVars, fwVars, macVars, retrying, chanVars, posted, addVars, poll, mask>>

NoChannels ==
  /\ chanMap' = [ch \in Chan |-> NoController]
  /\ misses' = [ch \in Chan |-> 0]

\* The port is closed, with what was under way on it.
TeardownEnds ==
  /\ poll = "teardown" /\ pollTodo = {} /\ ~LoopWaits
  /\ PollGoto("down")
  /\ NoChannels
  /\ toHost' = <<>>
  /\ UNCHANGED <<slotVars, chVars, macVars, retrying, posted, addVars, removal, pollTodo, mask>>

\* A new session: fresh sets (connected_mac_addresses is the route's and stays),
\* and whatever the bridge still holds is dropped.
SessionOpens ==
  /\ poll = "down"
  /\ PollGoto("arming")
  /\ DoDiscAll
  /\ toHost' = <<>>
  /\ connecting' = {} /\ initMacs' = {}
  /\ retryCount' = [m \in Mac |-> 0]
  /\ initLock' = NoController
  /\ UNCHANGED <<slotVars, connected, retrying, chanVars, posted, stage, chanOf,
                 home, created, removal, pollTodo, mask>>

SessionArmed ==
  /\ poll = "arming"
  /\ PollGoto("idle")
  /\ NoChannels
  /\ UNCHANGED <<slotVars, fwVars, macVars, retrying, posted, addVars, removal, pollTodo, mask>>

-----------------------------------------------------------------------------
BridgeInit ==
  /\ SlotsInit /\ FwInit
  /\ connecting = {} /\ connected = {} /\ initMacs = {}
  /\ retryCount = [m \in Mac |-> 0]
  /\ retrying = [m \in Mac |-> "no"]
  /\ chanMap = [ch \in Chan |-> NoController]
  /\ misses = [ch \in Chan |-> 0]
  /\ posted = <<>>
  /\ stage = [c \in Controller |-> "unused"]
  /\ chanOf = [c \in Controller |-> 0]
  /\ home = [c \in Controller |-> NoVc]
  /\ created = [c \in Controller |-> FALSE]
  /\ initLock = NoController
  /\ removal = [k \in Controller \X Caller |-> "none"]
  /\ poll = "down" /\ pollTodo = {} /\ mask = {}

\* An unused Controller object bounds how often a device comes back.
Advertise(m) ==
  /\ \E c \in Controller : MacOf[c] = m /\ stage[c] = "unused"
  /\ \A n \in DOMAIN toHost : toHost[n].mac # m
  /\ \A n \in DOMAIN posted : posted[n].mac # m
  /\ FwScanResult(m)
  /\ UNCHANGED <<slotVars, hostVars>>

FirmwareStep ==
  /\ \/ FwOpen
     \/ \E ch \in Chan : FwReady(ch) \/ FwOpenFails(ch)
  /\ UNCHANGED <<slotVars, hostVars>>

LinkDown(m) == FwLinkDown(m) /\ UNCHANGED <<slotVars, hostVars>>

TaskStep == StartConn \/ StartDisconnected \/ StartConnected \/ StartRetry
RetryStep(m) == RetrySends(m) \/ RetryMarks(m)
AddStep(c) ==
  \/ InitGetsLock(c) \/ InitRaises(c) \/ InitDone(c) \/ AddGetsLock(c)
  \/ AddedDone(c) \/ AddedRaises(c) \/ DeviceDone(c) \/ DeviceRaises(c)
RemoveStep(k) == RemoveClears(k) \/ RemoveGetsLock(k) \/ RemoveReorders(k)
PollStep ==
  \/ PollAnswer \/ PollReads \/ TeardownEnds \/ SessionOpens \/ SessionArmed
  \/ \E ch \in Chan : TeardownRemoves(ch)

BridgeNext ==
  \/ FirmwareStep \/ Dispatch \/ TaskStep \/ PollStep \/ BridgeLost
  \/ \E m \in Mac :
       Advertise(m) \/ LinkDown(m) \/ RetryStep(m)
  \/ \E c \in Controller : AddStep(c)
  \/ \E k \in Controller \X Caller : RemoveStep(k)

BridgeSpec == BridgeInit /\ [][BridgeNext]_bridgeVars

-----------------------------------------------------------------------------
(* Safety *)

\* The controller that a channel's input goes to drives a slot, however the event
\* of its disconnect, the polls that miss it and the loss of the bridge meet.
RegisteredIsDriven == \A ch \in RegisteredChans : VcOf(chanMap[ch]) # NoVc

\* With nobody inside the lock the players are 1, 2, ... without a hole.
BridgePlayers == LockFree => PlayersInOrder

\* The variables keep their types, and with nobody inside the lock the players are 1, 2, ...
\* in the order of the slots.
BridgeInOrder == BridgeTypeOK /\ BridgePlayers

\* Nothing is under way on the host or on the line.
BridgeQuiet ==
  /\ poll = "idle" /\ toHost = <<>> /\ posted = <<>> /\ connecting = {}
  /\ \A m \in Mac : retrying[m] = "no"
  /\ \A c \in Controller : stage[c] \in {"unused", "over"}
  /\ \A k \in Controller \X Caller : removal[k] = "none"

\* Once nothing is under way, an address that counts as connected has a link or a
\* channel: "a stale entry left in connected_mac_addresses makes the scan_result
\* filter drop the controller's reconnect ads forever".
NoStaleAddress ==
  BridgeQuiet =>
    \A m \in connected : FwLinked(m) \/ \E ch \in RegisteredChans : MacOf[chanMap[ch]] = m

=============================================================================
