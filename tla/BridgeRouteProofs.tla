--------------------------- MODULE BridgeRouteProofs ---------------------------
(***************************************************************************)
(* Safety of BridgeRoute for every set of devices and controllers, every   *)
(* number of channels, slots and groups, and every event queue.  BridgeInv *)
(* at the end of the module is the inductive invariant; its conjuncts have *)
(* step lemmas of their own:                                               *)
(*   FwInv, EventsTyped      FirmwareKept, EventsKept                      *)
(*   AddsTyped, LoopTyped    AddsKept, LoopKept                            *)
(*   SlotsInv                SlotsKept        the slot table, the devices  *)
(*   BridgeLock              LockKept         GLOBAL_LOCK's queue          *)
(*   BridgeOrder             OrderKept        the players' numbers         *)
(*   OwnersInv               OwnersStep       who drives which slot, and   *)
(*                                            who owns which channel       *)
(* With OwnersInv every step is one of SlotPool or a stutter.              *)
(***************************************************************************)
EXTENDS BridgeRoute, PlayerSlotsProofs

\* What the firmware tells the host.
Event == [ev : {"connected", "connect_fail", "disconnected"}, ch : Chan, mac : Mac]
         \cup [ev : {"scan_result"}, ch : {NoChan}, mac : Mac]

\* A channel in use has an address, and the line carries events.
FwInv ==
  /\ FwTypeOK
  /\ toHost \in Seq(Event)
  /\ \A ch \in Chan : Used(ch) => fw[ch].mac \in Mac

\* LowestOf chooses a member, whatever set of channels is not empty.
LEMMA LowestIsMember ==
  ASSUME NEW S \in SUBSET Chan, S # {}
  PROVE  LowestOf(S) \in S
<1>1. S \in SUBSET Nat
  BY FirmwareAssumption DEF Chan
<1>2. LowestOf(S) = First(S)
  BY DEF LowestOf, First
<1> QED BY <1>1, <1>2, FirstIsLeast

\* The shapes an entry of the channel table takes.
LEMMA Entries ==
  /\ Unused \in [mac : Mac \cup {NoMac}, st : {"free", "reserved", "open", "ready"}]
  /\ \A m \in Mac : \A s \in {"reserved", "open", "ready"} :
       [mac |-> m, st |-> s] \in [mac : Mac \cup {NoMac}, st : {"free", "reserved", "open", "ready"}]
BY DEF Unused

\* An event that is sent arrives at the end of the line, or is lost.
LEMMA EmitKeepsLine ==
  ASSUME toHost \in Seq(Event), NEW e \in Event, Emit(e)
  PROVE  toHost' \in Seq(Event)
BY AppendProperties DEF Emit

\* A channel gets an entry that is unused or has an address.
LEMMA EntryKept ==
  ASSUME FwInv, NEW ch \in Chan,
         NEW x \in [mac : Mac \cup {NoMac}, st : {"free", "reserved", "open", "ready"}],
         x.st # "free" => x.mac \in Mac, fw' = [fw EXCEPT ![ch] = x]
  PROVE  /\ fw' \in [Chan -> [mac : Mac \cup {NoMac}, st : {"free", "reserved", "open", "ready"}]]
         /\ \A d \in Chan : Used(d)' => fw'[d].mac \in Mac
<1>1. fw \in [Chan -> [mac : Mac \cup {NoMac}, st : {"free", "reserved", "open", "ready"}]]
  BY DEF FwInv, FwTypeOK
<1>2. \A d \in Chan : fw'[d] = IF d = ch THEN x ELSE fw[d]
  BY <1>1
<1> QED BY <1>1, <1>2 DEF FwInv, Used

\* "conn" and "disc_all" keep the channel table sound.
LEMMA CommandsKeepChannels ==
  ASSUME FwInv, toHost' \in Seq(Event),
         UNCHANGED chVars \/ (\E m \in Mac : SendConn(m)) \/ DoDiscAll
  PROVE  FwInv'
<1>1. /\ fw \in [Chan -> [mac : Mac \cup {NoMac}, st : {"free", "reserved", "open", "ready"}]]
      /\ pendingConn \in Chan \cup {NoChan}
  BY DEF FwInv, FwTypeOK
<1>2. CASE UNCHANGED chVars
  BY <1>2 DEF chVars, FwInv, FwTypeOK, Used
<1>3. ASSUME NEW m \in Mac, DoConn(m), FreeChans # {} PROVE FwInv'
  <2>1. LowestOf(FreeChans) \in Chan
    BY <1>3, LowestIsMember DEF FreeChans
  <2>2. PICK ch \in Chan : fw' = [fw EXCEPT ![ch] = [mac |-> m, st |-> "reserved"]] /\ pendingConn' = ch
    BY <1>3, <2>1 DEF DoConn
  <2>3. PICK x : x = [mac |-> m, st |-> "reserved"]
    OBVIOUS
  <2>4. x \in [mac : Mac \cup {NoMac}, st : {"free", "reserved", "open", "ready"}] /\ x.mac \in Mac
    BY <2>3, Entries
  <2>5. FwTypeOK' /\ \A d \in Chan : Used(d)' => fw'[d].mac \in Mac
    BY <2>2, <2>3, <2>4, EntryKept DEF FwTypeOK
  <2> QED BY <2>5 DEF FwInv
<1>4. CASE DoDiscAll /\ pendingConn # NoChan
  <2>1. pendingConn \in Chan /\ fw' = [fw EXCEPT ![pendingConn] = Unused] /\ pendingConn' = NoChan
    BY <1>1, <1>4 DEF DoDiscAll
  <2>2. Unused.st = "free"
    BY DEF Unused
  <2>3. FwTypeOK' /\ \A d \in Chan : Used(d)' => fw'[d].mac \in Mac
    BY <2>1, <2>2, Entries, EntryKept DEF FwTypeOK
  <2> QED BY <2>3 DEF FwInv
<1>5. CASE DoDiscAll /\ pendingConn = NoChan
  BY <1>5 DEF DoDiscAll, FwInv, FwTypeOK, Used
<1> QED BY <1>2, <1>3, <1>4, <1>5 DEF SendConn, DoConn

\* So do the events of the Bluetooth stack, which tell the host of a real channel.
LEMMA StackKeepsChannels ==
  ASSUME FwInv, FirmwareStep \/ \E m \in Mac : FwLinkDown(m) \/ FwScanResult(m)
  PROVE  FwInv'
<1>1. /\ fw \in [Chan -> [mac : Mac \cup {NoMac}, st : {"free", "reserved", "open", "ready"}]]
      /\ pendingConn \in Chan \cup {NoChan} /\ toHost \in Seq(Event)
      /\ \A ch \in Chan : Used(ch) => fw[ch].mac \in Mac
  BY DEF FwInv, FwTypeOK
<1>2. CASE FwOpen
  <2>1. pendingConn \in Chan /\ pendingConn' = NoChan /\ toHost' = toHost
    BY <1>1, <1>2 DEF FwOpen
  <2>2. PICK x \in {[fw[pendingConn] EXCEPT !.st = "open"], Unused} :
           fw' = [fw EXCEPT ![pendingConn] = IF Used(pendingConn) THEN x ELSE fw[pendingConn]]
    BY <1>1, <1>2, <2>1 DEF FwOpen
  <2>3. CASE Used(pendingConn)
    <3>1. fw[pendingConn].mac \in Mac /\ fw' = [fw EXCEPT ![pendingConn] = x]
      BY <1>1, <2>1, <2>2, <2>3
    <3>2. \/ x = [mac |-> fw[pendingConn].mac, st |-> "open"]
          \/ x = Unused
      BY <1>1, <2>1, <2>2
    <3>3. /\ x \in [mac : Mac \cup {NoMac}, st : {"free", "reserved", "open", "ready"}]
          /\ x.st # "free" => x.mac \in Mac
      BY <3>1, <3>2, Entries DEF Unused
    <3> QED BY <2>1, <3>1, <3>3, <1>1, EntryKept DEF FwInv, FwTypeOK
  <2>4. CASE ~Used(pendingConn)
    <3>1. fw' = fw
      BY <1>1, <2>1, <2>2, <2>4
    <3> QED BY <1>1, <2>1, <3>1 DEF FwInv, FwTypeOK, Used
  <2> QED BY <2>3, <2>4
<1>3. ASSUME NEW ch \in Chan, fw[ch].st \in {"open", "ready"}, NEW s \in {"connected", "connect_fail", "disconnected"}
      PROVE  [ev |-> s, ch |-> ch, mac |-> fw[ch].mac] \in Event
  <2>1. fw[ch].mac \in Mac
    BY <1>1, <1>3 DEF Used
  <2> QED BY <2>1 DEF Event
<1>4. ASSUME NEW ch \in Chan, FwReady(ch) PROVE FwInv'
  <2>1. /\ fw[ch].st = "open" /\ fw[ch].mac \in Mac
        /\ fw' = [fw EXCEPT ![ch] = [mac |-> fw[ch].mac, st |-> "ready"]]
        /\ Emit([ev |-> "connected", ch |-> ch, mac |-> fw[ch].mac]) /\ pendingConn' = pendingConn
    <3>1. fw[ch].st = "open" /\ fw' = [fw EXCEPT ![ch].st = "ready"]
      BY <1>4 DEF FwReady
    <3>2. [fw[ch] EXCEPT !.st = "ready"] = [mac |-> fw[ch].mac, st |-> "ready"]
      BY <1>1
    <3>3. fw' = [fw EXCEPT ![ch] = [mac |-> fw[ch].mac, st |-> "ready"]]
      BY <3>1, <3>2
    <3> QED BY <1>1, <1>4, <3>1, <3>3 DEF FwReady, Used
  <2>2. toHost' \in Seq(Event)
    BY <1>1, <1>3, <2>1, EmitKeepsLine
  <2>3. PICK x : x = [mac |-> fw[ch].mac, st |-> "ready"]
    OBVIOUS
  <2>4. x \in [mac : Mac \cup {NoMac}, st : {"free", "reserved", "open", "ready"}] /\ x.mac \in Mac
    BY <2>1, <2>3, Entries
  <2> QED BY <1>1, <2>1, <2>2, <2>3, <2>4, EntryKept DEF FwInv, FwTypeOK
<1>5. ASSUME NEW ch \in Chan, fw' = [fw EXCEPT ![ch] = Unused], pendingConn' = pendingConn,
             NEW e \in Event, Emit(e)
      PROVE  FwInv'
  <2>1. Unused.st = "free"
    BY DEF Unused
  <2> QED BY <1>1, <1>5, <2>1, Entries, EntryKept, EmitKeepsLine DEF FwInv, FwTypeOK
<1>6. ASSUME NEW ch \in Chan, FwOpenFails(ch) PROVE FwInv'
  BY <1>3, <1>5, <1>6 DEF FwOpenFails
<1>7. ASSUME NEW m \in Mac, FwLinkDown(m) PROVE FwInv'
  <2> DEFINE S == {ch \in Chan : Used(ch) /\ fw[ch].mac = m}
  <2>1. S # {}
    BY <1>7 DEF FwLinkDown, FwLinked, Used
  <2>2. ChByBda(m) \in S
    BY <2>1, LowestIsMember DEF ChByBda
  <2>3. PICK ch \in Chan : ch = ChByBda(m)
    BY <2>2
  <2>4. PICK s \in {"connect_fail", "disconnected"} : s = IF fw[ch].st = "ready" THEN "disconnected" ELSE "connect_fail"
    OBVIOUS
  <2>5. [ev |-> s, ch |-> ch, mac |-> m] \in Event
    BY DEF Event
  <2>6. fw' = [fw EXCEPT ![ch] = Unused] /\ Emit([ev |-> s, ch |-> ch, mac |-> m]) /\ pendingConn' = pendingConn
    BY <1>7, <2>3, <2>4 DEF FwLinkDown
  <2> QED BY <1>5, <2>5, <2>6
<1>8. ASSUME NEW m \in Mac, FwScanResult(m) PROVE FwInv'
  <2>1. [ev |-> "scan_result", ch |-> NoChan, mac |-> m] \in Event
    BY DEF Event
  <2> QED BY <1>1, <1>8, <2>1, EmitKeepsLine DEF FwScanResult, chVars, FwInv, FwTypeOK, Used
<1> QED BY <1>2, <1>4, <1>6, <1>7, <1>8 DEF FirmwareStep

-----------------------------------------------------------------------------
(* Events and addresses *)

EventsTyped ==
  /\ connecting \subseteq Mac /\ connected \subseteq Mac /\ initMacs \subseteq Mac
  /\ retryCount \in [Mac -> 0 .. MaxRetry]
  /\ retrying \in [Mac -> {"no", "sleeping", "sending"}]
  /\ posted \in Seq(Event)

\* An event names an address, and unless it is an advertisement a channel.
LEMMA EventFields ==
  ASSUME NEW e \in Event
  PROVE  e.mac \in Mac /\ (e.ev # "scan_result" => e.ch \in Chan)
BY DEF Event

\* The next event of a queue that is not empty, and the rest.
LEMMA NextEvent ==
  ASSUME NEW q \in Seq(Event), q # <<>>
  PROVE  Head(q) \in Event /\ Tail(q) \in Seq(Event)
BY HeadTailProperties

\* Every step keeps the firmware's table sound.
LEMMA FirmwareKept ==
  ASSUME FwInv, EventsTyped, [BridgeNext]_bridgeVars
  PROVE  FwInv'
<1>1. toHost \in Seq(Event) /\ posted \in Seq(Event) /\ <<>> \in Seq(Event)
  BY DEF FwInv, EventsTyped
<1>2. CASE UNCHANGED fwVars
  BY <1>1, <1>2, CommandsKeepChannels DEF fwVars
<1>3. CASE FirmwareStep \/ \E m \in Mac : LinkDown(m) \/ Advertise(m)
  BY <1>3, StackKeepsChannels DEF LinkDown, Advertise, FirmwareStep
<1>4. CASE Dispatch \/ TeardownEnds \/ SessionOpens
  <2>1. toHost' \in {Tail(toHost), <<>>} /\ (toHost' = Tail(toHost) => toHost # <<>> \/ toHost' = <<>>)
    BY <1>4 DEF Dispatch, TeardownEnds, SessionOpens
  <2>2. toHost' \in Seq(Event)
    BY <1>1, <2>1, NextEvent
  <2>3. UNCHANGED chVars \/ DoDiscAll
    BY <1>4 DEF Dispatch, TeardownEnds, SessionOpens
  <2> QED BY <2>2, <2>3, CommandsKeepChannels
<1>5. CASE StartConn \/ \E m \in Mac : RetrySends(m)
  <2>1. \E m \in Mac : SendConn(m)
    BY <1>1, <1>5, NextEvent, EventFields DEF StartConn, Started, RetrySends
  <2>2. toHost' = toHost
    BY <1>5 DEF StartConn, RetrySends
  <2> QED BY <1>1, <2>1, <2>2, CommandsKeepChannels
<1>6. CASE StartDisconnected \/ StartConnected \/ StartRetry \/ (\E m \in Mac : RetryMarks(m)) \/ BridgeLost
           \/ PollAnswer \/ PollReads \/ SessionArmed \/ (\E ch \in Chan : TeardownRemoves(ch))
           \/ UNCHANGED bridgeVars
  <2>1. UNCHANGED fwVars
    BY <1>6 DEF StartDisconnected, StartConnected, StartRetry, RetryMarks, BridgeLost, PollAnswer, PollReads,
                SessionArmed, TeardownRemoves, bridgeVars
  <2> QED BY <1>2, <2>1
<1>7. ASSUME NEW c \in Controller, AddStep(c) PROVE UNCHANGED fwVars
  BY <1>7 DEF AddStep, InitGetsLock, InitRaises, InitDone, AddGetsLock, AddedDone, AddedRaises, DeviceDone,
              DeviceRaises
<1>8. ASSUME NEW k \in Controller \X Caller, RemoveStep(k) PROVE UNCHANGED fwVars
  BY <1>8 DEF RemoveStep, RemoveClears, RemoveGetsLock, RemoveReorders
<1> QED BY <1>2, <1>3, <1>4, <1>5, <1>6, <1>7, <1>8 DEF BridgeNext, TaskStep, PollStep, RetryStep

\* An event that is handled keeps the addresses' sets and the retries typed.
LEMMA DispatchKeepsEvents ==
  ASSUME FwInv, EventsTyped, Dispatch
  PROVE  EventsTyped'
<1>1. PICK e \in Event : e = Head(toHost)
  BY NextEvent DEF FwInv, Dispatch
<1>2. /\ e.mac \in Mac /\ retryCount \in [Mac -> 0 .. MaxRetry] /\ MaxRetry \in Nat /\ 0 \in 0 .. MaxRetry
      /\ retrying' = retrying /\ posted \in Seq(Event)
  BY EventFields, BridgeAssumption DEF EventsTyped, Dispatch
<1>3. Append(posted, e) \in Seq(Event)
  BY <1>2, AppendProperties
<1>4. posted' = posted \/ posted' = Append(posted, e)
  BY <1>1 DEF Dispatch, OnConnected, OnConnectFail, OnDisconnected, OnScanResult, Post
<1>5. retryCount' \in [Mac -> 0 .. MaxRetry]
  <2>1. CASE OnConnectFail(e) /\ retryCount[e.mac] < MaxRetry
    <3>1. retryCount[e.mac] + 1 \in 0 .. MaxRetry
      BY <1>2, <2>1
    <3>2. retryCount' = [retryCount EXCEPT ![e.mac] = retryCount[e.mac] + 1]
      BY <1>2, <2>1 DEF OnConnectFail
    <3> QED BY <1>2, <3>1, <3>2
  <2>2. CASE retryCount' = [retryCount EXCEPT ![e.mac] = 0] \/ retryCount' = retryCount
    BY <1>2, <2>2
  <2> QED BY <1>1, <2>1, <2>2 DEF Dispatch, OnConnected, OnConnectFail, OnDisconnected, OnScanResult, macVars
<1>6. connecting' \subseteq Mac /\ connected' \subseteq Mac /\ initMacs' \subseteq Mac
  BY <1>1, <1>2 DEF EventsTyped, Dispatch, OnConnected, OnConnectFail, OnDisconnected, OnScanResult, macVars
<1> QED BY <1>2, <1>3, <1>4, <1>5, <1>6 DEF EventsTyped

\* Every other step takes addresses out, or adds one of Mac.
LEMMA EventsKept ==
  ASSUME FwInv, EventsTyped, [BridgeNext]_bridgeVars
  PROVE  EventsTyped'
<1>1. /\ posted \in Seq(Event) /\ MaxRetry \in Nat /\ MacOf \in [Controller -> Mac]
      /\ retryCount \in [Mac -> 0 .. MaxRetry] /\ 0 \in 0 .. MaxRetry
      /\ retrying \in [Mac -> {"no", "sleeping", "sending"}]
  BY BridgeAssumption DEF EventsTyped
<1>2. ASSUME UNCHANGED retryCount \/ (\E m \in Mac : retryCount' = [retryCount EXCEPT ![m] = 0])
             \/ retryCount' = [m \in Mac |-> 0],
             connecting' \subseteq connecting \cup Mac, connected' \subseteq connected \cup Mac,
             initMacs' \subseteq initMacs,
             retrying' = retrying \/ \E m \in Mac, s \in {"no", "sleeping", "sending"} :
                                       retrying' = [retrying EXCEPT ![m] = s],
             posted' = posted \/ (posted # <<>> /\ posted' = Tail(posted))
      PROVE  EventsTyped'
  <2>1. retryCount' \in [Mac -> 0 .. MaxRetry]
    BY <1>1, <1>2
  <2>2. retrying' \in [Mac -> {"no", "sleeping", "sending"}]
    BY <1>1, <1>2
  <2>3. posted' \in Seq(Event)
    BY <1>1, <1>2, NextEvent
  <2> QED BY <1>2, <2>1, <2>2, <2>3 DEF EventsTyped
<1>3. ASSUME NEW m \in Mac, Advertise(m) \/ LinkDown(m) PROVE EventsTyped'
  BY <1>2, <1>3 DEF Advertise, LinkDown, hostVars, macVars
<1>4. CASE FirmwareStep \/ BridgeLost \/ UNCHANGED bridgeVars
  BY <1>2, <1>4 DEF FirmwareStep, BridgeLost, bridgeVars, hostVars, macVars
<1>5. CASE TaskStep
  <2>1. Head(posted).mac \in Mac
    BY <1>1, <1>5, NextEvent, EventFields DEF TaskStep, StartConn, StartDisconnected, StartConnected, StartRetry,
                Started
  <2>2. retrying' = retrying \/ retrying' = [retrying EXCEPT ![Head(posted).mac] = "sleeping"]
    BY <1>5 DEF TaskStep, StartConn, StartDisconnected, StartConnected, StartRetry
  <2>3. UNCHANGED macVars /\ posted # <<>> /\ posted' = Tail(posted)
    BY <1>5 DEF TaskStep, StartConn, StartDisconnected, StartConnected, StartRetry, Started
  <2> QED BY <1>2, <2>1, <2>2, <2>3 DEF macVars
<1>6. ASSUME NEW m \in Mac, RetryStep(m) PROVE EventsTyped'
  BY <1>2, <1>6 DEF RetryStep, RetrySends, RetryMarks
<1>7. ASSUME NEW c \in Controller, AddStep(c) PROVE EventsTyped'
  <2>1. MacOf[c] \in Mac
    BY <1>1
  <2>2. posted' = posted /\ retrying' = retrying
    BY <1>7 DEF AddStep, InitGetsLock, InitRaises, InitDone, AddGetsLock, AddedDone, AddedRaises, DeviceDone,
              DeviceRaises
  <2>3. retryCount' = retryCount \/ retryCount' = [retryCount EXCEPT ![MacOf[c]] = 0]
    BY <1>7 DEF AddStep, InitGetsLock, InitRaises, InitDone, AddGetsLock, AddedDone, AddedRaises, DeviceDone,
              DeviceRaises, macVars
  <2>4. connecting' \subseteq connecting /\ connected' \subseteq connected \cup Mac
    BY <1>7, <2>1 DEF AddStep, InitGetsLock, InitRaises, InitDone, AddGetsLock, AddedDone, AddedRaises, DeviceDone,
              DeviceRaises, macVars
  <2>5. initMacs' \subseteq initMacs
    BY <1>7 DEF AddStep, InitGetsLock, InitRaises, InitDone, AddGetsLock, AddedDone, AddedRaises, DeviceDone,
              DeviceRaises, macVars, Claim, JoinPair, TakeSlot, FindGroupsFull, GiveUp, Register, EndAdd
  <2> QED BY <1>2, <2>1, <2>2, <2>3, <2>4, <2>5
<1>8. ASSUME NEW k \in Controller \X Caller, RemoveStep(k) PROVE EventsTyped'
  <2>1. MacOf[k[1]] \in Mac
    BY <1>1
  <2> QED BY <1>2, <1>8, <2>1 DEF RemoveStep, RemoveClears, RemoveGetsLock, RemoveReorders, macVars
<1>9. CASE PollStep
  <2>1. posted' = posted /\ retrying' = retrying
    BY <1>9 DEF PollStep, PollAnswer, PollReads, TeardownEnds, SessionOpens, SessionArmed, TeardownRemoves
  <2>2. CASE PollReads
    <3>1. PICK todo : LooksAtAll(todo) \/ TearsDown(todo)
      BY <2>2 DEF PollReads
    <3>2. CASE LooksAtAll(todo)
      <4>1. /\ connecting' \subseteq connecting /\ connected' \subseteq connected
            /\ initMacs' \subseteq initMacs
        BY <3>2 DEF LooksAtAll, macVars
      <4>2. retryCount' = retryCount \/ \E m \in Mac : retryCount' = [retryCount EXCEPT ![m] = 0]
        BY <3>2 DEF LooksAtAll, macVars, EventsTyped
      <4> QED BY <1>2, <2>1, <4>1, <4>2
    <3>3. CASE TearsDown(todo)
      BY <1>2, <2>1, <3>3 DEF TearsDown
    <3> QED BY <3>1, <3>2, <3>3
  <2>3. CASE SessionOpens
    BY <1>2, <2>1, <2>3 DEF SessionOpens
  <2>4. CASE PollAnswer \/ TeardownEnds \/ SessionArmed \/ \E ch \in Chan : TeardownRemoves(ch)
    BY <1>2, <2>1, <2>4 DEF PollAnswer, TeardownEnds, SessionArmed, TeardownRemoves, macVars
  <2> QED BY <1>9, <2>2, <2>3, <2>4 DEF PollStep
<1> QED BY <1>3, <1>4, <1>5, <1>6, <1>7, <1>8, <1>9, DispatchKeepsEvents DEF BridgeNext

-----------------------------------------------------------------------------
(* The tasks and the route's loop *)

AddsTyped ==
  /\ stage \in [Controller -> Stages]
  /\ chanOf \in [Controller -> Chan]
  /\ home \in [Controller -> VcId \cup {NoVc}]
  /\ created \in [Controller -> BOOLEAN]
  /\ initLock \in Controller \cup {NoController}

Counts == 0 .. MissLimit - 1

LoopTyped ==
  /\ chanMap \in [Chan -> Controller \cup {NoController}]
  /\ misses \in [Chan -> Counts]
  /\ removal \in [Controller \X Caller -> {"none", "send", "wait", "reinit"}]
  /\ poll \in {"down", "arming", "idle", "answered", "looking", "teardown"}
  /\ pollTodo \subseteq Chan /\ mask \subseteq Chan

\* A Joy-Con that claims a pair joins a single one of the other side in the table.
LEMMA JoinedSlot ==
  ASSUME SlotsInv, NEW c \in Controller, NEW q, JoinPair(c, q)
  PROVE  \E v \in VcId :
           /\ InTable(v) /\ Len(members[v]) = 1 /\ {Kind[c], Kind[members[v][1]]} = {"left", "right"}
           /\ members' = [members EXCEPT ![v] = Append(@, c)]
           /\ home' = [home EXCEPT ![c] = v]
<1> DEFINE S == GroupSlots(c)
<1>1. S \in SUBSET Nat /\ S # {} /\ S \subseteq Slot
  BY BridgeAssumption, SlotsAssumption DEF JoinPair, GroupSlots, Slot
<1>2. First(S) \in S
  <2> HIDE DEF S
  <2> QED BY <1>1, FirstIsLeast
<1>3. PICK i \in Slot : i = First(S) /\ i \in S
  BY <1>1, <1>2
<1>4. table[i] \in VcId \cup {NoVc} /\ table[i] # NoVc
  BY <1>3 DEF SlotsInv, SlotsTypeOK, GroupSlots
<1>5. PICK v \in VcId : v = table[i]
  BY <1>4
<1>6. Len(members[v]) = 1 /\ {Kind[c], Kind[members[v][1]]} = {"left", "right"}
  BY <1>3, <1>5 DEF GroupSlots, SingleOf
<1>7. members' = [members EXCEPT ![v] = Append(@, c)] /\ home' = [home EXCEPT ![c] = v]
  BY <1>3, <1>5 DEF JoinPair
<1> QED BY <1>3, <1>5, <1>6, <1>7 DEF InTable

\* Any other controller takes the first empty slot of the groups.
LEMMA TakenSlot ==
  ASSUME SlotsInv, NEW c \in Controller, NEW q, TakeSlot(c, q)
  PROVE  /\ NewVc \in VcId /\ made < MaxVc
         /\ \E i \in Slot :
              /\ i \in 1 .. Groups /\ table[i] = NoVc /\ \A j \in 1 .. Groups : table[j] = NoVc => i <= j
              /\ table' = [table EXCEPT ![i] = NewVc] /\ player' = [player EXCEPT ![NewVc] = i]
<1> DEFINE S == {j \in 1 .. Groups : table[j] = NoVc}
<1>1. S \in SUBSET Nat /\ S # {} /\ 1 .. Groups \subseteq Slot
  BY BridgeAssumption, SlotsAssumption DEF TakeSlot, Slot
<1>2. First(S) \in S /\ \A j \in S : First(S) <= j
  <2> HIDE DEF S
  <2> QED BY <1>1, FirstIsLeast
<1>3. PICK i \in Slot : i = First(S)
  BY <1>1, <1>2
<1>4. /\ i \in 1 .. Groups /\ table[i] = NoVc /\ \A j \in 1 .. Groups : table[j] = NoVc => i <= j
  BY <1>2, <1>3
<1>5. table' = [table EXCEPT ![i] = NewVc] /\ player' = [player EXCEPT ![NewVc] = i]
  BY <1>3 DEF TakeSlot
<1>6. NewVc \in VcId /\ made < MaxVc
  BY SlotsAssumption DEF TakeSlot, Create, NewVc, VcId, SlotsInv, SlotsTypeOK
<1> QED BY <1>4, <1>5, <1>6

\* What a claim does to the controller's own task.
LEMMA ClaimKeepsTask ==
  ASSUME SlotsInv, AddsTyped, NEW c \in Controller, NEW q, Claim(c, q)
  PROVE  /\ stage' \in [Controller -> Stages] /\ home' \in [Controller -> VcId \cup {NoVc}]
         /\ created' \in [Controller -> BOOLEAN]
<1>1. /\ stage \in [Controller -> Stages] /\ home \in [Controller -> VcId \cup {NoVc}]
      /\ created \in [Controller -> BOOLEAN]
  BY DEF AddsTyped
<1>2. \E s \in {"added", "over"} : stage' = [stage EXCEPT ![c] = s]
  BY DEF Claim, JoinPair, TakeSlot, FindGroupsFull, GiveUp, EndAdd, AddGoto
<1>3. \E v \in VcId \cup {NoVc} : home' = [home EXCEPT ![c] = v]
  <2>1. CASE JoinPair(c, q)
    BY <2>1, JoinedSlot
  <2>2. CASE TakeSlot(c, q)
    BY <2>2, TakenSlot DEF TakeSlot
  <2>3. CASE FindGroupsFull(c, q)
    BY <2>3 DEF FindGroupsFull, GiveUp, EndAdd
  <2> QED BY <2>1, <2>2, <2>3 DEF Claim
<1>4. \E b \in BOOLEAN : created' = [created EXCEPT ![c] = b]
  BY DEF Claim, JoinPair, TakeSlot, FindGroupsFull, GiveUp, EndAdd
<1> QED BY <1>1, <1>2, <1>3, <1>4 DEF Stages

\* The tasks keep their types.
LEMMA AddsKept ==
  ASSUME SlotsInv, EventsTyped, AddsTyped, [BridgeNext]_bridgeVars
  PROVE  AddsTyped'
<1>1. /\ stage \in [Controller -> Stages] /\ home \in [Controller -> VcId \cup {NoVc}]
      /\ created \in [Controller -> BOOLEAN] /\ chanOf \in [Controller -> Chan]
      /\ initLock \in Controller \cup {NoController}
  BY DEF AddsTyped
<1>2. CASE StartConnected
  <2>1. Head(posted).ch \in Chan
    <3>1. Head(posted) \in Event /\ Head(posted).ev = "connected"
      BY <1>2, NextEvent DEF StartConnected, Started, EventsTyped
    <3> QED BY <3>1, EventFields
  <2>2. CASE UNCHANGED addVars
    BY <1>1, <2>2 DEF addVars, AddsTyped
  <2>3. ASSUME NEW c \in Controller, chanOf' = [chanOf EXCEPT ![c] = Head(posted).ch],
               \/ initLock' = c /\ stage' = [stage EXCEPT ![c] = "init"]
               \/ initLock' = initLock /\ stage' = [stage EXCEPT ![c] = "init_wait"],
               UNCHANGED <<home, created>>
        PROVE  AddsTyped'
    BY <1>1, <2>1, <2>3 DEF AddsTyped, Stages
  <2> QED BY <1>2, <2>2, <2>3 DEF StartConnected
<1>3. ASSUME NEW c \in Controller, AddStep(c) PROVE AddsTyped'
  <2>1. chanOf' = chanOf /\ initLock' \in {initLock, c, NoController}
    BY <1>3 DEF AddStep, InitGetsLock, InitRaises, InitDone, AddGetsLock, AddedDone, AddedRaises, DeviceDone,
              DeviceRaises, ReleaseInit
  <2>2. CASE \E q : Claim(c, q)
    BY <1>1, <2>1, <2>2, ClaimKeepsTask DEF AddsTyped
  <2>3. ASSUME NEW s \in Stages, stage' = [stage EXCEPT ![c] = s],
               home' = home \/ home' = [home EXCEPT ![c] = NoVc],
               created' = created \/ created' = [created EXCEPT ![c] = FALSE]
        PROVE  AddsTyped'
    BY <1>1, <2>1, <2>3 DEF AddsTyped
  <2>4. CASE AddGoto(c, "init") \/ AddGoto(c, "claim_wait") \/ AddGoto(c, "device")
    <3>1. (\E s \in Stages : stage' = [stage EXCEPT ![c] = s])
      BY <2>4 DEF AddGoto, Stages
    <3>2. CASE UNCHANGED <<home, created>>
      BY <2>3, <3>1, <3>2
    <3>3. CASE \E q : Claim(c, q)
      BY <2>2, <3>3
    <3>4. CASE EndAdd(c)
      BY <2>3, <3>1, <3>4 DEF EndAdd
    <3> QED BY <1>3, <3>2, <3>3, <3>4 DEF AddStep, InitGetsLock, InitRaises, InitDone, AddGetsLock, AddedDone,
                AddedRaises, DeviceDone, DeviceRaises, GiveUp, Register
  <2>5. CASE EndAdd(c)
    BY <2>3, <2>5 DEF EndAdd, AddGoto, Stages
  <2> QED BY <1>3, <2>2, <2>4, <2>5 DEF AddStep, InitGetsLock, InitRaises, InitDone, AddGetsLock, AddedDone,
                AddedRaises, DeviceDone, DeviceRaises, GiveUp, Register
<1>4. CASE SessionOpens
  BY <1>1, <1>4 DEF SessionOpens, AddsTyped
<1>5. CASE UNCHANGED addVars
  BY <1>1, <1>5 DEF addVars, AddsTyped
<1>6. CASE \/ FirmwareStep \/ Dispatch \/ BridgeLost \/ UNCHANGED bridgeVars
           \/ StartConn \/ StartDisconnected \/ StartRetry
           \/ \E m \in Mac : Advertise(m) \/ LinkDown(m) \/ RetryStep(m)
           \/ \E k \in Controller \X Caller : RemoveStep(k)
           \/ PollAnswer \/ PollReads \/ TeardownEnds \/ SessionArmed
           \/ \E ch \in Chan : TeardownRemoves(ch)
  <2>1. UNCHANGED addVars
    BY <1>6 DEF FirmwareStep, Dispatch, BridgeLost, bridgeVars, hostVars, StartConn, StartDisconnected,
         StartRetry, Advertise, LinkDown, RetryStep, RetrySends, RetryMarks, RemoveStep, RemoveClears,
         RemoveGetsLock, RemoveReorders, PollAnswer, PollReads, TeardownEnds, SessionArmed, TeardownRemoves
  <2> QED BY <1>5, <2>1
<1> QED BY <1>2, <1>3, <1>4, <1>6 DEF BridgeNext, TaskStep, PollStep

\* Channels that are looked at and not torn down stay within the limit.
LEMMA LookingCounts ==
  ASSUME LoopTyped, NEW S, \A ch \in S : ~Overdue(ch)
  PROVE  Looked(S) \in [Chan -> Counts]
<1>1. misses \in [Chan -> Counts] /\ MissLimit \in Nat \ {0, 1}
  BY BridgeAssumption DEF LoopTyped
<1>2. 0 \in Counts /\ Counts \subseteq Nat
  BY <1>1 DEF Counts
<1>3. ASSUME NEW ch \in Chan, ch \in S, ch \notin mask PROVE misses[ch] + 1 \in Counts
  <2>1. ~(misses[ch] + 1 >= MissLimit)
    BY <1>3 DEF Overdue
  <2>2. misses[ch] \in Nat
    BY <1>1, <1>2
  <2> QED BY <1>1, <2>1, <2>2 DEF Counts
<1> QED BY <1>1, <1>2, <1>3 DEF Looked

\* The loop and the removals keep their types.
LEMMA LoopKept ==
  ASSUME EventsTyped, AddsTyped, LoopTyped, [BridgeNext]_bridgeVars
  PROVE  LoopTyped'
<1>1. /\ chanMap \in [Chan -> Controller \cup {NoController}] /\ misses \in [Chan -> Counts]
      /\ removal \in [Controller \X Caller -> {"none", "send", "wait", "reinit"}]
      /\ poll \in {"down", "arming", "idle", "answered", "looking", "teardown"}
      /\ pollTodo \subseteq Chan /\ mask \subseteq Chan
      /\ chanOf \in [Controller -> Chan]
  BY DEF LoopTyped, AddsTyped
<1>2. 0 \in Counts
  BY BridgeAssumption DEF Counts
<1>3. ASSUME chanMap' = chanMap \/ (\E ch \in Chan, c \in Controller \cup {NoController} :
                                      chanMap' = [chanMap EXCEPT ![ch] = c]),
             misses' = misses \/ (\E ch \in Chan : misses' = [misses EXCEPT ![ch] = 0]),
             removal' \in [Controller \X Caller -> {"none", "send", "wait", "reinit"}],
             UNCHANGED pollVars
      PROVE  LoopTyped'
  <2>1. chanMap' \in [Chan -> Controller \cup {NoController}]
    BY <1>1, <1>3
  <2>2. misses' \in [Chan -> Counts]
    BY <1>1, <1>2, <1>3
  <2> QED BY <1>1, <1>3, <2>1, <2>2 DEF LoopTyped, pollVars
<1>4. ASSUME NEW ch \in Chan, Unregister(ch), UNCHANGED pollVars,
             removal' \in [Controller \X Caller -> {"none", "send", "wait", "reinit"}]
      PROVE  LoopTyped'
  <2>1. chanMap' = [chanMap EXCEPT ![ch] = NoController] /\ misses' = [misses EXCEPT ![ch] = 0]
    BY <1>4 DEF Unregister
  <2> QED BY <1>3, <1>4, <2>1
<1>5. CASE StartDisconnected
  <2>1. Head(posted).ch \in Chan
    <3>1. Head(posted) \in Event /\ Head(posted).ev = "disconnected"
      BY <1>5, NextEvent DEF StartDisconnected, Started, EventsTyped
    <3> QED BY <3>1, EventFields
  <2>2. UNCHANGED pollVars /\ Unregister(Head(posted).ch)
    BY <1>5 DEF StartDisconnected
  <2>3. removal' = removal \/ removal' = [removal EXCEPT ![<<chanMap[Head(posted).ch], "event">>] = "send"]
    BY <1>5 DEF StartDisconnected, RemovalGoto
  <2>4. removal' \in [Controller \X Caller -> {"none", "send", "wait", "reinit"}]
    BY <1>1, <2>3
  <2> QED BY <1>4, <2>1, <2>2, <2>4
<1>6. ASSUME NEW c \in Controller, AddStep(c) PROVE LoopTyped'
  <2>1. UNCHANGED <<removal, pollVars>>
    BY <1>6 DEF AddStep, InitGetsLock, InitRaises, InitDone, AddGetsLock, AddedDone, AddedRaises, DeviceDone,
              DeviceRaises
  <2>2. UNCHANGED chanVars \/ Register(c)
    BY <1>6 DEF AddStep, InitGetsLock, InitRaises, InitDone, AddGetsLock, AddedDone, AddedRaises, DeviceDone,
              DeviceRaises, Claim, JoinPair, TakeSlot, FindGroupsFull, GiveUp
  <2> QED BY <1>1, <1>3, <2>1, <2>2 DEF chanVars, Register
<1>7. ASSUME NEW k \in Controller \X Caller, RemoveStep(k) PROVE LoopTyped'
  <2>1. chanOf[k[1]] \in Chan
    BY <1>1
  <2>2. UNCHANGED pollVars
    BY <1>7 DEF RemoveStep, RemoveClears, RemoveGetsLock, RemoveReorders
  <2>3. \E s \in {"none", "wait", "reinit"} : removal' = [removal EXCEPT ![k] = s]
    BY <1>7 DEF RemoveStep, RemoveClears, RemoveGetsLock, RemoveReorders, EvictLocked, RemovalGoto
  <2>4. UNCHANGED chanVars \/ Unregister(chanOf[k[1]])
    BY <1>7 DEF RemoveStep, RemoveClears, RemoveGetsLock, RemoveReorders
  <2>5. removal' \in [Controller \X Caller -> {"none", "send", "wait", "reinit"}]
    BY <1>1, <2>3
  <2>6. CASE UNCHANGED chanVars
    BY <1>3, <2>2, <2>5, <2>6 DEF chanVars
  <2>7. CASE Unregister(chanOf[k[1]])
    BY <1>4, <2>1, <2>2, <2>5, <2>7
  <2> QED BY <2>4, <2>6, <2>7
<1>8. CASE UNCHANGED <<chanVars, removal, pollVars>>
  BY <1>1, <1>3, <1>8 DEF chanVars
<1>9. CASE \/ FirmwareStep \/ Dispatch \/ UNCHANGED bridgeVars \/ StartConn \/ StartConnected \/ StartRetry
           \/ \E m \in Mac : Advertise(m) \/ LinkDown(m) \/ RetryStep(m)
  <2>1. UNCHANGED <<chanVars, removal, pollVars>>
    BY <1>9 DEF FirmwareStep, Dispatch, bridgeVars, hostVars, StartConn, StartConnected, StartRetry, Advertise,
                LinkDown, RetryStep, RetrySends, RetryMarks
  <2> QED BY <1>8, <2>1
<1>10. CASE PollReads
  <2>1. PICK todo \in SUBSET Chan : LooksAtAll(todo) \/ TearsDown(todo)
    BY <1>1, <1>10 DEF PollReads, RegisteredChans
  <2>2. CASE LooksAtAll(todo)
    <3>1. misses' \in [Chan -> Counts]
      BY <2>2, LookingCounts DEF LooksAtAll
    <3> QED BY <1>1, <2>2, <3>1 DEF LooksAtAll, PollGoto, LoopTyped
  <2>3. CASE TearsDown(todo)
    <3>1. PICK ch \in todo, before \in SUBSET todo :
             /\ \A d \in before : ~Overdue(d)
             /\ misses' = [Looked(before) EXCEPT ![ch] = 0]
             /\ chanMap' = [chanMap EXCEPT ![ch] = NoController]
             /\ RemovalGoto(<<chanMap[ch], "loop">>, "send")
             /\ PollGoto("looking") /\ pollTodo' = todo \ (before \cup {ch})
             /\ mask' = mask
      BY <2>3 DEF TearsDown
    <3>2. Looked(before) \in [Chan -> Counts]
      BY <3>1, LookingCounts
    <3>3. misses' \in [Chan -> Counts]
      BY <1>2, <3>1, <3>2
    <3>4. chanMap' \in [Chan -> Controller \cup {NoController}]
      BY <1>1, <3>1
    <3>5. removal' \in [Controller \X Caller -> {"none", "send", "wait", "reinit"}]
      BY <1>1, <3>1 DEF RemovalGoto
    <3> QED BY <1>1, <3>1, <3>3, <3>4, <3>5 DEF LoopTyped, PollGoto
  <2> QED BY <2>1, <2>2, <2>3
<1>11. CASE PollAnswer \/ BridgeLost \/ SessionOpens
  BY <1>1, <1>11 DEF PollAnswer, BridgeLost, SessionOpens, PollGoto, ActiveMask, RegisteredChans, chanVars, LoopTyped
<1>12. CASE TeardownEnds \/ SessionArmed
  <2>1. NoChannels
    BY <1>12 DEF TeardownEnds, SessionArmed
  <2>2. chanMap' \in [Chan -> Controller \cup {NoController}] /\ misses' \in [Chan -> Counts]
    BY <1>2, <2>1 DEF NoChannels
  <2> QED BY <1>1, <1>12, <2>2 DEF TeardownEnds, SessionArmed, PollGoto, LoopTyped
<1>13. ASSUME NEW ch \in Chan, TeardownRemoves(ch) PROVE LoopTyped'
  <2>1. removal' \in [Controller \X Caller -> {"none", "send", "wait", "reinit"}]
    BY <1>1, <1>13 DEF TeardownRemoves, RemovalGoto
  <2> QED BY <1>1, <1>13, <2>1 DEF TeardownRemoves, chanVars, LoopTyped
<1> QED BY <1>5, <1>6, <1>7, <1>9, <1>10, <1>11, <1>12, <1>13 DEF BridgeNext, TaskStep, PollStep

-----------------------------------------------------------------------------
(* The slots *)

\* A claim keeps the slots sound.
LEMMA ClaimKeepsSlots ==
  ASSUME SlotsInv, NEW c \in Controller, NEW q, Claim(c, q)
  PROVE  SlotsInv'
<1>1. CASE JoinPair(c, q)
  <2>1. PICK v \in VcId : members' = [members EXCEPT ![v] = Append(@, c)]
    BY <1>1, JoinedSlot
  <2>2. members \in [VcId -> Seq(Controller)]
    BY DEF SlotsInv, SlotsTypeOK
  <2>3. members' \in [VcId -> Seq(Controller)]
    <3>1. \A w \in VcId : Append(members[w], c) \in Seq(Controller)
      BY <2>2, AppendProperties
    <3> QED BY <2>1, <2>2, <3>1
  <2>4. UNCHANGED <<table, made, running, device, player>>
    BY <1>1 DEF JoinPair
  <2> QED BY <2>3, <2>4 DEF SlotsInv, SlotsTypeOK, OncePerTable, InTable
<1>2. CASE TakeSlot(c, q)
  <2>1. PICK i \in Slot : /\ table[i] = NoVc /\ table' = [table EXCEPT ![i] = NewVc]
                          /\ player' = [player EXCEPT ![NewVc] = i]
    BY <1>2, TakenSlot
  <2> QED BY <1>2, <2>1, TakingSeat DEF TakeSlot
<1>3. CASE FindGroupsFull(c, q)
  BY <1>3, SlotsAlone DEF FindGroupsFull
<1> QED BY <1>1, <1>2, <1>3 DEF Claim

\* The steps of the route that touch the slots, or the queue for GLOBAL_LOCK.
SlotsTouched ==
  \/ \E c \in Controller :
       InitDone(c) \/ AddGetsLock(c) \/ AddedDone(c) \/ AddedRaises(c) \/ DeviceDone(c) \/ DeviceRaises(c)
  \/ \E k \in Controller \X Caller : RemoveStep(k)

\* No other step touches them.
LEMMA OthersLeaveSlots ==
  ASSUME [BridgeNext]_bridgeVars, ~SlotsTouched
  PROVE  UNCHANGED slotVars
<1>1. CASE \/ FirmwareStep \/ Dispatch \/ BridgeLost \/ UNCHANGED bridgeVars
           \/ \E m \in Mac : Advertise(m) \/ LinkDown(m) \/ RetryStep(m)
  BY <1>1 DEF FirmwareStep, Dispatch, BridgeLost, bridgeVars, Advertise, LinkDown, RetryStep, RetrySends, RetryMarks
<1>2. CASE TaskStep \/ PollStep
  BY <1>2 DEF TaskStep, StartConn, StartDisconnected, StartConnected, StartRetry, PollStep, PollAnswer, PollReads,
         TeardownEnds, SessionOpens, SessionArmed, TeardownRemoves
<1>3. CASE \E c \in Controller : InitGetsLock(c) \/ InitRaises(c)
  BY <1>3 DEF InitGetsLock, InitRaises
<1> QED BY <1>1, <1>2, <1>3 DEF BridgeNext, SlotsTouched, AddStep

\* Every step keeps the slots sound.
LEMMA SlotsKept ==
  ASSUME SlotsInv, [BridgeNext]_bridgeVars
  PROVE  SlotsInv'
<1>1. ASSUME NEW c \in Controller,
             InitDone(c) \/ AddGetsLock(c) \/ AddedDone(c) \/ AddedRaises(c) \/ DeviceDone(c) \/ DeviceRaises(c)
      PROVE  SlotsInv'
  <2>1. CASE (\E q : Claim(c, q)) \/ UNCHANGED vcVars
    BY <2>1, ClaimKeepsSlots, SlotsAlone
  <2>2. CASE AddedDone(c)
    BY <2>2, ReorderKeepsSlots DEF AddedDone
  <2>3. CASE DeviceDone(c) \/ DeviceRaises(c)
    <3>1. device' \in Attempted(device, home[c]) /\ UNCHANGED <<table, made, members, running, player>>
      BY <2>3 DEF DeviceDone, DeviceRaises, SetupSucceeds, SetupRaises
    <3> QED BY <3>1, AttemptKeepsSlots
  <2> QED BY <1>1, <2>1, <2>2, <2>3 DEF InitDone, AddGetsLock, AddedRaises
<1>2. ASSUME NEW k \in Controller \X Caller, RemoveStep(k) PROVE SlotsInv'
  <2>1. k[1] \in Controller
    OBVIOUS
  <2>2. CASE Evict(k[1]) \/ UNCHANGED vcVars
    BY <2>1, <2>2, EvictKeepsSlots, SlotsAlone
  <2>3. CASE RemoveReorders(k)
    BY <2>3, ReorderKeepsSlots DEF RemoveReorders
  <2> QED BY <1>2, <2>2, <2>3 DEF RemoveStep, RemoveClears, RemoveGetsLock, EvictLocked
<1>3. CASE UNCHANGED slotVars
  BY <1>3, SlotsAlone DEF slotVars
<1> QED BY <1>1, <1>2, <1>3, OthersLeaveSlots DEF SlotsTouched

-----------------------------------------------------------------------------
(* GLOBAL_LOCK and the players' order *)

\* The coroutines that take GLOBAL_LOCK.
Process == ({"add"} \X Controller) \cup ({"remove"} \X (Controller \X Caller))

\* Whoever is inside a critical section that awaits is at the head of the queue.
InsideHolds ==
  /\ \A c \in Controller : stage[c] = "added" => Holds(Add(c))
  /\ \A k \in Controller \X Caller : removal[k] = "reinit" => Holds(Remove(k))

BridgeLock == lockq \in Seq(Process) /\ InsideHolds

\* With the lock free, or in the hands of an add, the players are in order: only a removal
\* leaves a hole behind, and closes it before it releases the lock.
BridgeOrder == PlayersInOrder \/ \E k \in Controller \X Caller : Holds(Remove(k))

\* The coroutines that queue are processes, and no add is a removal.
LEMMA Processes ==
  /\ \A c \in Controller : Add(c) \in Process
  /\ \A k \in Controller \X Caller : Remove(k) \in Process
  /\ \A c, k : Add(c) # Remove(k)
  /\ \A c, d : Add(c) = Add(d) => c = d
  /\ \A k, l : Remove(k) = Remove(l) => k = l
BY DEF Process, Add, Remove

\* What joining and leaving asyncio.Lock's queue does to its head.
LEMMA QueueSteps ==
  ASSUME NEW q \in Seq(Process), NEW p \in Process
  PROVE  /\ Append(q, p) \in Seq(Process) /\ Append(q, p) # <<>>
         /\ q # <<>> => Head(Append(q, p)) = Head(q) /\ Tail(q) \in Seq(Process)
         /\ <<p>> \in Seq(Process) /\ <<p>> # <<>> /\ Head(<<p>>) = p /\ Tail(<<p>>) = <<>>
BY AppendProperties, HeadTailProperties, HeadTailAppend, EmptySeq

\* A step that leaves the holder alone keeps the discipline, if whoever comes inside is
\* the holder then.
LEMMA HolderKept ==
  ASSUME BridgeLock, lockq' \in Seq(Process),
         lockq # <<>> => lockq' # <<>> /\ Head(lockq') = Head(lockq),
         \A c \in Controller : stage'[c] = "added" => stage[c] = "added" \/ Holds(Add(c))',
         \A k \in Controller \X Caller : removal'[k] = "reinit" => removal[k] = "reinit" \/ Holds(Remove(k))'
  PROVE  BridgeLock'
BY DEF BridgeLock, InsideHolds, Holds, Add, Remove

\* A release keeps it, if the holder leaves its section and nobody enters one.
LEMMA HolderLeaves ==
  ASSUME BridgeLock, NEW p, Holds(p), lockq' = Tail(lockq),
         \A c \in Controller : stage'[c] = "added" => stage[c] = "added" /\ p # Add(c),
         \A k \in Controller \X Caller : removal'[k] = "reinit" => removal[k] = "reinit" /\ p # Remove(k)
  PROVE  BridgeLock'
<1>1. lockq \in Seq(Process) /\ lockq # <<>>
  BY DEF BridgeLock, Holds
<1>2. lockq' \in Seq(Process)
  BY <1>1, HeadTailProperties
<1>3. InsideHolds'
  BY DEF BridgeLock, InsideHolds, Holds
<1> QED BY <1>2, <1>3 DEF BridgeLock

\* A claim is inside only as the holder, and releases the lock when there is no group left.
LEMMA ClaimKeepsLock ==
  ASSUME BridgeLock, AddsTyped, NEW c \in Controller, NEW q \in Seq(Process), q # <<>>, Head(q) = Add(c),
         lockq # <<>> => lockq = q, stage[c] # "added", Claim(c, q), UNCHANGED removal
  PROVE  BridgeLock'
<1>1. stage \in [Controller -> Stages]
  BY DEF AddsTyped
<1>2. CASE JoinPair(c, q) \/ TakeSlot(c, q)
  <2>1. lockq' = q /\ stage' = [stage EXCEPT ![c] = "added"]
    BY <1>2 DEF JoinPair, TakeSlot, AddGoto
  <2>2. \A d \in Controller : stage'[d] = "added" => stage[d] = "added" \/ Holds(Add(d))'
    BY <1>1, <2>1 DEF Holds, Add
  <2> QED BY <2>1, <2>2, HolderKept
<1>3. CASE FindGroupsFull(c, q)
  <2>1. lockq' = Tail(q) /\ stage' = [stage EXCEPT ![c] = "over"]
    BY <1>3 DEF FindGroupsFull, GiveUp, EndAdd, AddGoto
  <2>2. \A d \in Controller : stage'[d] = "added" => stage[d] = "added" /\ d # c
    BY <1>1, <2>1
  <2>3. CASE lockq = <<>>
    <3>1. lockq' \in Seq(Process)
      BY <2>1, HeadTailProperties
    <3>2. InsideHolds'
      BY <2>2, <2>3 DEF BridgeLock, InsideHolds, Holds
    <3> QED BY <3>1, <3>2 DEF BridgeLock
  <2>4. CASE lockq # <<>>
    <3>1. Holds(Add(c)) /\ lockq' = Tail(lockq)
      BY <2>1, <2>4 DEF Holds
    <3> QED BY <2>2, <3>1, HolderLeaves, Processes
  <2> QED BY <2>3, <2>4
<1> QED BY <1>2, <1>3 DEF Claim

\* A removal that evicts holds the lock from then on, or waits for it.
LEMMA RemovalQueues ==
  ASSUME BridgeLock, LoopTyped, NEW k \in Controller \X Caller, removal[k] # "reinit", UNCHANGED stage,
         \/ LockFree /\ lockq' = <<Remove(k)>> /\ RemovalGoto(k, "reinit")
         \/ ~LockFree /\ lockq' = Append(lockq, Remove(k)) /\ RemovalGoto(k, "wait")
         \/ Holds(Remove(k)) /\ lockq' = lockq /\ RemovalGoto(k, "reinit")
  PROVE  BridgeLock'
<1>1. lockq \in Seq(Process) /\ removal \in [Controller \X Caller -> {"none", "send", "wait", "reinit"}]
      /\ Remove(k) \in Process
  BY Processes DEF BridgeLock, LoopTyped
<1>2. /\ lockq' \in Seq(Process)
      /\ lockq # <<>> => lockq' # <<>> /\ Head(lockq') = Head(lockq)
  BY <1>1, QueueSteps DEF LockFree
<1>3. removal'[k] = "reinit" => Holds(Remove(k))'
  <2>1. CASE LockFree
    BY <1>1, <2>1, QueueSteps DEF LockFree, Holds, Remove
  <2>2. CASE ~LockFree
    BY <1>1, <2>2 DEF LockFree, RemovalGoto, Holds, Remove
  <2> QED BY <2>1, <2>2
<1>4. \A l \in Controller \X Caller : removal'[l] = "reinit" => removal[l] = "reinit" \/ Holds(Remove(l))'
  BY <1>1, <1>3 DEF RemovalGoto
<1> QED BY <1>2, <1>4, HolderKept

\* Every step keeps the lock's discipline.
LEMMA LockKept ==
  ASSUME BridgeLock, AddsTyped, LoopTyped, [BridgeNext]_bridgeVars
  PROVE  BridgeLock'
<1>1. /\ lockq \in Seq(Process) /\ stage \in [Controller -> Stages]
      /\ removal \in [Controller \X Caller -> {"none", "send", "wait", "reinit"}]
  BY DEF BridgeLock, AddsTyped, LoopTyped
<1>2. ASSUME NEW c \in Controller,
             InitDone(c) \/ AddGetsLock(c) \/ AddedDone(c) \/ AddedRaises(c) \/ DeviceDone(c) \/ DeviceRaises(c)
      PROVE  BridgeLock'
  <2>1. removal' = removal /\ Add(c) \in Process
    BY <1>2, Processes DEF InitDone, AddGetsLock, AddedDone, AddedRaises, DeviceDone, DeviceRaises
  <2>2. CASE InitDone(c)
    <3>1. CASE LockFree
      BY <1>1, <2>1, <2>2, <3>1, ClaimKeepsLock, QueueSteps DEF InitDone, LockFree
    <3>2. CASE ~LockFree
      <4>1. lockq' = Append(lockq, Add(c)) /\ stage' = [stage EXCEPT ![c] = "claim_wait"]
        BY <2>2, <3>2 DEF InitDone, AddGoto
      <4>2. /\ lockq' \in Seq(Process)
            /\ lockq # <<>> => lockq' # <<>> /\ Head(lockq') = Head(lockq)
        BY <1>1, <2>1, <4>1, QueueSteps
      <4>3. \A d \in Controller : stage'[d] = "added" => stage[d] = "added"
        BY <1>1, <4>1
      <4> QED BY <2>1, <4>2, <4>3, HolderKept
    <3> QED BY <3>1, <3>2
  <2>3. CASE AddGetsLock(c)
    BY <1>1, <2>1, <2>3, ClaimKeepsLock DEF AddGetsLock, Holds
  <2>4. CASE AddedDone(c) \/ AddedRaises(c)
    <3>1. stage[c] = "added" /\ lockq' = Tail(lockq) /\ \E s \in {"device", "over"} : stage' = [stage EXCEPT ![c] = s]
      BY <2>4 DEF AddedDone, AddedRaises, GiveUp, Register, EndAdd, AddGoto
    <3>2. Holds(Add(c))
      BY <3>1 DEF BridgeLock, InsideHolds
    <3>3. \A d \in Controller : stage'[d] = "added" => stage[d] = "added" /\ d # c
      BY <1>1, <3>1
    <3> QED BY <2>1, <3>1, <3>2, <3>3, HolderLeaves, Processes
  <2>5. CASE DeviceDone(c) \/ DeviceRaises(c)
    <3>1. lockq' = lockq /\ stage' = [stage EXCEPT ![c] = "over"]
      BY <2>5 DEF DeviceDone, DeviceRaises, GiveUp, Register, EndAdd, AddGoto
    <3>2. \A d \in Controller : stage'[d] = "added" => stage[d] = "added"
      BY <1>1, <3>1
    <3> QED BY <1>1, <2>1, <3>1, <3>2, HolderKept
  <2> QED BY <1>2, <2>2, <2>3, <2>4, <2>5
<1>3. ASSUME NEW k \in Controller \X Caller, RemoveStep(k) PROVE BridgeLock'
  <2>1. stage' = stage
    BY <1>3 DEF RemoveStep, RemoveClears, RemoveGetsLock, RemoveReorders, addVars
  <2>2. CASE RemoveClears(k) \/ RemoveGetsLock(k)
    BY <2>1, <2>2, RemovalQueues DEF RemoveClears, RemoveGetsLock, EvictLocked
  <2>3. CASE RemoveReorders(k)
    <3>1. removal[k] = "reinit" /\ lockq' = Tail(lockq) /\ removal' = [removal EXCEPT ![k] = "none"]
      BY <2>3 DEF RemoveReorders, RemovalGoto
    <3>2. Holds(Remove(k))
      BY <3>1 DEF BridgeLock, InsideHolds
    <3>3. \A l \in Controller \X Caller : removal'[l] = "reinit" => removal[l] = "reinit" /\ l # k
      BY <1>1, <3>1
    <3> QED BY <2>1, <3>1, <3>2, <3>3, HolderLeaves, Processes
  <2> QED BY <1>3, <2>2, <2>3 DEF RemoveStep
<1>4. CASE ~SlotsTouched
  <2>1. lockq' = lockq
    BY <1>4, OthersLeaveSlots DEF slotVars
  <2>2. \A c \in Controller : stage'[c] = "added" => stage[c] = "added"
    <3>1. stage' = stage \/ \E c \in Controller, s \in {"init", "init_wait", "over"} : stage' = [stage EXCEPT ![c] = s]
      <4>1. CASE \/ FirmwareStep \/ Dispatch \/ BridgeLost \/ UNCHANGED bridgeVars \/ PollStep
                 \/ \E m \in Mac : Advertise(m) \/ LinkDown(m) \/ RetryStep(m)
        BY <4>1 DEF FirmwareStep, Dispatch, BridgeLost, bridgeVars, hostVars, addVars, Advertise, LinkDown, RetryStep,
             RetrySends, RetryMarks, PollStep, PollAnswer, PollReads, TeardownEnds, SessionOpens, SessionArmed,
             TeardownRemoves
      <4>2. CASE TaskStep
        BY <4>2 DEF TaskStep, StartConn, StartDisconnected, StartConnected, StartRetry, addVars
      <4>3. CASE \E c \in Controller : InitGetsLock(c) \/ InitRaises(c)
        BY <4>3 DEF InitGetsLock, InitRaises, AddGoto, GiveUp, EndAdd
      <4> QED BY <1>4, <4>1, <4>2, <4>3 DEF BridgeNext, SlotsTouched, AddStep
    <3> QED BY <1>1, <3>1
  <2>3. \A k \in Controller \X Caller : removal'[k] = "reinit" => removal[k] = "reinit"
    <3>1. removal' = removal \/ \E k : RemovalGoto(k, "send")
      <4>1. CASE \/ FirmwareStep \/ Dispatch \/ BridgeLost \/ UNCHANGED bridgeVars \/ TaskStep
                 \/ \E m \in Mac : Advertise(m) \/ LinkDown(m) \/ RetryStep(m)
        BY <4>1 DEF FirmwareStep, Dispatch, BridgeLost, bridgeVars, hostVars, Advertise, LinkDown, RetryStep,
             RetrySends, RetryMarks, TaskStep, StartConn, StartDisconnected, StartConnected, StartRetry
      <4>2. CASE PollStep
        BY <4>2 DEF PollStep, PollAnswer, PollReads, TeardownEnds, SessionOpens, SessionArmed,
             TeardownRemoves, LooksAtAll, TearsDown
      <4>3. CASE \E c \in Controller : InitGetsLock(c) \/ InitRaises(c)
        BY <4>3 DEF InitGetsLock, InitRaises
      <4> QED BY <1>4, <4>1, <4>2, <4>3 DEF BridgeNext, SlotsTouched, AddStep
    <3> QED BY <1>1, <3>1 DEF RemovalGoto
  <2> QED BY <1>1, <2>1, <2>2, <2>3, HolderKept
<1> QED BY <1>2, <1>3, <1>4 DEF SlotsTouched

\* A seat taken in order, by the holder of the lock, is the next of the players.
LEMMA TakingSeatInOrder ==
  ASSUME SlotsInv, PlayersInOrder, NEW c \in Controller, NEW q, TakeSlot(c, q)
  PROVE  PlayersInOrder'
<1>1. PICK n \in 0 .. Slots : Occupied(table) = 1 .. n
  BY DEF PlayersInOrder
<1>2. PICK i \in Slot : /\ i \in 1 .. Groups /\ table[i] = NoVc /\ \A j \in 1 .. Groups : table[j] = NoVc => i <= j
                        /\ table' = [table EXCEPT ![i] = NewVc] /\ player' = [player EXCEPT ![NewVc] = i]
  BY TakenSlot
<1>3. /\ table \in [Slot -> VcId \cup {NoVc}] /\ player \in [VcId -> 0 .. Slots] /\ NewVc \in VcId
      /\ Slots \in Nat /\ Groups \in 1 .. Slots /\ NewVc # NoVc
  <2>1. NewVc \in VcId
    BY TakenSlot
  <2>2. NewVc # NoVc
    BY <2>1, SlotsAssumption DEF VcId, NoVc
  <2>3. table \in [Slot -> VcId \cup {NoVc}] /\ player \in [VcId -> 0 .. Slots]
    BY DEF SlotsInv, SlotsTypeOK
  <2>4. Slots \in Nat /\ Groups \in 1 .. Slots
    BY SlotsAssumption, BridgeAssumption
  <2> QED BY <2>1, <2>2, <2>3, <2>4
<1>4. i = n + 1
  <2>1. \A j \in Slot : table[j] = NoVc <=> j \notin 1 .. n
    BY <1>1 DEF Occupied
  <2>2. i \notin 1 .. n /\ i \in 1 .. Groups /\ \A j \in 1 .. Groups : j \notin 1 .. n => i <= j
    BY <1>2, <1>3, <2>1 DEF Slot
  <2>3. n + 1 \notin 1 .. n /\ n < i
    BY <1>1, <2>2, <1>3
  <2>4. n + 1 \in 1 .. Groups
    BY <1>1, <1>3, <2>2, <2>3
  <2> QED BY <1>1, <1>3, <2>2, <2>3, <2>4
<1>5. \A j \in Slot : table'[j] = IF j = i THEN NewVc ELSE table[j]
  BY <1>2, <1>3
<1>6. Occupied(table)' = Occupied(table) \cup {i}
  BY <1>3, <1>5 DEF Occupied
<1>7. Occupied(table)' = 1 .. n + 1 /\ n + 1 \in 0 .. Slots
  <2>1. 1 .. n + 1 = (1 .. n) \cup {n + 1}
    BY <1>1
  <2>2. n + 1 \in 1 .. Slots
    BY <1>4 DEF Slot
  <2> QED BY <1>1, <1>3, <1>4, <1>6, <2>1, <2>2
<1>8. ASSUME NEW j \in Occupied(table)' PROVE player'[table'[j]] = j
  <2>1. CASE j = i
    BY <1>2, <1>3, <1>5, <2>1
  <2>2. CASE j # i
    <3>1. j \in Occupied(table) /\ j \in Slot /\ table'[j] = table[j] /\ table[j] \in VcId
      BY <1>3, <1>5, <1>6, <1>8, <2>2 DEF Occupied
    <3>2. table[j] <= made /\ made \in Nat /\ table[j] \in Nat
      BY <3>1, SlotsAssumption DEF SlotsInv, SlotsTypeOK, VcId
    <3>3. table[j] # NewVc
      BY <3>2 DEF NewVc
    <3> QED BY <1>2, <1>3, <3>1, <3>3 DEF PlayersInOrder
  <2> QED BY <2>1, <2>2
<1> QED BY <1>7, <1>8 DEF PlayersInOrder

\* Every step keeps the order, up to a removal that has not yet reordered.
LEMMA OrderKept ==
  ASSUME SlotsInv, BridgeLock, BridgeOrder, [BridgeNext]_bridgeVars
  PROVE  BridgeOrder'
<1>1. lockq \in Seq(Process) /\ InsideHolds
  BY DEF BridgeLock
<1>2. ASSUME UNCHANGED <<table, player>>, lockq # <<>> => lockq' # <<>> /\ Head(lockq') = Head(lockq)
      PROVE  BridgeOrder'
  BY <1>2 DEF BridgeOrder, PlayersInOrder, Occupied, Holds, Remove
<1>3. ASSUME NEW c \in Controller, Holds(Add(c)) \/ LockFree PROVE PlayersInOrder
  BY <1>3, Processes DEF BridgeOrder, Holds, LockFree
<1>4. ASSUME NEW c \in Controller, NEW q, Claim(c, q), Holds(Add(c)) \/ LockFree PROVE BridgeOrder'
  <2>1. PlayersInOrder
    BY <1>3, <1>4
  <2>2. CASE JoinPair(c, q) \/ FindGroupsFull(c, q)
    <3>1. UNCHANGED <<table, player>>
      BY <2>2 DEF JoinPair, FindGroupsFull, vcVars
    <3> QED BY <2>1, <3>1 DEF BridgeOrder, PlayersInOrder, Occupied
  <2>3. CASE TakeSlot(c, q)
    BY <2>1, <2>3, TakingSeatInOrder DEF BridgeOrder
  <2> QED BY <1>4, <2>2, <2>3 DEF Claim
<1>5. ASSUME NEW c \in Controller,
             InitDone(c) \/ AddGetsLock(c) \/ AddedDone(c) \/ AddedRaises(c) \/ DeviceDone(c) \/ DeviceRaises(c)
      PROVE  BridgeOrder'
  <2>1. CASE InitDone(c)
    <3>1. CASE LockFree
      BY <1>4, <2>1, <3>1 DEF InitDone
    <3>2. CASE ~LockFree
      <4>1. lockq' = Append(lockq, Add(c)) /\ UNCHANGED <<table, player>>
        BY <2>1, <3>2 DEF InitDone, vcVars
      <4> QED BY <1>1, <1>2, <4>1, QueueSteps, Processes
    <3> QED BY <3>1, <3>2
  <2>2. CASE AddGetsLock(c)
    BY <1>4, <2>2 DEF AddGetsLock
  <2>3. CASE AddedDone(c)
    BY <2>3, ReorderKeepsSlots DEF AddedDone, BridgeOrder
  <2>4. CASE AddedRaises(c)
    <3>1. PlayersInOrder /\ UNCHANGED <<table, player>>
      BY <1>1, <1>3, <2>4 DEF AddedRaises, InsideHolds, vcVars
    <3> QED BY <3>1 DEF BridgeOrder, PlayersInOrder, Occupied
  <2>5. CASE DeviceDone(c) \/ DeviceRaises(c)
    BY <1>2, <2>5 DEF DeviceDone, DeviceRaises
  <2> QED BY <1>5, <2>1, <2>2, <2>3, <2>4, <2>5
<1>6. ASSUME NEW k \in Controller \X Caller, RemoveStep(k) PROVE BridgeOrder'
  <2>1. CASE RemoveReorders(k)
    BY <2>1, ReorderKeepsSlots DEF RemoveReorders, BridgeOrder
  <2>2. CASE Holds(Remove(k))'
    BY <2>2 DEF BridgeOrder
  <2>3. CASE RemoveClears(k) /\ ~LockFree
    <3>1. lockq' = Append(lockq, Remove(k)) /\ UNCHANGED <<table, player>>
      BY <2>3 DEF RemoveClears, vcVars
    <3> QED BY <1>1, <1>2, <3>1, QueueSteps, Processes
  <2>4. CASE RemoveClears(k) /\ LockFree
    <3>1. lockq' = <<Remove(k)>>
      BY <2>4 DEF RemoveClears, EvictLocked
    <3>2. Holds(Remove(k))'
      BY <3>1, QueueSteps, Processes DEF Holds, Remove
    <3> QED BY <2>2, <3>2
  <2>5. CASE RemoveGetsLock(k)
    BY <2>2, <2>5 DEF RemoveGetsLock, EvictLocked, Holds, Remove
  <2> QED BY <1>6, <2>1, <2>3, <2>4, <2>5 DEF RemoveStep
<1>7. CASE ~SlotsTouched
  BY <1>2, <1>7, OthersLeaveSlots DEF slotVars, vcVars
<1> QED BY <1>5, <1>6, <1>7 DEF SlotsTouched

-----------------------------------------------------------------------------
(* Who drives which slot, and who owns which channel *)

Unclaimed == {"unused", "init_wait", "init", "claim_wait"}
InTeam(c) == \E v \in VcId : c \in Team(v)

\* A controller is driven only after its claim, and by the object it claimed while its
\* attempt lasts; a channel is registered for the last attempt it carried, which is over
\* and whose controller drives a slot; and a controller that is being removed has lost its
\* channel by the time its slot is emptied.
ClaimedFirst == \A v \in VcId : \A n \in DOMAIN members[v] : stage[members[v][n]] \notin Unclaimed
HomesKept ==
  \A c \in Controller : stage[c] \in {"added", "device"} => \E v \in VcId : v = home[c] /\ c \in Team(v)
ChannelsOwned ==
  \A ch \in Chan : Registered(ch) =>
    stage[chanMap[ch]] = "over" /\ chanOf[chanMap[ch]] = ch /\ InTeam(chanMap[ch])
RemovalsLast ==
  \A k \in Controller \X Caller :
    /\ removal[k] # "none" => stage[k[1]] = "over"
    /\ removal[k] \in {"wait", "reinit"} => \A ch \in Chan : chanMap[ch] # k[1]
OwnersInv == DrivenOnce /\ ClaimedFirst /\ HomesKept /\ ChannelsOwned /\ RemovalsLast

\* A step the abstract specification allows.
PoolStep == [Pool!PoolNext]_(Pool!poolVars)

\* Nobody but the members of S leaves a VirtualController.
OnlyLeave(S) == \A v \in VcId : Team(v) \ S \subseteq Team(v)'

\* A step that touches no VirtualController is hidden, and so is a reorder; an eviction is
\* a Leave; a device that is set up is a SwitchOn.
LEMMA HiddenStep ==
  ASSUME DrivenOnce, UNCHANGED vcVars
  PROVE  PoolStep /\ DrivenOnce' /\ NobodyJoins /\ OnlyLeave({})
<1>1. UNCHANGED Pool!poolVars
  BY PoolStutters DEF vcVars, InTable
<1>2. \A v \in VcId : Team(v)' = Team(v)
  BY DEF Team, InTable, vcVars
<1> QED BY <1>1, <1>2 DEF PoolStep, vcVars, DrivenOnce, NobodyJoins, OnlyLeave

LEMMA ReorderShows ==
  ASSUME SlotsInv, DrivenOnce, Reorder(table, members), UNCHANGED <<made, members, running, device>>
  PROVE  PoolStep /\ DrivenOnce' /\ NobodyJoins /\ OnlyLeave({})
<1>1. UNCHANGED Pool!poolVars
  BY ReorderIsHidden
<1>2. \A v \in VcId : Team(v)' = Team(v)
  BY ReorderKeepsSlots DEF Team
<1> QED BY <1>1, <1>2 DEF PoolStep, DrivenOnce, NobodyJoins, OnlyLeave

LEMMA EvictShows ==
  ASSUME SlotsInv, DrivenOnce, NEW c \in Controller, Evict(c)
  PROVE  PoolStep /\ DrivenOnce' /\ NobodyJoins /\ OnlyLeave({c})
<1>1. /\ (\E v \in VcId : Pool!Leave(v, c)) \/ UNCHANGED Pool!poolVars
      /\ DrivenOnce' /\ NobodyJoins
  BY EvictLeaves
<1>2. PoolStep
  BY <1>1 DEF PoolStep, Pool!PoolNext
<1>3. CASE \E v \in VcId : Pool!Leave(v, c)
  <2>1. PICK v \in VcId : [w \in VcId |-> Team(w)'] = [[w \in VcId |-> Team(w)] EXCEPT ![v] = @ \ {c}]
    BY <1>3 DEF Pool!Leave
  <2>2. \A w \in VcId : Team(w)' = IF w = v THEN Team(w) \ {c} ELSE Team(w)
    BY <2>1
  <2> QED BY <1>1, <1>2, <2>2 DEF OnlyLeave
<1>4. CASE UNCHANGED Pool!poolVars
  <2>1. [w \in VcId |-> Team(w)'] = [w \in VcId |-> Team(w)]
    BY <1>4 DEF Pool!poolVars
  <2>2. \A w \in VcId : Team(w)' = Team(w)
    BY <2>1
  <2> QED BY <1>1, <1>2, <2>2 DEF OnlyLeave
<1> QED BY <1>1, <1>3, <1>4

LEMMA AttemptShows ==
  ASSUME SlotsInv, DrivenOnce, NEW w, device' \in Attempted(device, w), UNCHANGED <<table, made, members, running>>
  PROVE  PoolStep /\ DrivenOnce' /\ NobodyJoins /\ OnlyLeave({})
<1>1. PoolStep
  BY AttemptSwitchesOn DEF PoolStep, Pool!PoolNext
<1>2. \A v \in VcId : Team(v)' = Team(v)
  BY DEF Team, InTable
<1> QED BY <1>1, <1>2 DEF DrivenOnce, NobodyJoins, OnlyLeave

\* A seat that is taken for a controller nobody drives opens a new VirtualController.
LEMMA SeatOpens ==
  ASSUME SlotsInv, DrivenOnce, NEW c \in Controller, \A v \in VcId : ~Drives(v, c),
         NEW i \in Slot, table[i] = NoVc, Create(c),
         table' = [table EXCEPT ![i] = NewVc], player' = [player EXCEPT ![NewVc] = i]
  PROVE  /\ DrivenOnce' /\ OnlyJoins(c) /\ OnlyLeave({})
         /\ \E v \in VcId : v = NewVc /\ Pool!Open(v, c) /\ c \in Team(v)'
<1>1. /\ members \in [VcId -> Seq(Controller)] /\ running \in [VcId -> BOOLEAN] /\ made \in Nat
      /\ table \in [Slot -> VcId \cup {NoVc}]
  BY SlotsAssumption DEF SlotsInv, SlotsTypeOK
<1>2. NewVc \in VcId /\ \A v \in VcId : InTable(v)' <=> InTable(v) \/ v = NewVc
  BY TakingSeat
<1>3. /\ made' = NewVc /\ members' = [members EXCEPT ![NewVc] = <<c>>]
      /\ running' = [running EXCEPT ![NewVc] = TRUE] /\ device' = device
  BY DEF Create
<1>4. ~InTable(NewVc)
  BY <1>1 DEF InTable, NewVc, SlotsInv
<1>5. /\ DOMAIN members'[NewVc] = {1} /\ members'[NewVc][1] = c
      /\ \A w \in VcId : w # NewVc => members'[w] = members[w]
  BY <1>1, <1>2, <1>3
<1>6. \A w \in VcId : Team(w)' = IF w = NewVc THEN {c} ELSE Team(w)
  BY <1>2, <1>5 DEF Team
<1>7. Pool!Idle(c)
  <2>1. \A w \in VcId : c \notin Team(w)
    BY DEF Team, Drives
  <2> QED BY <2>1 DEF Pool!Idle
<1>8. NewVc \notin 1 .. made /\ 1 .. made' = (1 .. made) \cup {NewVc}
  BY <1>1, <1>3 DEF NewVc
<1>9. Pool!Open(NewVc, c)
  BY <1>1, <1>2, <1>3, <1>6, <1>7, <1>8 DEF Pool!Open
<1>10. OnlyJoins(c)
  BY <1>5 DEF OnlyJoins
<1>11. DrivenOnce'
  BY <1>5 DEF DrivenOnce, Drives
<1>12. Team(NewVc) = {}
  BY <1>4 DEF Team
<1>13. OnlyLeave({}) /\ \E v \in VcId : v = NewVc /\ Pool!Open(v, c) /\ c \in Team(v)'
  BY <1>2, <1>6, <1>9, <1>12 DEF OnlyLeave
<1> QED BY <1>10, <1>11, <1>13

\* A step by which nobody joins keeps ClaimedFirst, if no attempt goes back.
LEMMA ClaimedKept ==
  ASSUME SlotsInv, ClaimedFirst, NobodyJoins,
         \A c \in Controller : stage'[c] \in Unclaimed => stage[c] \in Unclaimed
  PROVE  ClaimedFirst'
BY MembersAreControllers DEF ClaimedFirst, NobodyJoins

\* A channel keeps its owner, or loses it, while only others leave their slots.
LEMMA OwnersKept ==
  ASSUME LoopTyped, ChannelsOwned, NEW S, OnlyLeave(S), \A ch \in Chan : chanMap'[ch] \notin S,
         \A ch \in Chan : chanMap'[ch] = chanMap[ch] \/ chanMap'[ch] = NoController,
         \A c \in Controller : stage[c] = "over" => stage'[c] = "over" /\ chanOf'[c] = chanOf[c]
  PROVE  ChannelsOwned'
<1> SUFFICES ASSUME NEW ch \in Chan, chanMap'[ch] # NoController
             PROVE  /\ stage'[chanMap'[ch]] = "over" /\ chanOf'[chanMap'[ch]] = ch
                    /\ \E v \in VcId : chanMap'[ch] \in Team(v)'
  BY DEF ChannelsOwned, Registered, InTeam
<1>1. PICK c \in Controller : c = chanMap[ch] /\ c = chanMap'[ch]
  BY DEF LoopTyped
<1>2. stage[c] = "over" /\ chanOf[c] = ch /\ \E v \in VcId : c \in Team(v)
  BY <1>1 DEF ChannelsOwned, Registered, InTeam
<1>3. \E v \in VcId : c \in Team(v)'
  BY <1>1, <1>2 DEF OnlyLeave
<1> QED BY <1>1, <1>2, <1>3

\* An attempt that has its home keeps it while it does not leave.
LEMMA HomesStay ==
  ASSUME HomesKept, NEW S, OnlyLeave(S),
         \A c \in Controller : stage'[c] \in {"added", "device"} =>
           stage[c] \in {"added", "device"} /\ home'[c] = home[c] /\ c \notin S
  PROVE  HomesKept'
<1> SUFFICES ASSUME NEW c \in Controller, stage'[c] \in {"added", "device"}
             PROVE  \E v \in VcId : v = home'[c] /\ c \in Team(v)'
  BY DEF HomesKept
<1>1. home'[c] = home[c] /\ c \notin S /\ \E v \in VcId : v = home[c] /\ c \in Team(v)
  BY DEF HomesKept
<1> QED BY <1>1 DEF OnlyLeave

\* A step by which nobody joins or leaves, that moves no attempt out of its home and no
\* channel to another controller, and starts no removal but that of a finished attempt.
LEMMA QuietStep ==
  ASSUME SlotsInv, LoopTyped, OwnersInv, DrivenOnce', NobodyJoins, OnlyLeave({}),
         \A c \in Controller : stage'[c] \in Unclaimed => stage[c] \in Unclaimed,
         \A c \in Controller : stage'[c] \in {"added", "device"} =>
           stage[c] \in {"added", "device"} /\ home'[c] = home[c],
         \A c \in Controller : stage[c] = "over" => stage'[c] = "over" /\ chanOf'[c] = chanOf[c],
         \A ch \in Chan : chanMap'[ch] = chanMap[ch] \/ chanMap'[ch] = NoController,
         \A k \in Controller \X Caller : \/ removal'[k] = removal[k]
                                         \/ removal'[k] = "none"
                                         \/ removal'[k] = "send" /\ stage[k[1]] = "over"
  PROVE  OwnersInv'
<1>1. ClaimedFirst'
  BY ClaimedKept DEF OwnersInv
<1>2. HomesKept'
  BY HomesStay DEF OwnersInv
<1>3. ChannelsOwned'
  <2>1. \A ch \in Chan : chanMap'[ch] \notin {}
    OBVIOUS
  <2> QED BY <2>1, OwnersKept DEF OwnersInv
<1>4. RemovalsLast'
  <2> SUFFICES ASSUME NEW k \in Controller \X Caller
               PROVE  /\ removal'[k] # "none" => stage'[k[1]] = "over"
                      /\ removal'[k] \in {"wait", "reinit"} => \A ch \in Chan : chanMap'[ch] # k[1]
    BY DEF RemovalsLast
  <2>1. k[1] \in Controller /\ k[1] # NoController
    BY BridgeAssumption
  <2>2. removal'[k] # "none" => stage[k[1]] = "over"
    BY DEF OwnersInv, RemovalsLast
  <2>3. removal'[k] \in {"wait", "reinit"} => \A ch \in Chan : chanMap[ch] # k[1]
    BY DEF OwnersInv, RemovalsLast
  <2> QED BY <2>1, <2>2, <2>3
<1> QED BY <1>1, <1>2, <1>3, <1>4 DEF OwnersInv

\* The end of an attempt that has its home: its controller is registered for its channel.
LEMMA RegisterOwns ==
  ASSUME SlotsInv, AddsTyped, LoopTyped, OwnersInv, NEW c \in Controller, stage[c] \in {"added", "device"},
         DrivenOnce', NobodyJoins, OnlyLeave({}), Register(c), UNCHANGED <<chanOf, removal>>
  PROVE  OwnersInv'
<1>1. /\ stage' = [stage EXCEPT ![c] = "over"] /\ chanMap' = [chanMap EXCEPT ![chanOf[c]] = c]
      /\ home' = [home EXCEPT ![c] = NoVc]
  BY DEF Register, EndAdd, AddGoto
<1>2. /\ stage \in [Controller -> Stages] /\ chanMap \in [Chan -> Controller \cup {NoController}]
      /\ chanOf \in [Controller -> Chan] /\ home \in [Controller -> VcId \cup {NoVc}]
  BY DEF AddsTyped, LoopTyped
<1>3. \A d \in Controller : stage'[d] = IF d = c THEN "over" ELSE stage[d]
  BY <1>1, <1>2
<1>4. ClaimedFirst'
  <2>1. \A d \in Controller : stage'[d] \in Unclaimed => stage[d] \in Unclaimed
    BY <1>3 DEF Unclaimed
  <2> QED BY <2>1, ClaimedKept DEF OwnersInv
<1>5. HomesKept'
  <2>1. \A d \in Controller : d # c => home'[d] = home[d]
    BY <1>1, <1>2
  <2>2. \A d \in Controller : stage'[d] \in {"added", "device"} =>
          stage[d] \in {"added", "device"} /\ home'[d] = home[d] /\ d \notin {}
    BY <1>3, <2>1
  <2> QED BY <2>2, HomesStay DEF OwnersInv
<1>6. ChannelsOwned'
  <2> SUFFICES ASSUME NEW ch \in Chan, chanMap'[ch] # NoController
               PROVE  /\ stage'[chanMap'[ch]] = "over" /\ chanOf'[chanMap'[ch]] = ch
                      /\ \E v \in VcId : chanMap'[ch] \in Team(v)'
    BY DEF ChannelsOwned, Registered, InTeam
  <2>1. CASE ch = chanOf[c]
    <3>1. chanMap'[ch] = c /\ stage'[c] = "over" /\ chanOf'[c] = ch
      BY <1>1, <1>2, <1>3, <2>1
    <3>2. \E v \in VcId : c \in Team(v)
      BY DEF OwnersInv, HomesKept
    <3> QED BY <3>1, <3>2 DEF OnlyLeave
  <2>2. CASE ch # chanOf[c]
    <3>1. PICK d \in Controller : d = chanMap[ch] /\ d = chanMap'[ch]
      BY <1>1, <1>2, <2>2
    <3>2. stage[d] = "over" /\ chanOf[d] = ch /\ \E v \in VcId : d \in Team(v)
      BY <2>2, <3>1, BridgeAssumption DEF OwnersInv, ChannelsOwned, Registered, InTeam
    <3> QED BY <1>3, <3>1, <3>2 DEF OnlyLeave
  <2> QED BY <2>1, <2>2
<1>7. RemovalsLast'
  <2> SUFFICES ASSUME NEW k \in Controller \X Caller
               PROVE  /\ removal'[k] # "none" => stage'[k[1]] = "over"
                      /\ removal'[k] \in {"wait", "reinit"} => \A ch \in Chan : chanMap'[ch] # k[1]
    BY DEF RemovalsLast
  <2>1. k[1] \in Controller /\ removal'[k] = removal[k]
    OBVIOUS
  <2>2. removal[k] # "none" => stage[k[1]] = "over" /\ k[1] # c
    BY DEF OwnersInv, RemovalsLast
  <2>3. removal[k] \in {"wait", "reinit"} => \A ch \in Chan : chanMap[ch] # k[1]
    BY DEF OwnersInv, RemovalsLast
  <2>4. \A ch \in Chan : chanMap'[ch] = c \/ chanMap'[ch] = chanMap[ch]
    BY <1>1, <1>2
  <2> QED BY <1>3, <2>1, <2>2, <2>3, <2>4
<1> QED BY <1>4, <1>5, <1>6, <1>7 DEF OwnersInv

\* A controller that is seated has its home, and nothing else changes hands.
LEMMA SeatedOwns ==
  ASSUME SlotsInv, AddsTyped, LoopTyped, OwnersInv, NEW c \in Controller, stage[c] \in Unclaimed,
         DrivenOnce', OnlyJoins(c), OnlyLeave({}), AddGoto(c, "added"),
         \E v \in VcId : home' = [home EXCEPT ![c] = v] /\ c \in Team(v)',
         UNCHANGED <<chanMap, chanOf, removal>>
  PROVE  OwnersInv'
<1>1. stage \in [Controller -> Stages] /\ home \in [Controller -> VcId \cup {NoVc}]
  BY DEF AddsTyped
<1>2. \A d \in Controller : stage'[d] = IF d = c THEN "added" ELSE stage[d]
  BY <1>1 DEF AddGoto
<1>3. ClaimedFirst'
  <2> SUFFICES ASSUME NEW v \in VcId, NEW n \in DOMAIN members'[v]
               PROVE  stage'[members'[v][n]] \notin Unclaimed
    BY DEF ClaimedFirst
  <2>1. CASE members'[v][n] = c
    BY <1>2, <2>1 DEF Unclaimed
  <2>2. CASE members'[v][n] # c
    <3>1. PICK m \in DOMAIN members[v] : members[v][m] = members'[v][n]
      BY <2>2 DEF OnlyJoins
    <3>2. stage[members[v][m]] \notin Unclaimed /\ members[v][m] \in Controller
      BY MembersAreControllers DEF OwnersInv, ClaimedFirst
    <3> QED BY <1>2, <2>2, <3>1, <3>2
  <2> QED BY <2>1, <2>2
<1>4. HomesKept'
  <2> SUFFICES ASSUME NEW d \in Controller, stage'[d] \in {"added", "device"}
               PROVE  \E v \in VcId : v = home'[d] /\ d \in Team(v)'
    BY DEF HomesKept
  <2>1. PICK v \in VcId : home' = [home EXCEPT ![c] = v] /\ c \in Team(v)'
    OBVIOUS
  <2>2. CASE d = c
    BY <1>1, <2>1, <2>2
  <2>3. CASE d # c
    <3>1. home'[d] = home[d] /\ stage[d] \in {"added", "device"}
      BY <1>1, <1>2, <2>1, <2>3
    <3>2. \E w \in VcId : w = home[d] /\ d \in Team(w)
      BY <3>1 DEF OwnersInv, HomesKept
    <3> QED BY <3>1, <3>2 DEF OnlyLeave
  <2> QED BY <2>2, <2>3
<1>5. \A d \in Controller : stage[d] = "over" => stage'[d] = "over" /\ chanOf'[d] = chanOf[d]
  BY <1>2 DEF Unclaimed
<1>6. ChannelsOwned'
  <2>1. \A ch \in Chan : chanMap'[ch] \notin {}
    OBVIOUS
  <2> QED BY <1>5, <2>1, OwnersKept DEF OwnersInv
<1>7. RemovalsLast'
  <2>1. \A k \in Controller \X Caller : k[1] \in Controller
    OBVIOUS
  <2> QED BY <1>5, <2>1 DEF OwnersInv, RemovalsLast
<1> QED BY <1>3, <1>4, <1>6, <1>7 DEF OwnersInv

\* A claim joins a pair, opens a VirtualController or gives up.
LEMMA ClaimOwns ==
  ASSUME SlotsInv, AddsTyped, LoopTyped, OwnersInv, NEW c \in Controller, stage[c] \in Unclaimed, NEW q,
         Claim(c, q), UNCHANGED <<chanOf, removal>>
  PROVE  OwnersInv' /\ PoolStep
<1>1. \A v \in VcId : ~Drives(v, c)
  BY DEF OwnersInv, ClaimedFirst, Drives
<1>2. CASE JoinPair(c, q)
  <2>1. PICK v \in VcId :
          /\ InTable(v) /\ Len(members[v]) = 1 /\ {Kind[c], Kind[members[v][1]]} = {"left", "right"}
          /\ members' = [members EXCEPT ![v] = Append(@, c)]
          /\ home' = [home EXCEPT ![c] = v]
    BY <1>2, JoinedSlot
  <2>2. UNCHANGED <<table, made, running, device>> /\ AddGoto(c, "added") /\ UNCHANGED chanMap
    BY <1>2 DEF JoinPair, chanVars
  <2>3. Pool!Join(v, c) /\ DrivenOnce' /\ OnlyJoins(c)
    BY <1>1, <2>1, <2>2, AppendingJoins DEF OwnersInv
  <2>4. \A w \in VcId : Team(w)' = IF w = v THEN Team(w) \cup {c} ELSE Team(w)
    <3>1. [w \in VcId |-> Team(w)'] = [[w \in VcId |-> Team(w)] EXCEPT ![v] = @ \cup {c}]
      BY <2>3 DEF Pool!Join
    <3> QED BY <3>1
  <2>5. OwnersInv'
    BY <1>1, <2>1, <2>2, <2>3, <2>4, SeatedOwns DEF OnlyLeave
  <2> QED BY <2>3, <2>5 DEF PoolStep, Pool!PoolNext
<1>3. CASE TakeSlot(c, q)
  <2>1. PICK i \in Slot : /\ table[i] = NoVc /\ table' = [table EXCEPT ![i] = NewVc]
                          /\ player' = [player EXCEPT ![NewVc] = i]
    BY <1>3, TakenSlot
  <2>2. Create(c) /\ AddGoto(c, "added") /\ UNCHANGED chanMap /\ home' = [home EXCEPT ![c] = NewVc]
    BY <1>3 DEF TakeSlot, chanVars
  <2>3. /\ DrivenOnce' /\ OnlyJoins(c) /\ OnlyLeave({})
        /\ \E v \in VcId : v = NewVc /\ Pool!Open(v, c) /\ c \in Team(v)'
    BY <1>1, <2>1, <2>2, SeatOpens DEF OwnersInv
  <2>4. OwnersInv'
    BY <2>2, <2>3, SeatedOwns
  <2> QED BY <2>3, <2>4 DEF PoolStep, Pool!PoolNext
<1>4. CASE FindGroupsFull(c, q)
  <2>1. UNCHANGED vcVars /\ UNCHANGED chanMap /\ stage' = [stage EXCEPT ![c] = "over"] /\ home' = [home EXCEPT ![c] = NoVc]
    BY <1>4 DEF FindGroupsFull, GiveUp, EndAdd, AddGoto, chanVars
  <2>2. stage \in [Controller -> Stages] /\ home \in [Controller -> VcId \cup {NoVc}]
    BY DEF AddsTyped
  <2>3. \A d \in Controller : /\ stage'[d] = IF d = c THEN "over" ELSE stage[d]
                              /\ d # c => home'[d] = home[d]
    BY <2>1, <2>2
  <2>4. \A d \in Controller : stage'[d] \in Unclaimed => stage[d] \in Unclaimed
    BY <2>3 DEF Unclaimed
  <2>5. \A d \in Controller : stage'[d] \in {"added", "device"} => stage[d] \in {"added", "device"} /\ home'[d] = home[d]
    BY <2>3
  <2>6. PoolStep /\ DrivenOnce' /\ NobodyJoins /\ OnlyLeave({})
    BY <2>1, HiddenStep DEF OwnersInv
  <2> QED BY <2>1, <2>3, <2>4, <2>5, <2>6, QuietStep
<1> QED BY <1>2, <1>3, <1>4 DEF Claim

\* A removal: its controller has no channel any more when it leaves its slot.
LEMMA RemovalOwns ==
  ASSUME SlotsInv, LoopTyped, OwnersInv, NEW c \in Controller, stage[c] = "over",
         Evict(c) \/ UNCHANGED vcVars, UNCHANGED <<stage, chanOf, home>>,
         \A ch \in Chan : chanMap'[ch] # c /\ (chanMap'[ch] = chanMap[ch] \/ chanMap'[ch] = NoController),
         \A k \in Controller \X Caller : removal'[k] = removal[k] \/ k[1] = c
  PROVE  OwnersInv' /\ PoolStep
<1>1. PoolStep /\ DrivenOnce' /\ NobodyJoins /\ OnlyLeave({c})
  <2>1. CASE Evict(c)
    BY <2>1, EvictShows DEF OwnersInv
  <2>2. CASE UNCHANGED vcVars
    BY <2>2, HiddenStep DEF OwnersInv, OnlyLeave
  <2> QED BY <2>1, <2>2
<1>2. ClaimedFirst'
  BY <1>1, ClaimedKept DEF OwnersInv
<1>3. HomesKept'
  <2>1. \A d \in Controller : stage'[d] \in {"added", "device"} =>
          stage[d] \in {"added", "device"} /\ home'[d] = home[d] /\ d \notin {c}
    OBVIOUS
  <2> QED BY <1>1, <2>1, HomesStay DEF OwnersInv
<1>4. ChannelsOwned'
  BY <1>1, OwnersKept DEF OwnersInv
<1>5. RemovalsLast'
  <2> SUFFICES ASSUME NEW k \in Controller \X Caller
               PROVE  /\ removal'[k] # "none" => stage'[k[1]] = "over"
                      /\ removal'[k] \in {"wait", "reinit"} => \A ch \in Chan : chanMap'[ch] # k[1]
    BY DEF RemovalsLast
  <2>1. CASE k[1] = c
    BY <2>1
  <2>2. CASE k[1] # c
    <3>1. k[1] \in Controller /\ k[1] # NoController /\ removal'[k] = removal[k]
      BY <2>2, BridgeAssumption
    <3>2. /\ removal[k] # "none" => stage[k[1]] = "over"
          /\ removal[k] \in {"wait", "reinit"} => \A ch \in Chan : chanMap[ch] # k[1]
      BY DEF OwnersInv, RemovalsLast
    <3> QED BY <3>1, <3>2
  <2> QED BY <2>1, <2>2
<1> QED BY <1>1, <1>2, <1>3, <1>4, <1>5 DEF OwnersInv

\* The steps of esp32_disconnected_controller.
LEMMA RemoveOwns ==
  ASSUME SlotsInv, AddsTyped, LoopTyped, OwnersInv, NEW k \in Controller \X Caller, RemoveStep(k)
  PROVE  OwnersInv' /\ PoolStep
<1>1. k[1] \in Controller /\ k[1] # NoController /\ \A p \in Controller \X Caller : p # k => removal'[p] = removal[p]
  <2>1. \E s : removal' = [removal EXCEPT ![k] = s]
    BY DEF RemoveStep, RemoveClears, RemoveGetsLock, RemoveReorders, EvictLocked, RemovalGoto
  <2> QED BY <2>1, BridgeAssumption DEF LoopTyped
<1>2. UNCHANGED addVars
  BY DEF RemoveStep, RemoveClears, RemoveGetsLock, RemoveReorders
<1>3. CASE RemoveClears(k)
  <2>1. stage[k[1]] = "over" /\ (Evict(k[1]) \/ UNCHANGED vcVars)
    BY <1>3 DEF RemoveClears, EvictLocked, OwnersInv, RemovalsLast
  <2>2. chanMap' = [chanMap EXCEPT ![chanOf[k[1]]] = NoController]
    BY <1>3 DEF RemoveClears, Unregister
  <2>3. \A ch \in Chan : chanMap[ch] = k[1] => ch = chanOf[k[1]]
    BY <1>1 DEF OwnersInv, ChannelsOwned, Registered
  <2>4. \A ch \in Chan : chanMap'[ch] # k[1] /\ (chanMap'[ch] = chanMap[ch] \/ chanMap'[ch] = NoController)
    BY <1>1, <2>2, <2>3 DEF LoopTyped
  <2>5. \A p \in Controller \X Caller : removal'[p] = removal[p] \/ p[1] = k[1]
    BY <1>1
  <2> QED BY <1>1, <1>2, <2>1, <2>4, <2>5, RemovalOwns DEF addVars
<1>4. CASE RemoveGetsLock(k)
  <2>1. stage[k[1]] = "over" /\ Evict(k[1]) /\ UNCHANGED chanMap /\ \A ch \in Chan : chanMap[ch] # k[1]
    BY <1>4 DEF RemoveGetsLock, EvictLocked, OwnersInv, RemovalsLast, chanVars
  <2>2. \A p \in Controller \X Caller : removal'[p] = removal[p] \/ p[1] = k[1]
    BY <1>1
  <2> QED BY <1>1, <1>2, <2>1, <2>2, RemovalOwns DEF addVars
<1>5. CASE RemoveReorders(k)
  <2>1. PoolStep /\ DrivenOnce' /\ NobodyJoins /\ OnlyLeave({})
    BY <1>5, ReorderShows DEF RemoveReorders, OwnersInv
  <2>2. UNCHANGED chanMap /\ removal'[k] = "none"
    BY <1>5 DEF RemoveReorders, RemovalGoto, LoopTyped, chanVars
  <2>3. \A p \in Controller \X Caller : removal'[p] = removal[p] \/ removal'[p] = "none"
    BY <1>1, <2>2
  <2> QED BY <1>2, <2>1, <2>2, <2>3, QuietStep DEF addVars
<1> QED BY <1>3, <1>4, <1>5 DEF RemoveStep

\* One attempt goes on, without a seat taken or left.
LEMMA AttemptGoesOn ==
  ASSUME SlotsInv, AddsTyped, LoopTyped, OwnersInv, NEW c \in Controller, NEW s, stage' = [stage EXCEPT ![c] = s],
         DrivenOnce', NobodyJoins, OnlyLeave({}), UNCHANGED <<chanOf, chanMap, removal>>,
         \/ s = "over" /\ home' = [home EXCEPT ![c] = NoVc]
         \/ s \in Unclaimed /\ stage[c] \in Unclaimed /\ home' = home
         \/ s = "device" /\ stage[c] = "added" /\ home' = home
  PROVE  OwnersInv'
<1>1. stage \in [Controller -> Stages] /\ home \in [Controller -> VcId \cup {NoVc}]
  BY DEF AddsTyped
<1>2. \A d \in Controller : stage'[d] = IF d = c THEN s ELSE stage[d]
  BY <1>1
<1>3. \A d \in Controller : d # c => home'[d] = home[d]
  BY <1>1
<1>4. \A d \in Controller : stage'[d] \in Unclaimed => stage[d] \in Unclaimed
  BY <1>2 DEF Unclaimed
<1>5. \A d \in Controller : stage'[d] \in {"added", "device"} => stage[d] \in {"added", "device"} /\ home'[d] = home[d]
  BY <1>2, <1>3 DEF Unclaimed
<1>6. \A d \in Controller : stage[d] = "over" => stage'[d] = "over" /\ chanOf'[d] = chanOf[d]
  BY <1>2 DEF Unclaimed
<1> QED BY <1>4, <1>5, <1>6, QuietStep

\* The steps of add_esp32_channel.
LEMMA AddOwns ==
  ASSUME SlotsInv, AddsTyped, LoopTyped, OwnersInv, NEW c \in Controller, AddStep(c)
  PROVE  OwnersInv' /\ PoolStep
<1>1. UNCHANGED <<chanOf, removal>>
  BY DEF AddStep, InitGetsLock, InitRaises, InitDone, AddGetsLock, AddedDone, AddedRaises, DeviceDone, DeviceRaises
<1>2. UNCHANGED vcVars => PoolStep /\ DrivenOnce' /\ NobodyJoins /\ OnlyLeave({})
  BY HiddenStep DEF OwnersInv
<1>3. CASE InitGetsLock(c)
  <2>1. /\ stage' = [stage EXCEPT ![c] = "init"] /\ stage[c] = "init_wait" /\ UNCHANGED <<home, chanMap>>
        /\ UNCHANGED vcVars
    BY <1>3 DEF InitGetsLock, AddGoto, chanVars, slotVars
  <2> QED BY <1>1, <1>2, <2>1, AttemptGoesOn DEF Unclaimed
<1>4. CASE InitRaises(c) \/ AddedRaises(c)
  <2>1. /\ stage' = [stage EXCEPT ![c] = "over"] /\ home' = [home EXCEPT ![c] = NoVc] /\ UNCHANGED chanMap
        /\ UNCHANGED vcVars
    BY <1>4 DEF InitRaises, AddedRaises, GiveUp, EndAdd, AddGoto, chanVars, slotVars
  <2> QED BY <1>1, <1>2, <2>1, AttemptGoesOn
<1>5. CASE InitDone(c)
  <2>1. CASE LockFree
    BY <1>1, <1>5, <2>1, ClaimOwns DEF InitDone, Unclaimed
  <2>2. CASE ~LockFree
    <3>1. /\ stage' = [stage EXCEPT ![c] = "claim_wait"] /\ stage[c] = "init" /\ UNCHANGED <<home, chanMap>>
          /\ UNCHANGED vcVars
      BY <1>5, <2>2 DEF InitDone, AddGoto, chanVars
    <3> QED BY <1>1, <1>2, <3>1, AttemptGoesOn DEF Unclaimed
  <2> QED BY <2>1, <2>2
<1>6. CASE AddGetsLock(c)
  BY <1>1, <1>6, ClaimOwns DEF AddGetsLock, Unclaimed
<1>7. CASE AddedDone(c)
  <2>1. PoolStep /\ DrivenOnce' /\ NobodyJoins /\ OnlyLeave({})
    BY <1>7, ReorderShows DEF AddedDone, OwnersInv
  <2>2. CASE created[c]
    <3>1. stage' = [stage EXCEPT ![c] = "device"] /\ stage[c] = "added" /\ UNCHANGED <<home, chanMap>>
      BY <1>7, <2>2 DEF AddedDone, AddGoto, chanVars
    <3> QED BY <1>1, <2>1, <3>1, AttemptGoesOn
  <2>3. CASE ~created[c]
    <3>1. Register(c) /\ stage[c] = "added"
      BY <1>7, <2>3 DEF AddedDone
    <3> QED BY <1>1, <2>1, <3>1, RegisterOwns
  <2> QED BY <2>2, <2>3
<1>8. CASE DeviceDone(c) \/ DeviceRaises(c)
  <2>1. device' \in Attempted(device, home[c]) /\ UNCHANGED <<table, made, members, running>> /\ stage[c] = "device"
    BY <1>8 DEF DeviceDone, DeviceRaises, SetupSucceeds, SetupRaises
  <2>2. PoolStep /\ DrivenOnce' /\ NobodyJoins /\ OnlyLeave({})
    BY <2>1, AttemptShows DEF OwnersInv
  <2>3. CASE DeviceDone(c)
    BY <1>1, <2>1, <2>2, <2>3, RegisterOwns DEF DeviceDone
  <2>4. CASE DeviceRaises(c)
    <3>1. stage' = [stage EXCEPT ![c] = "over"] /\ home' = [home EXCEPT ![c] = NoVc] /\ UNCHANGED chanMap
      BY <2>4 DEF DeviceRaises, GiveUp, EndAdd, AddGoto, chanVars
    <3> QED BY <1>1, <2>2, <3>1, AttemptGoesOn
  <2> QED BY <1>8, <2>3, <2>4
<1> QED BY <1>3, <1>4, <1>5, <1>6, <1>7, <1>8 DEF AddStep

\* The other steps: they start attempts and removals and forget channels.
LEMMA OthersOwn ==
  ASSUME SlotsInv, EventsTyped, AddsTyped, LoopTyped, OwnersInv, [BridgeNext]_bridgeVars, ~SlotsTouched
  PROVE  OwnersInv' /\ PoolStep
<1>1. UNCHANGED vcVars
  BY OthersLeaveSlots DEF slotVars
<1>2. PoolStep /\ DrivenOnce' /\ NobodyJoins /\ OnlyLeave({})
  BY <1>1, HiddenStep DEF OwnersInv
<1>3. ASSUME NEW k \in Controller \X Caller, removal' = [removal EXCEPT ![k] = "send"], stage[k[1]] = "over"
      PROVE  \A p \in Controller \X Caller : \/ removal'[p] = removal[p]
                                             \/ removal'[p] = "send" /\ stage[p[1]] = "over"
  BY <1>3 DEF LoopTyped
<1>4. \A ch \in Chan : Registered(ch) => chanMap[ch] \in Controller /\ stage[chanMap[ch]] = "over"
  BY DEF OwnersInv, ChannelsOwned, LoopTyped, Registered
<1>5. ASSUME UNCHANGED <<stage, chanOf, home>>,
             \A ch \in Chan : chanMap'[ch] = chanMap[ch] \/ chanMap'[ch] = NoController,
             \/ UNCHANGED removal
             \/ \E k \in Controller \X Caller : removal' = [removal EXCEPT ![k] = "send"] /\ stage[k[1]] = "over"
      PROVE  OwnersInv'
  <2>1. \A p \in Controller \X Caller : \/ removal'[p] = removal[p]
                                        \/ removal'[p] = "send" /\ stage[p[1]] = "over"
    BY <1>3, <1>5
  <2> QED BY <1>2, <1>5, <2>1, QuietStep
<1>6. CASE \/ FirmwareStep \/ Dispatch \/ BridgeLost \/ UNCHANGED bridgeVars \/ StartConn \/ StartRetry
           \/ \E m \in Mac : Advertise(m) \/ LinkDown(m) \/ RetryStep(m)
  <2>1. UNCHANGED <<stage, chanOf, home, chanMap, removal>>
    BY <1>6 DEF FirmwareStep, Dispatch, BridgeLost, bridgeVars, hostVars, addVars, chanVars, StartConn, StartRetry,
                Advertise, LinkDown, RetryStep, RetrySends, RetryMarks
  <2> QED BY <1>2, <1>5, <2>1
<1>7. CASE StartDisconnected
  <2>1. Head(posted).ch \in Chan /\ chanMap' = [chanMap EXCEPT ![Head(posted).ch] = NoController]
    <3>1. Head(posted) \in Event /\ Head(posted).ev = "disconnected"
      BY <1>7, NextEvent DEF StartDisconnected, Started, EventsTyped
    <3> QED BY <1>7, <3>1, EventFields DEF StartDisconnected, Unregister
  <2>2. UNCHANGED <<stage, chanOf, home>>
    BY <1>7 DEF StartDisconnected, addVars
  <2>3. \/ UNCHANGED removal
        \/ \E k \in Controller \X Caller : removal' = [removal EXCEPT ![k] = "send"] /\ stage[k[1]] = "over"
    <3>1. CASE ~Registered(Head(posted).ch)
      BY <1>7, <3>1 DEF StartDisconnected
    <3>2. CASE Registered(Head(posted).ch)
      <4> DEFINE k == <<chanMap[Head(posted).ch], "event">>
      <4>1. k \in Controller \X Caller /\ stage[k[1]] = "over"
        BY <1>4, <2>1, <3>2 DEF Caller
      <4>2. removal' = [removal EXCEPT ![k] = "send"]
        BY <1>7, <3>2 DEF StartDisconnected, RemovalGoto
      <4> QED BY <4>1, <4>2
    <3> QED BY <3>1, <3>2
  <2>4. \A ch \in Chan : chanMap'[ch] = chanMap[ch] \/ chanMap'[ch] = NoController
    BY <2>1 DEF LoopTyped
  <2> QED BY <1>2, <1>5, <2>2, <2>3, <2>4
<1>8. CASE StartConnected
  <2>1. UNCHANGED <<chanMap, removal>>
    BY <1>8 DEF StartConnected, chanVars
  <2>2. CASE UNCHANGED addVars
    BY <1>2, <1>5, <2>1, <2>2 DEF addVars
  <2>3. CASE \E c \in Controller : /\ stage[c] = "unused" /\ UNCHANGED home
                                   /\ \E e : chanOf' = [chanOf EXCEPT ![c] = e]
                                   /\ \E s \in {"init", "init_wait"} : stage' = [stage EXCEPT ![c] = s]
    <3>1. PICK c \in Controller, s \in {"init", "init_wait"} :
            /\ stage[c] = "unused" /\ UNCHANGED home /\ stage' = [stage EXCEPT ![c] = s]
            /\ \E e : chanOf' = [chanOf EXCEPT ![c] = e]
      BY <2>3
    <3>2. \A d \in Controller : stage'[d] = IF d = c THEN s ELSE stage[d]
      BY <3>1 DEF AddsTyped
    <3>3. \A d \in Controller : d # c => chanOf'[d] = chanOf[d]
      BY <3>1 DEF AddsTyped
    <3>4. \A d \in Controller : stage'[d] \in Unclaimed => stage[d] \in Unclaimed
      BY <3>1, <3>2 DEF Unclaimed
    <3>5. \A d \in Controller : stage[d] = "over" => stage'[d] = "over" /\ chanOf'[d] = chanOf[d]
      BY <3>1, <3>2, <3>3
    <3>6. \A d \in Controller : stage'[d] \in {"added", "device"} => stage[d] \in {"added", "device"} /\ home'[d] = home[d]
      BY <3>1, <3>2
    <3> QED BY <1>2, <2>1, <3>4, <3>5, <3>6, QuietStep
  <2> QED BY <1>8, <2>2, <2>3 DEF StartConnected
<1>9. CASE \E c \in Controller : AddStep(c)
  BY <1>9, AddOwns
<1>10. CASE PollStep
  <2>1. UNCHANGED <<stage, chanOf, home>>
    BY <1>10 DEF PollStep, PollAnswer, PollReads, TeardownEnds, SessionOpens, SessionArmed, TeardownRemoves, addVars
  <2>2. \A ch \in Chan : chanMap'[ch] = chanMap[ch] \/ chanMap'[ch] = NoController
    <3>1. CASE PollReads
      <4>1. chanMap' = chanMap \/ \E ch : chanMap' = [chanMap EXCEPT ![ch] = NoController]
        BY <3>1 DEF PollReads, LooksAtAll, TearsDown
      <4> QED BY <4>1 DEF LoopTyped
    <3>2. CASE TeardownEnds \/ SessionArmed
      BY <3>2 DEF TeardownEnds, SessionArmed, NoChannels
    <3>3. CASE PollAnswer \/ SessionOpens \/ \E ch \in Chan : TeardownRemoves(ch)
      BY <3>3 DEF PollAnswer, SessionOpens, TeardownRemoves, chanVars
    <3> QED BY <1>10, <3>1, <3>2, <3>3 DEF PollStep
  <2>3. \/ UNCHANGED removal
        \/ \E k \in Controller \X Caller : removal' = [removal EXCEPT ![k] = "send"] /\ stage[k[1]] = "over"
    <3>1. ASSUME NEW ch \in Chan, Registered(ch), RemovalGoto(<<chanMap[ch], "loop">>, "send")
          PROVE  \E k \in Controller \X Caller : removal' = [removal EXCEPT ![k] = "send"] /\ stage[k[1]] = "over"
      <4> DEFINE k == <<chanMap[ch], "loop">>
      <4>1. k \in Controller \X Caller /\ stage[k[1]] = "over"
        BY <1>4, <3>1 DEF Caller
      <4>2. removal' = [removal EXCEPT ![k] = "send"]
        BY <3>1 DEF RemovalGoto
      <4> QED BY <4>1, <4>2
    <3>2. CASE PollReads
      <4>1. UNCHANGED removal \/ \E ch \in Chan : RemovalGoto(<<chanMap[ch], "loop">>, "send")
        BY <3>2 DEF PollReads, LooksAtAll, TearsDown, RegisteredChans, LoopTyped
      <4>2. ASSUME NEW ch \in Chan, ~Registered(ch), RemovalGoto(<<chanMap[ch], "loop">>, "send")
            PROVE  UNCHANGED removal
        <5>1. <<chanMap[ch], "loop">> \notin Controller \X Caller
          BY <4>2, BridgeAssumption DEF Registered
        <5> QED BY <4>2, <5>1 DEF RemovalGoto, LoopTyped
      <4> QED BY <3>1, <4>1, <4>2
    <3>3. CASE \E ch \in Chan : TeardownRemoves(ch)
      BY <3>1, <3>3 DEF TeardownRemoves
    <3>4. CASE PollAnswer \/ TeardownEnds \/ SessionOpens \/ SessionArmed
      BY <3>4 DEF PollAnswer, TeardownEnds, SessionOpens, SessionArmed
    <3> QED BY <1>10, <3>2, <3>3, <3>4 DEF PollStep
  <2> QED BY <1>2, <1>5, <2>1, <2>2, <2>3
<1> QED BY <1>6, <1>7, <1>8, <1>9, <1>10 DEF BridgeNext, TaskStep, SlotsTouched

\* Every step keeps who drives what, and is one of the pool.
LEMMA OwnersStep ==
  ASSUME SlotsInv, EventsTyped, AddsTyped, LoopTyped, OwnersInv, [BridgeNext]_bridgeVars
  PROVE  OwnersInv' /\ PoolStep
<1>1. CASE SlotsTouched
  <2>1. CASE \E c \in Controller : AddStep(c)
    BY <2>1, AddOwns
  <2>2. CASE \E k \in Controller \X Caller : RemoveStep(k)
    BY <2>2, RemoveOwns
  <2> QED BY <1>1, <2>1, <2>2 DEF SlotsTouched, AddStep
<1> QED BY <1>1, OthersOwn

-----------------------------------------------------------------------------
(* The inductive invariant and what it gives *)

BridgeInv ==
  /\ FwInv /\ EventsTyped /\ AddsTyped /\ LoopTyped
  /\ SlotsInv /\ BridgeLock /\ BridgeOrder
  /\ OwnersInv

\* It holds before the first session.
LEMMA BridgeStarts ==
  ASSUME BridgeInit
  PROVE  BridgeInv /\ Pool!PoolInit
<1>1. /\ made = 0 /\ table = [i \in Slot |-> NoVc] /\ lockq = <<>>
      /\ \A v \in VcId : ~InTable(v) /\ ~running[v] /\ ~device[v] /\ DOMAIN members[v] = {}
  BY DEF BridgeInit, SlotsInit, InTable, NoVc, VcId
<1>2. FwInv
  <2>1. FwTypeOK /\ \A ch \in Chan : ~Used(ch)
    BY DEF BridgeInit, FwInit, FwTypeOK, Unused, Used
  <2>2. toHost \in Seq(Event)
    BY DEF BridgeInit, FwInit
  <2> QED BY <2>1, <2>2 DEF FwInv
<1>3. EventsTyped
  <2>1. 0 \in 0 .. MaxRetry
    BY BridgeAssumption
  <2> QED BY <2>1 DEF BridgeInit, EventsTyped
<1>4. AddsTyped
  <2>1. 0 \in Chan
    BY FirmwareAssumption DEF Chan
  <2> QED BY <2>1 DEF BridgeInit, AddsTyped, Stages
<1>5. LoopTyped
  <2>1. 0 \in Counts
    BY BridgeAssumption DEF Counts
  <2> QED BY <2>1 DEF BridgeInit, LoopTyped
<1>6. SlotsInv
  <2>1. SlotsTypeOK
    BY SlotsAssumption DEF BridgeInit, SlotsInit, SlotsTypeOK, Slot, VcId, NoVc
  <2>2. OncePerTable(table) /\ \A i \in Slot : table[i] <= made
    BY <1>1 DEF OncePerTable, NoVc, VcId
  <2> QED BY <1>1, <2>1, <2>2 DEF SlotsInv
<1>7. BridgeLock
  BY <1>1 DEF BridgeInit, BridgeLock, InsideHolds
<1>8. BridgeOrder
  <2>1. Occupied(table) = {} /\ 1 .. 0 = {} /\ 0 \in 0 .. Slots
    BY <1>1, SlotsAssumption DEF Occupied
  <2> QED BY <2>1 DEF BridgeOrder, PlayersInOrder
<1>9. OwnersInv
  <2>1. DrivenOnce /\ ClaimedFirst
    BY <1>1 DEF DrivenOnce, ClaimedFirst
  <2>2. HomesKept /\ ChannelsOwned /\ RemovalsLast
    BY DEF BridgeInit, HomesKept, ChannelsOwned, RemovalsLast, Registered
  <2> QED BY <2>1, <2>2 DEF OwnersInv
<1>10. Pool!PoolInit
  BY <1>1 DEF Pool!PoolInit, Team
<1> QED BY <1>2, <1>3, <1>4, <1>5, <1>6, <1>7, <1>8, <1>9, <1>10 DEF BridgeInv

\* Every step of the route keeps the invariant.
LEMMA BridgeSteps ==
  ASSUME BridgeInv, [BridgeNext]_bridgeVars
  PROVE  BridgeInv' /\ PoolStep
<1>1. FwInv' /\ EventsTyped' /\ AddsTyped' /\ LoopTyped'
  BY FirmwareKept, EventsKept, AddsKept, LoopKept DEF BridgeInv
<1>2. SlotsInv' /\ BridgeLock' /\ BridgeOrder'
  BY SlotsKept, LockKept, OrderKept DEF BridgeInv
<1>3. OwnersInv' /\ PoolStep
  BY OwnersStep DEF BridgeInv
<1> QED BY <1>1, <1>2, <1>3 DEF BridgeInv

\* The invariant holds in every reachable state of the route.
THEOREM BridgeInvariance == BridgeSpec => []BridgeInv
<1>1. BridgeInit => BridgeInv
  BY BridgeStarts
<1>2. BridgeInv /\ [BridgeNext]_bridgeVars => BridgeInv'
  BY BridgeSteps
<1> QED BY <1>1, <1>2, PTL DEF BridgeSpec

\* However the event of a disconnect, the polls that miss the channel and the loss of the
\* bridge meet, the controller that a channel's input goes to drives a slot.
THEOREM ChannelsDriven == BridgeSpec => []RegisteredIsDriven
<1>1. BridgeInv => RegisteredIsDriven
  <2> SUFFICES ASSUME BridgeInv, NEW ch \in Chan, Registered(ch) PROVE VcOf(chanMap[ch]) # NoVc
    BY DEF RegisteredIsDriven, RegisteredChans
  <2>1. PICK v \in VcId : chanMap[ch] \in Team(v)
    BY DEF BridgeInv, OwnersInv, ChannelsOwned, InTeam
  <2>2. InTable(v) /\ Drives(v, chanMap[ch])
    BY <2>1 DEF Team, Drives
  <2>3. VcOf(chanMap[ch]) \in VcId
    BY <2>2 DEF VcOf
  <2> QED BY <2>3, SlotsAssumption DEF VcId, NoVc
<1> QED BY <1>1, BridgeInvariance, PTL

\* The variables of the route keep their types; and whenever nobody is inside GLOBAL_LOCK
\* the players are 1, 2, ... in the order of the slots, whoever claimed or left a slot.
THEOREM BridgeOrdered == BridgeSpec => []BridgeInOrder
<1>1. BridgeInv => BridgeInOrder
  <2> SUFFICES ASSUME BridgeInv PROVE BridgeTypeOK /\ BridgePlayers
    BY DEF BridgeInOrder
  <2>1. BridgeTypeOK
    BY DEF BridgeInv, FwInv, EventsTyped, AddsTyped, LoopTyped, Counts, SlotsInv, BridgeTypeOK
  <2>2. BridgePlayers
    BY DEF BridgeInv, BridgeOrder, BridgePlayers, LockFree, Holds
  <2> QED BY <2>1, <2>2
<1> QED BY <1>1, BridgeInvariance, PTL

\* However the events, the retries, the polls and the sessions interleave, what this route
\* does to the slots is what SlotPool allows.
THEOREM BridgeRefinement == BridgeSpec => ImplementsPool
<1>1. BridgeInit => Pool!PoolInit
  BY BridgeStarts
<1>2. BridgeInv /\ [BridgeNext]_bridgeVars => [Pool!PoolNext]_(Pool!poolVars)
  BY BridgeSteps DEF PoolStep
<1> QED BY <1>1, <1>2, BridgeInvariance, PTL DEF BridgeSpec, ImplementsPool, Pool!Spec

=============================================================================
