------------------------------ MODULE WiredRoute ------------------------------
(***************************************************************************)
(* The wired USB route, run_usb_hid_discovery in src/src/discoverer.py:    *)
(* the watcher loop, one _add task per pad a scan finds, and _remove,      *)
(* called when a transport dies, when the idle tick finds it dead and when *)
(* a scan misses the pad.  Pads are known by their HID path.  The player   *)
(* slots are PlayerSlots.                                                  *)
(*                                                                         *)
(* External: the cable, HidHide (it obeys), the USB stack (a scan finds    *)
(* some of the pads that are plugged in; a transport may die at any time). *)
(* Timers are "may fire", where the code's ceilings allow it.  Auto scan   *)
(* is on, HidHide in use, and the Full power-saving limit is not reached:  *)
(* at that limit the watcher has no idle tick.                             *)
(***************************************************************************)
EXTENDS PlayerSlots

CONSTANTS
  Key,         \* device keys: the HID path of a port with its pad
  NoKey,       \* the key of a Controller of another route
  KeyOf,       \* the device a Controller object drives
  MaxRetries,  \* arrival retries, 4 in the code
  MaxAsked     \* bound: requests that wait when another one comes from outside

ASSUME WiredAssumption ==
  /\ NoKey \notin Key
  /\ KeyOf \in [Controller -> Key \cup {NoKey}]
  /\ MaxRetries \in Nat
  /\ MaxAsked \in Nat

VARIABLES
  plugged,   \* the pads that are plugged in
  known,     \* key -> the controllers added and not removed, {} or one of them
  adding,    \* "connecting": keys with an _add task on its way
  attempt,   \* where the _add of each Controller stands
  claimed,   \* its claimed_vc
  late,      \* VirtualControllers whose setup thread outlived its timeout
  overdue,   \* (history) keys swept from "connecting" under an _add that is alive
  live,      \* controllers whose transport works
  removal,   \* key -> the _remove under way for it
  hidden,    \* hidden_instances, the HidHide blacklist
  requests,  \* WIRED_RESCAN_REQUESTS
  retries,   \* key -> arrival retries still to come
  watcher,   \* "idle", or how far the scan is
  taken,     \* the reasons of the requests it serves
  path,      \* candidate_path
  chosen     \* the keys it found, then those it misses

taskState == <<known, adding, attempt, claimed, late, overdue>>
padState == <<plugged, live>>
scanState == <<requests, retries, watcher, taken, path, chosen>>
wiredVars == <<slotVars, taskState, padState, removal, hidden, scanState>>

Pads == {c \in Controller : KeyOf[c] \in Key}
NoRemoval == [st |-> "none", who |-> {}, rescan |-> FALSE]
Attempts == {"unused", "opening", "claim_wait", "added", "full", "device",
             "resumes", "give_wait", "closing", "over"}
\* Why a scan was asked for; a manual one has no path.
Asked == {"arrival", "retry", "recovery", "removal", "manual"}

WiredTypeOK ==
  /\ SlotsTypeOK
  /\ plugged \subseteq Key /\ adding \subseteq Key /\ hidden \subseteq Key /\ chosen \subseteq Key
  /\ known \in [Key -> SUBSET Pads] /\ \A k \in Key : Cardinality(known[k]) <= 1
  /\ attempt \in [Controller -> Attempts]
  /\ claimed \in [Controller -> VcId \cup {NoVc}]
  /\ late \subseteq VcId /\ overdue \subseteq Key
  /\ live \subseteq Pads
  /\ removal \in [Key -> [st : {"none", "wait", "leds", "closing"},
                          who : SUBSET Pads, rescan : BOOLEAN]]
  /\ requests \subseteq Asked \X (Key \cup {NoKey})
  /\ taken \subseteq Asked /\ path \in Key \cup {NoKey}
  /\ retries \in [Key -> 0 .. MaxRetries]
  /\ watcher \in {"idle", "taken", "found", "missing"}

-----------------------------------------------------------------------------
(* Processes that queue for GLOBAL_LOCK *)
AddPad(c) == <<"add_pad", c>>
GiveBack(c) == <<"give_back", c>>
RemovePad(k) == <<"remove_pad", k>>

-----------------------------------------------------------------------------
(* _remove *)

RemovalOf(k, st, c, rescan) ==
  removal' = [removal EXCEPT ![k] = [st |-> st, who |-> {c}, rescan |-> rescan]]

\* Entered: a call for a key that is being removed returns at once.  The key is
\* forgotten whatever controller it has, then the slot freed under GLOBAL_LOCK.
RemoveBegins(c, rescan) ==
  LET k == KeyOf[c] IN
  IF removal[k].st # "none"
  THEN UNCHANGED <<slotVars, known, removal>>
  ELSE /\ known' = [known EXCEPT ![k] = {}]
       /\ IF LockFree
          THEN Evict(c) /\ lockq' = <<RemovePad(k)>> /\ RemovalOf(k, "leds", c, rescan)
          ELSE /\ lockq' = Append(lockq, RemovePad(k)) /\ RemovalOf(k, "wait", c, rescan)
               /\ UNCHANGED vcVars

RemoveGetsLock(k) ==
  /\ removal[k].st = "wait" /\ Holds(RemovePad(k))
  /\ \E c \in removal[k].who : Evict(c)
  /\ removal' = [removal EXCEPT ![k].st = "leds"]
  /\ UNCHANGED <<lockq, taskState, padState, hidden, scanState>>

RemoveReorders(k) ==
  /\ removal[k].st = "leds"
  /\ Reorder(table, members)
  /\ lockq' = Tail(lockq)
  /\ removal' = [removal EXCEPT ![k].st = "closing"]
  /\ live' = live \ removal[k].who
  /\ UNCHANGED <<made, members, running, device, taskState, plugged, hidden, scanState>>

\* controller.disconnect() returned or timed out; a transport that died asks for
\* one rescan and for the arrival retries, unless they are under way.
RemoveEnds(k) ==
  /\ removal[k].st = "closing"
  /\ removal' = [removal EXCEPT ![k] = NoRemoval]
  /\ IF removal[k].rescan
     THEN /\ requests' = requests \cup {<<"recovery", k>>}
          /\ retries' = [retries EXCEPT ![k] = IF @ = 0 THEN MaxRetries ELSE @]
     ELSE UNCHANGED <<requests, retries>>
  /\ UNCHANGED <<slotVars, taskState, padState, hidden, watcher, taken, path, chosen>>

-----------------------------------------------------------------------------
(* _add *)

AttemptGoto(c, s) == attempt' = [attempt EXCEPT ![c] = s]

\* The except clause of an attempt that has claimed no slot: controller.disconnect().
Closes(c) == AttemptGoto(c, "closing") /\ live' = live \ {c}

InitRaises(c) ==
  /\ attempt[c] = "opening"
  /\ Closes(c)
  /\ UNCHANGED <<slotVars, known, adding, claimed, late, overdue, plugged, removal, hidden,
                 scanState>>

\* disconnect() is over; the pad is shown again and the key free.
CloseEnds(c) ==
  /\ attempt[c] = "closing"
  /\ AttemptGoto(c, "over")
  /\ hidden' = hidden \ {KeyOf[c]} /\ adding' = adding \ {KeyOf[c]}
  /\ UNCHANGED <<slotVars, known, claimed, late, overdue, padState, removal, scanState>>

\* The first free slot of the table; with none, disconnect() is awaited with the
\* lock held.
ClaimSlot(c, q) ==
  LET i == First({j \in Slot : table[j] = NoVc}) IN
  /\ lockq' = q
  /\ IF Occupied(table) = Slot
     THEN AttemptGoto(c, "full") /\ live' = live \ {c} /\ UNCHANGED <<vcVars, claimed>>
     ELSE /\ Create(c)
          /\ table' = [table EXCEPT ![i] = NewVc]
          /\ player' = [player EXCEPT ![NewVc] = i]
          /\ claimed' = [claimed EXCEPT ![c] = NewVc]
          /\ AttemptGoto(c, "added")
          /\ UNCHANGED live

InitDone(c) ==
  /\ attempt[c] = "opening"
  /\ IF LockFree
     THEN ClaimSlot(c, <<AddPad(c)>>)
     ELSE /\ lockq' = Append(lockq, AddPad(c)) /\ AttemptGoto(c, "claim_wait")
          /\ UNCHANGED <<vcVars, claimed, live>>
  /\ UNCHANGED <<known, adding, late, overdue, plugged, removal, hidden, scanState>>

AddGetsLock(c) ==
  /\ attempt[c] = "claim_wait" /\ Holds(AddPad(c))
  /\ ClaimSlot(c, lockq)
  /\ UNCHANGED <<known, adding, late, overdue, plugged, removal, hidden, scanState>>

FullEnds(c) ==
  /\ attempt[c] = "full"
  /\ lockq' = Tail(lockq)
  /\ AttemptGoto(c, "over")
  /\ hidden' = hidden \ {KeyOf[c]} /\ adding' = adding \ {KeyOf[c]}
  /\ UNCHANGED <<vcVars, known, claimed, late, overdue, padState, removal, scanState>>

AddedDone(c) ==
  /\ attempt[c] = "added"
  /\ Reorder(table, members)
  /\ lockq' = Tail(lockq)
  /\ AttemptGoto(c, "device")
  /\ UNCHANGED <<made, members, running, device, known, adding, claimed, late, overdue, padState,
                 removal, hidden, scanState>>

\* The slot is handed back, found by identity: it may have been freed, or moved.
HandBack(c, q) ==
  LET v == claimed[c] IN
  /\ IF InTable(v)
     THEN LET t == [i \in Slot |-> IF table[i] = v THEN NoVc ELSE table[i]] IN
          /\ members' = [members EXCEPT ![v] = <<>>]
          /\ running' = [running EXCEPT ![v] = FALSE]
          /\ device' = [device EXCEPT ![v] = FALSE]
          /\ Reorder(t, members')
     ELSE Reorder(table, members) /\ UNCHANGED <<members, running, device>>
  /\ lockq' = Tail(q)
  /\ claimed' = [claimed EXCEPT ![c] = NoVc]
  /\ Closes(c)
  /\ UNCHANGED made

\* (mutation) the claimed slot is not handed back
RollsBackWithoutSlot(c, q) ==
  /\ lockq' = q /\ Closes(c)
  /\ claimed' = [claimed EXCEPT ![c] = NoVc]
  /\ UNCHANGED vcVars

RollsBack(c, q) ==
  IF q = <<>>
  THEN HandBack(c, <<GiveBack(c)>>)
  ELSE /\ lockq' = Append(q, GiveBack(c)) /\ AttemptGoto(c, "give_wait")
       /\ UNCHANGED <<vcVars, claimed, live>>

\* init_added_controller() raises, with the lock held until then.
AddedRaises(c) ==
  /\ attempt[c] = "added"
  /\ RollsBack(c, Tail(lockq))
  /\ UNCHANGED <<known, adding, late, overdue, plugged, removal, hidden, scanState>>

GiveBackGetsLock(c) ==
  /\ attempt[c] = "give_wait" /\ Holds(GiveBack(c))
  /\ HandBack(c, lockq)
  /\ UNCHANGED <<known, adding, late, overdue, plugged, removal, hidden, scanState>>

\* setup_virtual_device() returns in its thread; the task goes on later, whatever
\* became of the controller meanwhile, and the pad is known.
DeviceDone(c) ==
  /\ attempt[c] = "device"
  /\ SetupSucceeds(claimed[c])
  /\ AttemptGoto(c, "resumes")
  /\ UNCHANGED <<lockq, table, made, members, running, player, known, adding, claimed, late,
                 overdue, padState, removal, hidden, scanState>>

AddEnds(c) ==
  /\ attempt[c] = "resumes"
  /\ AttemptGoto(c, "over")
  /\ known' = [known EXCEPT ![KeyOf[c]] = {c}]
  /\ adding' = adding \ {KeyOf[c]}
  /\ claimed' = [claimed EXCEPT ![c] = NoVc]
  /\ UNCHANGED <<slotVars, late, overdue, padState, removal, hidden, scanState>>

\* It raises, or exceeds its timeout and goes on in its thread.
DeviceRaises(c) ==
  /\ attempt[c] = "device"
  /\ RollsBack(c, lockq)
  /\ \E slow \in {{}, {claimed[c]}} : late' = late \cup slow
  /\ UNCHANGED <<known, adding, overdue, plugged, removal, hidden, scanState>>

LateSetup(v) ==
  /\ v \in late
  /\ late' = late \ {v}
  /\ SetupRaises(v)
  /\ UNCHANGED <<lockq, table, made, members, running, player, known, adding, attempt, claimed,
                 overdue, padState, removal, hidden, scanState>>

-----------------------------------------------------------------------------
(* The pads *)

\* The read thread gives up and has the loop run the callback, unless disconnect()
\* has begun.
Dies(c) ==
  /\ c \in live
  /\ live' = live \ {c}
  /\ RemoveBegins(c, TRUE)
  /\ UNCHANGED <<adding, attempt, claimed, late, overdue, plugged, hidden, scanState>>

\* The Controller objects left for k bound how often it comes back.
Fresh(k) == {c \in Pads : KeyOf[c] = k /\ attempt[c] = "unused"}
NextPad(k) == CHOOSE c \in Fresh(k) : TRUE

\* request_wired_rescan, by the device notifications, the user and the retries
Asks(why, k) ==
  /\ Cardinality(requests) <= MaxAsked
  /\ requests' = requests \cup {<<why, k>>}

Plug(k) ==
  /\ k \notin plugged /\ Fresh(k) # {}
  /\ plugged' = plugged \cup {k}
  /\ Asks("arrival", k)
  /\ UNCHANGED <<slotVars, taskState, live, removal, hidden, retries, watcher, taken, path, chosen>>

Unplug(k) ==
  /\ k \in plugged
  /\ plugged' = plugged \ {k}
  /\ Asks("removal", k)
  /\ UNCHANGED <<slotVars, taskState, live, removal, hidden, retries, watcher, taken, path, chosen>>

-----------------------------------------------------------------------------
(* The watcher loop *)

\* The user asks for a scan.
ManualScan ==
  /\ Asks("manual", NoKey)
  /\ UNCHANGED <<slotVars, taskState, padState, removal, hidden, retries, watcher, taken, path, chosen>>

RetryFires(k) ==
  /\ retries[k] > 0
  /\ retries' = [retries EXCEPT ![k] = @ - 1]
  /\ Asks("retry", k)
  /\ UNCHANGED <<slotVars, taskState, padState, removal, hidden, watcher, taken, path, chosen>>

\* The requests are taken; any path may be that of the last one.  After a removal
\* the retries of that path are over.
TakeRequests ==
  /\ watcher = "idle" /\ requests # {}
  /\ watcher' = "taken"
  /\ taken' = {r[1] : r \in requests} /\ requests' = {}
  /\ path' \in LET asked == {r[2] : r \in requests} \ {NoKey}
              IN  IF asked = {} THEN {NoKey} ELSE asked
  /\ retries' = [k \in Key |-> IF "removal" \in taken' /\ k = path' THEN 0 ELSE retries[k]]
  /\ UNCHANGED <<slotVars, taskState, padState, removal, hidden, chosen>>

\* A manual scan shows the pads whose controller is not known again.  The scan
\* runs in a thread and finds some of the pads that are there.
Enumerate ==
  /\ watcher = "taken"
  /\ watcher' = "found"
  /\ hidden' = IF "manual" \in taken THEN {k \in hidden : known[k] # {}} ELSE hidden
  /\ \E found \in SUBSET plugged : chosen' = found
  /\ UNCHANGED <<slotVars, taskState, padState, removal, requests, retries, taken, path>>

\* (mutation) a pad that is being added is added again
NewPadsAgain == {k \in chosen : known[k] = {} /\ Fresh(k) # {}}

\* The pads nobody has
NewPads == {k \in chosen : known[k] = {} /\ k \notin adding /\ Fresh(k) # {}}

\* Each of them is added: its key taken, hidden, its transport
\* opened.  An arrival that found nothing is tried again, one that found a pad not.
ScanActs ==
  /\ watcher = "found"
  /\ adding' = adding \cup NewPads /\ hidden' = hidden \cup NewPads
  /\ attempt' = [c \in Controller |-> IF \E k \in NewPads : c = NextPad(k) THEN "opening" ELSE attempt[c]]
  /\ live' = live \cup {NextPad(k) : k \in NewPads}
  /\ retries' = [k \in Key |->
       CASE k = path /\ chosen # {} -> 0
         [] k = path /\ chosen = {} /\ "arrival" \in taken /\ "retry" \notin taken /\ retries[k] = 0
              -> MaxRetries
         [] OTHER -> retries[k]]
  /\ watcher' = "missing" /\ taken' = {} /\ path' = NoKey
  /\ chosen' = IF taken \cap {"manual", "removal"} # {} THEN {k \in Key \ chosen : known[k] # {}} ELSE {}
  /\ UNCHANGED <<slotVars, known, claimed, late, overdue, plugged, removal, requests>>

\* A removal, or a manual scan: a known pad that was not found is removed.
MissingRemoved(k) ==
  /\ watcher = "missing" /\ k \in chosen
  /\ chosen' = chosen \ {k}
  /\ IF known[k] = {}
     THEN UNCHANGED <<slotVars, known, removal>>
     ELSE \E c \in known[k] : RemoveBegins(c, FALSE)
  /\ UNCHANGED <<adding, attempt, claimed, late, overdue, padState, hidden, requests, retries,
                 watcher, taken, path>>

ScanEnds ==
  /\ watcher = "missing" /\ chosen = {}
  /\ watcher' = "idle"
  /\ UNCHANGED <<slotVars, taskState, padState, removal, hidden, requests, retries, taken, path,
                 chosen>>

\* The idle tick, 0.5 s without a request.  An entry of "connecting" older than 15 s
\* is dropped: initialize() has its 8 s, so only an attempt beyond it is that old.
Tick == watcher = "idle" /\ requests = {}

SweepStale(k) ==
  /\ Tick /\ k \in adding
  /\ \A c \in Pads : KeyOf[c] = k => attempt[c] # "opening"
  /\ adding' = adding \ {k} /\ overdue' = overdue \cup {k}
  /\ UNCHANGED <<slotVars, known, attempt, claimed, late, padState, removal, hidden, scanState>>

\* (mutation) the dead pad is only forgotten
SweepForgets(k) ==
  /\ Tick
  /\ \E c \in known[k] : c \notin live
  /\ known' = [known EXCEPT ![k] = {}]
  /\ UNCHANGED <<slotVars, removal, adding, attempt, claimed, late, overdue, padState, hidden,
                 scanState>>

\* A known pad whose transport died unnoticed, or while it was being added
SweepDead(k) ==
  /\ Tick
  /\ \E c \in known[k] : c \notin live /\ RemoveBegins(c, TRUE)
  /\ UNCHANGED <<adding, attempt, claimed, late, overdue, padState, hidden, scanState>>

-----------------------------------------------------------------------------
WiredInit ==
  /\ plugged = {} /\ live = {}
  /\ known = [k \in Key |-> {}] /\ adding = {}
  /\ attempt = [c \in Controller |-> "unused"]
  /\ claimed = [c \in Controller |-> NoVc] /\ late = {} /\ overdue = {}
  /\ removal = [k \in Key |-> NoRemoval]
  /\ hidden = {}
  /\ requests = {} /\ retries = [k \in Key |-> 0]
  /\ watcher = "idle" /\ taken = {} /\ path = NoKey /\ chosen = {}

RemovePadStep(k) == RemoveGetsLock(k) \/ RemoveReorders(k) \/ RemoveEnds(k)
AddPadStep(c) ==
  \/ InitDone(c) \/ InitRaises(c) \/ AddGetsLock(c) \/ FullEnds(c) \/ AddedDone(c) \/ AddedRaises(c)
  \/ GiveBackGetsLock(c) \/ DeviceDone(c) \/ AddEnds(c) \/ DeviceRaises(c) \/ CloseEnds(c)
ScanStep ==
  \/ TakeRequests \/ Enumerate \/ ScanActs \/ ScanEnds
  \/ \E k \in Key : MissingRemoved(k)

\* What the program does on its own
OwnStep ==
  \/ ScanStep
  \/ \E c \in Pads : AddPadStep(c)
  \/ \E k \in Key : RemovePadStep(k) \/ SweepStale(k) \/ SweepDead(k) \/ RetryFires(k)
  \/ \E v \in VcId : LateSetup(v)

WiredNext ==
  \/ OwnStep \/ ManualScan
  \/ \E c \in Pads : Dies(c)
  \/ \E k \in Key : Plug(k) \/ Unplug(k)

WiredSpec == SlotsInit /\ WiredInit /\ [][WiredNext]_wiredVars

\* Something the event loop can run, it runs: opening, setting up and closing a pad
\* have their timeouts, and the watcher's waits and the sleeps of the retries end.
WiredFairness == WF_wiredVars(OwnStep)

-----------------------------------------------------------------------------
(* Properties *)

\* One pad never drives two slots, although every time it comes back, and every time
\* its add is tried again, a new Controller object stands for it: as long as no add of
\* the pad has taken more than the 15 s after which its key is given away.
OneSlotPerPad ==
  \A c, d \in Pads : c # d /\ KeyOf[c] = KeyOf[d] /\ KeyOf[c] \notin overdue =>
    VcOf(c) = NoVc \/ VcOf(d) = NoVc

WiredQuiet ==
  /\ watcher = "idle" /\ requests = {}
  /\ \A c \in Controller : attempt[c] \in {"unused", "over"}
  /\ \A k \in Key : removal[k].st = "none" /\ retries[k] = 0

\* Once nothing is under way, a slot a pad drives is one that "known" leads to ("a
\* claimed-but-never-finished slot is invisible to every cleanup path"), and a known
\* pad whose transport works drives one.
SlotsMatchKnown ==
  WiredQuiet =>
    \A c \in {x \in Pads : KeyOf[x] \notin overdue} :
      /\ VcOf(c) # NoVc => c \in known[KeyOf[c]]
      /\ c \in known[KeyOf[c]] \cap live => VcOf(c) # NoVc

\* Wherever the route is, a pad drives one slot, and the slots and "known" agree when nothing
\* is under way.
PadsInPlace == WiredTypeOK /\ OneSlotPerPad /\ SlotsMatchKnown

\* The user and the cable leave the watcher in peace in the end.
LeftInPeace == <>[][~(ManualScan \/ \E k \in Key : Plug(k) \/ Unplug(k))]_wiredVars

\* In the end no pad whose transport died drives a slot, also when it died while it was
\* being added, with its slot claimed or not yet, or while another removal went on.
DeadPadLeaves ==
  LeftInPeace =>
    <>[](\A c \in Pads : c \notin live /\ VcOf(c) # NoVc => KeyOf[c] \in overdue)

=============================================================================
