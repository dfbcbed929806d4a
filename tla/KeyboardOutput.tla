--------------------------- MODULE KeyboardOutput ---------------------------
(***************************************************************************)
(* The shared keyboard output of src/src/keyboard_output.py: every mapped  *)
(* button of every controller presses and releases its keys through one    *)
(* KeyboardOutputManager, which sends them either to Windows directly      *)
(* ("Standard", keybd_event) or to a WinUHid virtual keyboard              *)
(* ("Raw Input"), and may have to change sink while keys are held.         *)
(*                                                                         *)
(* Every method of the manager runs under its lock, so a call is one step; *)
(* what is not atomic is the callers: initialize() and the GUI's toggle    *)
(* read the mode before they change it, and the suspend handler releases   *)
(* the keys before it stops the controllers.  A token stands for the key   *)
(* it names: its HID usage and its Win32 virtual-key code are constants.   *)
(* keybd_event is taken to succeed.                                        *)
(***************************************************************************)
EXTENDS Naturals, FiniteSets

CONSTANTS
  Device,     \* controllers, by address
  Source,     \* source ids: a mapping of a controller
  Token,      \* the VK_ tokens of the mappings
  Edge,       \* the (source, token) pairs the mappings of the controllers produce
  DeviceOf,   \* the controller whose address is the prefix of a source id
  Usage,      \* HID usages
  Modifier,   \* the usages of the modifier byte
  UsageOf,    \* token_to_hid_usage
  NoUsage,    \* its None
  Vk,         \* Win32 virtual-key codes
  VkOf,       \* _legacy_vk_code
  NoVk,       \* its None
  RollOver,   \* ErrorRollOver, which a report carries when too many keys are down
  MaxKeys,    \* key slots of a report
  Caller,     \* threads that call initialize()
  Gui         \* the one of them that runs the GUI; the other is the start-up worker

ASSUME KeyboardAssumption ==
  /\ Edge \subseteq Source \X Token
  /\ DeviceOf \in [Source -> Device]
  /\ UsageOf \in [Token -> Usage \cup {NoUsage}] /\ NoUsage \notin Usage
  /\ VkOf \in [Token -> Vk \cup {NoVk}] /\ NoVk \notin Vk
  /\ Modifier \subseteq Usage /\ RollOver \notin Usage
  /\ MaxKeys \in Nat
  /\ Gui \in Caller

VARIABLES
  kb,         \* the manager and the two sinks behind it
  saved,      \* CONFIG.keyboard_output_mode of the active profile
  turn,       \* where each caller is inside initialize() or the toggle
  power,      \* "awake", "stopping" while the suspend handler runs, "asleep" after it
  suspended,  \* the controllers whose reports are ignored
  inReport,   \* the controllers whose report callback is running
  pressed     \* history: the edges pressed and neither released nor dropped with their controller

keyboardVars == <<kb, saved, turn, power, suspended, inReport, pressed>>
manager == <<kb, saved>>
system == <<power, suspended>>

\* mode: _effective_mode.  virtual: _keyboard is there (never without its device).
\* owners: _owners, a usage without owner being absent.  held: _standard_down.
\* reported: the keys of the virtual keyboard's last report.  vkDown: the keys
\* keybd_event left down.  missed: history, a release was not reported.
Manager ==
  [mode: {"standard", "raw"}, virtual: BOOLEAN, owners: [Usage -> SUBSET Source],
   held: SUBSET (Source \X Token), reported: SUBSET (Usage \cup {RollOver}),
   vkDown: SUBSET Vk, missed: BOOLEAN]

KeyboardTypeOK ==
  /\ kb \in Manager
  /\ saved \in {"unset", "standard", "raw"}
  /\ turn \in [Caller -> {"idle", "init", "init_raw", "init_standard", "raw_save",
                          "raw_keep", "toggle_standard"}]
  /\ power \in {"awake", "stopping", "asleep"}
  /\ suspended \in SUBSET Device
  /\ inReport \in SUBSET Device
  /\ pressed \in SUBSET Edge

NoOwners == [u \in Usage |-> {}]

-----------------------------------------------------------------------------
(* The Win32 sink *)

\* Some source of the pairs still holds the token.
HoldsToken(pairs, t) == \E p \in pairs : p[2] = t

\* (mutation) every release lifts its key, whoever else holds it
KeyUpsOfAnyOwner(k, pairs) ==
  [k EXCEPT !.held = @ \ pairs, !.vkDown = @ \ {VkOf[p[2]] : p \in pairs}]

\* The pairs are released one by one: a key goes up with the last of its owners,
\* also when that owner never pressed it.
KeyUps(k, pairs) ==
  [k EXCEPT !.held = @ \ pairs,
            !.vkDown = @ \ {VkOf[p[2]] : p \in {q \in pairs : ~HoldsToken(k.held \ pairs, q[2])}}]

\* A key another owner already holds is not pressed again; a repeated press by the
\* same owner is.
KeyDown(k, s, t) ==
  LET others == {p \in k.held : p[1] # s}
      silent == <<s, t>> \notin k.held /\ HoldsToken(others, t)
  IN [k EXCEPT !.held = @ \cup {<<s, t>>},
               !.vkDown = IF silent THEN @ ELSE @ \cup {VkOf[t]}]

StandardEvent(k, s, t, down) ==
  IF VkOf[t] = NoVk THEN k
  ELSE IF down THEN KeyDown(k, s, t)
  ELSE KeyUps(k, {<<s, t>>})

-----------------------------------------------------------------------------
(* The virtual keyboard *)

\* The report of the owned usages, with ErrorRollOver when the keys do not fit.
Report(owners) ==
  LET down == {u \in Usage : owners[u] # {}}
      keys == down \ Modifier
  IN (down \cap Modifier) \cup (IF Cardinality(keys) <= MaxKeys THEN keys ELSE {RollOver})

\* A report the driver refuses leaves the keys of the one before.
Submit(k, ok) ==
  IF ok THEN [k EXCEPT !.reported = Report(k.owners), !.missed = FALSE]
  ELSE [k EXCEPT !.missed = TRUE]

\* _release_all_locked: the failure of its report is swallowed.
ReleaseAll(k, ok) ==
  LET empty == [k EXCEPT !.owners = NoOwners]
  IN KeyUps(IF k.virtual THEN Submit(empty, ok) ELSE empty, k.held)

\* (mutation) the keys held at the old sink are not released first
ActivateRawKeepingKeys(k, made) ==
  IF k.virtual THEN [k EXCEPT !.mode = "raw"]
  ELSE IF ~made THEN [k EXCEPT !.mode = "standard"]
  ELSE [k EXCEPT !.mode = "raw", !.virtual = TRUE]

\* made: the driver is there, the device was created and took its first report.
ActivateRaw(k, made) ==
  IF k.virtual THEN [k EXCEPT !.mode = "raw"]
  ELSE IF ~made THEN [k EXCEPT !.mode = "standard"]
  ELSE [ReleaseAll(k, TRUE) EXCEPT !.mode = "raw", !.virtual = TRUE]

\* Destroying the device lifts its keys whatever became of the last report.
ActivateStandard(k) ==
  [ReleaseAll(k, TRUE) EXCEPT !.mode = "standard", !.virtual = FALSE]

EffectiveRaw(k) == k.mode = "raw" /\ k.virtual

\* A saved Raw Input is taken up again by the first key, then the key is sent.  A
\* report that fails drops every key and reverts to Standard.
KeyEvent(k, s, t, down, made, ok) ==
  LET k1 == IF k.mode = "standard" /\ ~k.virtual /\ saved = "raw" THEN ActivateRaw(k, made) ELSE k
      k2 == [k1 EXCEPT !.owners[UsageOf[t]] = IF down THEN @ \cup {s} ELSE @ \ {s}]
  IN IF ~EffectiveRaw(k1) \/ UsageOf[t] = NoUsage THEN StandardEvent(k1, s, t, down)
     ELSE IF ok THEN Submit(k2, TRUE)
     ELSE ActivateStandard(k2)

OwnedBy(d) == {s \in Source : DeviceOf[s] = d}
HeldBy(k, d) == {p \in k.held : DeviceOf[p[1]] = d}

\* (mutation) the owners are dropped without a new report
ReleaseSourceUnreported(k, d, ok) ==
  LET k1 == [k EXCEPT !.owners = [u \in Usage |-> @[u] \ OwnedBy(d)]]
  IN KeyUps(k1, HeldBy(k, d))

\* (mutation) the keys held at the Win32 sink are forgotten
ReleaseSourceRawOnly(k, d, ok) ==
  LET k1 == [k EXCEPT !.owners = [u \in Usage |-> @[u] \ OwnedBy(d)]]
  IN IF k1.owners # k.owners /\ k.virtual THEN Submit(k1, ok) ELSE k1

\* The outcome of the report is ignored.
ReleaseSource(k, d, ok) ==
  LET k1 == [k EXCEPT !.owners = [u \in Usage |-> @[u] \ OwnedBy(d)]]
      k2 == IF k1.owners # k.owners /\ k.virtual THEN Submit(k1, ok) ELSE k1
  IN KeyUps(k2, HeldBy(k, d))

-----------------------------------------------------------------------------
(* The controllers *)

\* The callback looks at suspended once, when it starts.
ReportStart(d) ==
  /\ d \notin suspended /\ d \notin inReport
  /\ inReport' = inReport \cup {d}
  /\ UNCHANGED <<manager, turn, system, pressed>>

ReportEnd(d) ==
  /\ d \in inReport
  /\ inReport' = inReport \ {d}
  /\ UNCHANGED <<manager, turn, system, pressed>>

\* A press, which a held button repeats.
Press(s, t) ==
  /\ DeviceOf[s] \in inReport
  /\ \E made, ok \in BOOLEAN : kb' = KeyEvent(kb, s, t, TRUE, made, ok)
  /\ pressed' = pressed \cup {<<s, t>>}
  /\ UNCHANGED <<saved, turn, system, inReport>>

\* A release, also of a key that a mode switch or a disconnect already lifted.
Release(s, t) ==
  /\ DeviceOf[s] \in inReport
  /\ \E made, ok \in BOOLEAN : kb' = KeyEvent(kb, s, t, FALSE, made, ok)
  /\ pressed' = pressed \ {<<s, t>>}
  /\ UNCHANGED <<saved, turn, system, inReport>>

\* disconnect() of a controller, on the loop; a report may still come after it.
Disconnect(d) ==
  /\ \E ok \in BOOLEAN : kb' = ReleaseSource(kb, d, ok)
  /\ pressed' = {p \in pressed : DeviceOf[p[1]] # d}
  /\ UNCHANGED <<saved, turn, system, inReport>>

-----------------------------------------------------------------------------
(* The callers of initialize() and of the mode switches *)

Turn(c, from, to) ==
  /\ turn[c] = from
  /\ turn' = [turn EXCEPT ![c] = to]
  /\ UNCHANGED <<system, inReport, pressed>>

InitializeBegin(c) == Turn(c, "idle", "init") /\ UNCHANGED manager

\* Another profile, with its own saved mode, then initialize().
SwitchProfile ==
  /\ Turn(Gui, "idle", "init")
  /\ saved' \in {"unset", "standard", "raw"}
  /\ UNCHANGED kb

\* requested_mode(): a profile without a saved mode asks for what the driver allows.
InitializeRequest(c) ==
  /\ \/ saved \in {"raw", "unset"} /\ Turn(c, "init", "init_raw")
     \/ saved \in {"standard", "unset"} /\ Turn(c, "init", "init_standard")
  /\ UNCHANGED manager

\* The save argument is read before the lock is taken.
InitializeSave(c) ==
  /\ Turn(c, "init_raw", IF saved = "unset" THEN "raw_save" ELSE "raw_keep")
  /\ UNCHANGED manager

SwitchToRaw(c) ==
  \E made \in BOOLEAN :
    /\ kb' = ActivateRaw(kb, made)
    /\ \/ Turn(c, "raw_keep", "idle") /\ saved' = saved
       \/ Turn(c, "raw_save", "idle") /\ saved' = IF kb'.virtual THEN "raw" ELSE saved

SwitchToStandard(c) ==
  /\ kb' = ActivateStandard(kb)
  /\ \/ Turn(c, "init_standard", "idle") /\ saved' = saved
     \/ Turn(c, "toggle_standard", "idle") /\ saved' = "standard"

\* The GUI's button: effective_mode() decides which way to switch; without a
\* healthy driver there is nothing to do.
Toggle ==
  /\ Turn(Gui, "idle", IF EffectiveRaw(kb) THEN "toggle_standard" ELSE "raw_save")
  /\ UNCHANGED manager

\* The uninstaller: the virtual keyboard goes, the saved mode stays.
DriverRemoved ==
  /\ kb' = ActivateStandard(kb)
  /\ UNCHANGED <<saved, turn, system, inReport, pressed>>

\* An installer or uninstaller that failed takes a saved Raw Input up again.
DriverKept ==
  /\ saved = "raw"
  /\ \E made \in BOOLEAN : kb' = ActivateRaw(kb, made)
  /\ UNCHANGED <<saved, turn, system, inReport, pressed>>

-----------------------------------------------------------------------------
(* Suspend and resume, on the GUI thread *)

SuspendBegin ==
  /\ power = "awake"
  /\ \E ok \in BOOLEAN : kb' = ReleaseAll(kb, ok)
  /\ power' = "stopping"
  /\ UNCHANGED <<saved, turn, suspended, inReport, pressed>>

SuspendController(d) ==
  /\ power = "stopping" /\ d \notin suspended
  /\ suspended' = suspended \cup {d}
  /\ UNCHANGED <<manager, turn, power, inReport, pressed>>

SuspendEnd ==
  /\ power = "stopping" /\ suspended = Device
  /\ power' = "asleep"
  /\ UNCHANGED <<manager, turn, suspended, inReport, pressed>>

\* emergency_cleanup() shuts the keyboard down; the controllers come back as new
\* objects, which are not suspended.
Resume ==
  /\ power = "asleep"
  /\ kb' = ActivateStandard(kb)
  /\ power' = "awake" /\ suspended' = {} /\ inReport' = {} /\ pressed' = {}
  /\ UNCHANGED <<saved, turn>>

-----------------------------------------------------------------------------
KeyboardInit ==
  /\ kb = [mode |-> "standard", virtual |-> FALSE, owners |-> NoOwners, held |-> {},
           reported |-> {}, vkDown |-> {}, missed |-> FALSE]
  /\ saved \in {"unset", "standard", "raw"}
  /\ turn = [c \in Caller |-> "idle"]
  /\ power = "awake"
  /\ suspended = {} /\ inReport = {} /\ pressed = {}

KeyboardNext ==
  \/ \E e \in Edge : Press(e[1], e[2]) \/ Release(e[1], e[2])
  \/ \E d \in Device : ReportStart(d) \/ ReportEnd(d) \/ Disconnect(d) \/ SuspendController(d)
  \/ \E c \in Caller :
       \/ InitializeBegin(c) \/ InitializeRequest(c) \/ InitializeSave(c)
       \/ SwitchToRaw(c) \/ SwitchToStandard(c)
  \/ SwitchProfile \/ Toggle \/ DriverRemoved \/ DriverKept
  \/ SuspendBegin \/ SuspendEnd \/ Resume

KeyboardSpec == KeyboardInit /\ [][KeyboardNext]_keyboardVars

-----------------------------------------------------------------------------
(* Properties *)

\* A held key lives in one sink: without the virtual keyboard no usage is owned, and
\* with it keybd_event holds only the keys that have no HID usage, through every
\* mode switch, failed report and concurrent initialize().
OneSink ==
  /\ kb.mode = "raw" <=> kb.virtual
  /\ ~kb.virtual => kb.owners = NoOwners
  /\ kb.virtual => \A p \in kb.held : UsageOf[p[2]] = NoUsage

\* No key is stuck: a key that is down at either sink was pressed by a mapping that
\* has not released it and whose controller has not been disconnected since, unless
\* the report of the release itself was refused by the driver.
NoStuckKey ==
  /\ \A v \in kb.vkDown : \E p \in pressed : VkOf[p[2]] = v
  /\ ~kb.missed => \A u \in kb.reported \ {RollOver} : \E p \in pressed : UsageOf[p[2]] = u

\* The virtual keyboard shows exactly the owned keys, across owners that share a
\* usage, roll-over, release_source and reconnection of the sink; it shows none
\* when it is closed; and every variable keeps its type.
ReportIsOwners ==
  /\ KeyboardTypeOK
  /\ kb.virtual /\ ~kb.missed => kb.reported = Report(kb.owners)
  /\ ~kb.virtual => kb.reported = {} /\ ~kb.missed

\* "One owner releasing must not lift a key still held by somebody else": a token
\* held at the Win32 sink is down there (_standard_event).
HeldStaysDown == \A p \in kb.held : VkOf[p[2]] \in kb.vkDown

\* The keys released for the suspend stay up: when the machine may sleep and no
\* report is being handled, no key is down (gui.py, handle_power_event).
AsleepKeysUp ==
  power = "asleep" /\ inReport = {} /\ ~kb.missed => kb.vkDown = {} /\ kb.reported = {}

=============================================================================
