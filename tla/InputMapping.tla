---------------------------- MODULE InputMapping ----------------------------
(***************************************************************************)
(* How the input reports of one controller become held keys, tapped keys,  *)
(* mapping layers and pad buttons: the mapping half of                     *)
(* Controller.enable_input_notify_callback, with the manual profile        *)
(* selection that takes the reports over and the GUI thread that opens and *)
(* closes it (src/src/controller.py, src/src/gui.py, src/src/utils.py).    *)
(* A report is one action: the callback runs to its end on one thread.     *)
(***************************************************************************)
EXTENDS Naturals, FiniteSets

CONSTANTS
  Btn,            \* the physical buttons
  Confirm,        \* the button that confirms a profile, "A"
  Cancel,         \* the button that cancels the selection, "B"
  Profile,        \* the profiles
  NoProfile,      \* no profile
  HostKey,        \* the keys that Custom mappings press
  Layouts,        \* the configurations, see Layout
  MaxChange       \* bound: how many buttons change between two reports

Layer == {"base", "shifted"}

\* A mapping: "pad" is anything that is no key of the host; "keys", "shift", "gyro" and
\* "lock" are the Custom forms (a gyro button may press keys besides); "profile" opens
\* the selection.
Action == [kind : {"pad", "keys", "shift", "gyro", "lock", "profile"},
           tap : BOOLEAN, keys : SUBSET HostKey]

\* A configuration: the mappings of the profiles, those where the in-app gyro brings the
\* shifted layer with it (mode_shift_enabled), the combos with their common trigger, and
\* the profiles that the focused application or the window may ask for.
Layout == [maps : [Profile -> [Layer -> [Btn -> Action]]], shifts : SUBSET Profile,
           trigger : SUBSET Btn, combo : [Profile -> SUBSET Btn], focus : SUBSET Profile]

ASSUME MappingAssumption ==
  /\ {Confirm, Cancel} \subseteq Btn /\ Confirm # Cancel
  /\ NoProfile \notin Profile /\ MaxChange \in Nat /\ Layouts \subseteq Layout

VARIABLES
  layout,        \* the configuration
  profile,       \* CONFIG.active_profile
  selecting,     \* utils.profile_selection_active
  posted,        \* what the callbacks have handed to the GUI thread with root.after
  selection,     \* [drain, was, confirm, cancel]: _ps_drain, _ps_was_active and the _prev's
  shift,         \* [toggle, armed, gyro]: _mode_shift_toggle, _mode_shift_armed,
                 \* _prev_in_app_gyro_mode_shift
  gyro,          \* [toggle, armed, on]: _in_app_gyro_toggle, _in_app_gyro_armed,
                 \* gyro_mouse_enabled
  layer,         \* the layer of the last report: _mode_shift_active
  lock,          \* [toggle, held]: _gyro_lock_toggle, _gyro_lock_tap_held
  hold,          \* active_custom_keys: the keys a held button keeps down, {} without one
  tap,           \* active_tap_keys: the keys of a tap that has not run out
  tapHeld,       \* physical_tap_held
  down,          \* the key sources that are down at the keyboard: <<button, key>>
  suppressed,    \* _profile_switch_suppressed_btn_ids
  combo,         \* _prev_profile_combo_signature: the profile of the last combo
  prevChange,    \* prev_change_profile_btn
  raw,           \* raw_buttons: the buttons of the last report past the settle gate
  out,           \* the pad buttons of the last report that was passed on
  consumed,      \* history: buttons still held from the press that ended a selection
  orphans        \* history: key sources of taps that a tap of another mapping overwrote

mappingVars == <<layout, profile, selecting, posted, selection, shift, gyro, layer,
                 lock, hold, tap, tapHeld, down, suppressed, combo, prevChange, raw, out,
                 consumed, orphans>>

Post(what, to) == [what |-> what, to |-> to]

MappingTypeOK ==
  /\ layout \in Layouts /\ profile \in Profile /\ selecting \in BOOLEAN
  /\ posted \subseteq [what : {"cycle", "confirm", "cancel", "switch"},
                       to : Profile \cup {NoProfile}]
  /\ selection \in [drain : BOOLEAN, was : BOOLEAN, confirm : BOOLEAN, cancel : BOOLEAN]
  /\ shift \in [toggle : BOOLEAN, armed : SUBSET Btn, gyro : BOOLEAN]
  /\ gyro \in [toggle : BOOLEAN, armed : SUBSET Btn, on : BOOLEAN]
  /\ layer \in Layer /\ lock \in [toggle : BOOLEAN, held : SUBSET Btn]
  /\ hold \in [Btn -> SUBSET HostKey] /\ tap \in [Btn -> SUBSET HostKey] /\ tapHeld \subseteq Btn
  /\ down \subseteq Btn \X HostKey /\ orphans \subseteq Btn \X HostKey
  /\ suppressed \subseteq Btn /\ combo \in Profile \cup {NoProfile} /\ prevChange \in BOOLEAN
  /\ raw \subseteq Btn /\ out \subseteq Btn /\ consumed \subseteq Btn

MappingInit ==
  /\ layout \in Layouts /\ profile \in Profile /\ selecting = FALSE /\ posted = {}
  /\ selection = [drain |-> FALSE, was |-> FALSE, confirm |-> FALSE, cancel |-> FALSE]
  /\ shift = [toggle |-> FALSE, armed |-> {}, gyro |-> FALSE]
  /\ gyro = [toggle |-> FALSE, armed |-> {}, on |-> FALSE]
  /\ layer = "base" /\ lock = [toggle |-> FALSE, held |-> {}]
  /\ hold = [b \in Btn |-> {}] /\ tap = [b \in Btn |-> {}] /\ tapHeld = {} /\ down = {}
  /\ suppressed = {} /\ combo = NoProfile /\ prevChange = FALSE
  /\ raw = {} /\ out = {} /\ consumed = {} /\ orphans = {}

ModeShiftOn == profile \in layout.shifts    \* CONFIG.mode_shift_enabled
Mapped(l, b) == layout.maps[profile][l][b]
SourcesOf(b, keys) == {b} \X keys
-----------------------------------------------------------------------------
\* The manual profile selection: reports feed it, and nothing reaches the pad.  It goes on
\* after the decision until the button that made it is up ("draining").

\* (mutation) draining ends with the selection
DrainsNoLonger(held, fired) == selecting /\ (selection.drain \/ fired # {})

\* Whether reports are kept from the pad after the decision: until neither button is held.
Drains(held, fired) ==
  IF ~selecting THEN held ELSE selection.was /\ (selection.drain \/ fired # {})

SelectionReport(pressed) ==
  LET confirm == Confirm \in pressed
      cancel == Cancel \in pressed
      fired == {b \in {Confirm, Cancel} :
                  /\ selecting /\ selection.was /\ b \in pressed
                  /\ IF b = Confirm THEN ~selection.confirm ELSE ~selection.cancel}
  IN  /\ selecting \/ selection.drain
      /\ selection' =
           [drain |-> Drains(confirm \/ cancel, fired),
            was |-> IF selecting THEN TRUE ELSE selection.was /\ (confirm \/ cancel),
            confirm |-> confirm, cancel |-> cancel]
      /\ posted' = posted \cup {Post("confirm", NoProfile) : b \in fired \cap {Confirm}}
                          \cup {Post("cancel", NoProfile) : b \in fired \cap {Cancel}}
      /\ raw' = pressed /\ out' = {} /\ consumed' = (consumed \cap pressed) \cup fired
      /\ UNCHANGED <<layout, profile, selecting, shift, gyro, layer, lock, hold, tap, tapHeld,
                     down, suppressed, combo, prevChange, orphans>>

\* The profiles whose combo, with the common trigger, is pressed.
ComboTargets(pressed) ==
  {p \in Profile \ {profile} :
     /\ layout.trigger # {} /\ layout.trigger \subseteq pressed
     /\ layout.combo[p] # {} /\ layout.combo[p] \subseteq pressed}

\* A press of a Custom button of this kind that is not armed yet; a Hold button that is down.
Edge(kind, l, buttons, armed) ==
  \E b \in buttons \ armed : Mapped(l, b).kind = kind /\ Mapped(l, b).tap
Held(kind, l, buttons) == \E b \in buttons : Mapped(l, b).kind = kind /\ ~Mapped(l, b).tap
Flipped(toggle, edge) == toggle # edge

\* The pre-pass over the base layer: which layer and which gyro state the buttons that are
\* not suppressed ask for.
Resolved(buttons) ==
  LET gyro0 == Flipped(gyro.toggle, Edge("gyro", "base", buttons, gyro.armed))
      on0 == gyro0 # Held("gyro", "base", buttons)
      gyroShift == (gyro.on \/ on0) /\ ModeShiftOn
      toggle == ~(shift.gyro /\ ~gyroShift)
                  /\ Flipped(shift.toggle, Edge("shift", "base", buttons, shift.armed))
      shifted == gyroShift # (toggle # Held("shift", "base", buttons))
      own == shifted /\ ~ModeShiftOn    \* a gyro button of the shifted layer alone counts
      gyro1 == IF own THEN Flipped(gyro0, Edge("gyro", "shifted", buttons, gyro.armed))
                      ELSE gyro0
  IN  [layer |-> IF shifted THEN "shifted" ELSE "base",
       shift |-> [toggle |-> toggle, gyro |-> gyroShift,
                  armed |-> {b \in buttons : Mapped("base", b).kind = "shift"}],
       gyro |-> [toggle |-> gyro1,
                 armed |-> {b \in buttons : \/ Mapped("base", b).kind = "gyro"
                                            \/ own /\ Mapped("shifted", b).kind = "gyro"},
                 on |-> gyro1 # (\/ Held("gyro", "base", buttons)
                                 \/ own /\ Held("gyro", "shifted", buttons))]]

\* What a button does in a layer: a gyro button stands for the keys it presses besides.
Keys(l, b) ==
  LET a == Mapped(l, b) IN
  IF a.kind = "keys" THEN a.keys ELSE IF a.kind = "gyro" THEN a.keys ELSE {}
Taps(l, b) == Mapped(l, b).kind = "keys" /\ Mapped(l, b).tap

\* The mapping loop leaves a button alone when its base mapping is the mode shift or the
\* layer's is the gyro lock or the mode shift.
Skipped(l, b) ==
  Mapped("base", b).kind = "shift" \/ Mapped(l, b).kind \in {"lock", "shift"}

\* The buttons of the mapping loop that begin something, and those that end it.
Worked(b) == hold[b] # {} \/ b \in tapHeld
\* (mutation) a button that is at work begins again when its mapping changes
BeginsAnew(l, buttons) == {b \in buttons : ~Skipped(l, b) /\ Keys(l, b) \ hold[b] # {}}

Begins(l, buttons) == {b \in buttons : ~Skipped(l, b) /\ Keys(l, b) # {} /\ ~Worked(b)}
\* (mutation) a button is released only under a mapping that presses keys
EndsMapped(l, buttons) ==
  {b \in Btn : ~Skipped(l, b) /\ Worked(b) /\ b \notin buttons /\ Keys(l, b) # {}}

Ends(l, buttons) ==
  {b \in Btn : ~Skipped(l, b) /\ Worked(b) /\ (b \notin buttons \/ Keys(l, b) = {})}

NewLock(l, buttons) ==
  LET locks == {b \in Btn : /\ Mapped("base", b).kind # "shift"
                            /\ Mapped(l, b).kind = "lock" /\ Mapped(l, b).tap}
      fresh == (locks \cap buttons) \ lock.held
  IN  [toggle |-> lock.toggle # (Cardinality(fresh) % 2 = 1),
       held |-> (lock.held \ locks) \cup (locks \cap buttons)]

Running == {b \in Btn : tap[b] # {}}
Lifted == {b \in Btn : ~(SourcesOf(b, hold[b]) \subseteq down)}

\* A report that is mapped.  expired are the taps whose 50 ms are over, again the held
\* buttons whose keys the auto-repeat of Standard output presses anew (a repeat of a key
\* that is down changes nothing here).
MappedReport(pressed, expired, again) ==
  LET targets == ComboTargets(pressed)
      muted == (IF targets # {} THEN suppressed \cup pressed ELSE suppressed) \cap pressed
      buttons == pressed \ muted
      now == Resolved(buttons)
      begins == Begins(now.layer, buttons)
      begun == [b \in begins |-> Keys(now.layer, b)]
      tapped == {b \in begins : Taps(now.layer, b)}
      ends == Ends(now.layer, buttons)
      asks == \/ \E b \in pressed : Mapped(layer, b).kind = "profile"
              \/ \E b \in buttons : Mapped(now.layer, b).kind = "profile"
  IN  /\ ~selecting /\ ~selection.drain
      /\ expired \subseteq Running \ tapped
      /\ again \subseteq Lifted \ (begins \cup ends)
      /\ shift' = now.shift /\ gyro' = now.gyro /\ layer' = now.layer
      /\ lock' = NewLock(now.layer, buttons)
      /\ hold' = [b \in Btn |-> IF b \in begins \ tapped THEN begun[b]
                                ELSE IF b \in ends THEN {} ELSE hold[b]]
      /\ tap' = [b \in Btn |-> IF b \in tapped THEN begun[b]
                               ELSE IF b \in expired THEN {} ELSE tap[b]]
      /\ tapHeld' = (tapHeld \ ends) \cup tapped
      /\ down' = (((down \cup UNION {SourcesOf(b, begun[b]) : b \in begins})
                     \ UNION {SourcesOf(b, hold[b]) : b \in ends})
                     \ UNION {SourcesOf(b, tap[b]) : b \in expired})
                   \cup UNION {SourcesOf(b, hold[b]) : b \in again}
      /\ orphans' = (orphans \cup UNION {SourcesOf(b, tap[b] \ begun[b]) : b \in tapped})
                      \cap down'
      /\ suppressed' = muted
      /\ combo' = IF targets = {} THEN NoProfile ELSE CHOOSE p \in targets : TRUE
      /\ posted' = posted \cup {Post("switch", p) : p \in {combo'} \ {combo, NoProfile}}
                          \cup IF asks /\ targets = {} /\ ~prevChange
                               THEN {Post("cycle", NoProfile)} ELSE {}
      /\ prevChange' = asks
      /\ selection' = [selection EXCEPT !.was = FALSE]
      /\ raw' = pressed /\ consumed' = consumed \cap pressed
      /\ out' = {b \in buttons : /\ ~Skipped(now.layer, b) /\ Mapped(now.layer, b).kind = "pad"}
      /\ UNCHANGED <<layout, profile, selecting>>

-----------------------------------------------------------------------------
\* The GUI thread.  Cycling opens the manual selection; confirming switches to the profile
\* that was navigated to, which may be the active one; a combo names its target.

GuiCycle ==
  /\ Post("cycle", NoProfile) \in posted
  /\ posted' = posted \ {Post("cycle", NoProfile)} /\ selecting' = TRUE
  /\ UNCHANGED <<layout, profile, selection, shift, gyro, layer, lock, hold, tap, tapHeld,
                 down, suppressed, combo, prevChange, raw, out, consumed, orphans>>

GuiConfirm ==
  /\ Post("confirm", NoProfile) \in posted
  /\ posted' = posted \ {Post("confirm", NoProfile)} /\ selecting' = FALSE
  /\ IF selecting THEN profile' \in Profile ELSE UNCHANGED profile
  /\ UNCHANGED <<layout, selection, shift, gyro, layer, lock, hold, tap, tapHeld, down,
                 suppressed, combo, prevChange, raw, out, consumed, orphans>>

GuiCancel ==
  /\ Post("cancel", NoProfile) \in posted
  /\ posted' = posted \ {Post("cancel", NoProfile)} /\ selecting' = FALSE
  /\ UNCHANGED <<layout, profile, selection, shift, gyro, layer, lock, hold, tap, tapHeld,
                 down, suppressed, combo, prevChange, raw, out, consumed, orphans>>

\* A combo's switch, or one that the focused application or the window asks for.
GuiSwitch ==
  /\ \/ \E p \in Profile : /\ Post("switch", p) \in posted
                           /\ posted' = posted \ {Post("switch", p)} /\ profile' = p
     \/ profile' \in layout.focus \ {profile} /\ UNCHANGED posted
  /\ UNCHANGED <<layout, selecting, selection, shift, gyro, layer, lock, hold, tap, tapHeld,
                 down, suppressed, combo, prevChange, raw, out, consumed, orphans>>

\* Another part lifts every key: suspend, or a change of the keyboard's sink.
KeysLifted ==
  /\ down # {} /\ down' = {} /\ orphans' = {}
  /\ UNCHANGED <<layout, profile, selecting, posted, selection, shift, gyro, layer, lock,
                 hold, tap, tapHeld, suppressed, combo, prevChange, raw, out, consumed>>

\* Two reports differ in at most MaxChange buttons.
Report ==
  \E changed \in {c \in SUBSET Btn : Cardinality(c) <= MaxChange} :
    LET pressed == (raw \ changed) \cup (changed \ raw) IN
    \/ SelectionReport(pressed)
    \/ \E expired \in SUBSET Running, again \in SUBSET Lifted :
         MappedReport(pressed, expired, again)

MappingNext ==
  \/ Report \/ GuiCycle \/ GuiConfirm \/ GuiCancel \/ GuiSwitch \/ KeysLifted

MappingSpec == MappingInit /\ [][MappingNext]_mappingVars

-----------------------------------------------------------------------------
\* Every key that this controller holds down is in one of its two books, so that a later
\* report lifts it: the book of held buttons or that of running taps.  The one way out is a
\* tap that a second tap of the same button under another mapping overwrote within its 50 ms.
KeysBooked == \A s \in down : s[2] \in hold[s[1]] \cup tap[s[1]] \/ s \in orphans

\* Besides, every variable keeps its type.
KeysOwed == MappingTypeOK /\ KeysBooked

\* A held key ends with its button: after a mapped report no button that is up has a key
\* held, except where the layer in force makes the mapping loop leave the button alone.
HoldEnds ==
  [][LET expired == {b \in Running : tap'[b] = {}}
         again == {b \in Lifted : SourcesOf(b, hold[b]) \subseteq down'}
     IN  MappedReport(raw', expired, again)
           => \A b \in Btn \ raw' : hold'[b] = {} \/ Skipped(layer', b)]_mappingVars

\* The press that confirmed or cancelled a profile selection never reaches the pad, however
\* late the GUI thread acts on it.
NoConfirmLeak == out \cap consumed = {}
=============================================================================
