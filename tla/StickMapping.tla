---------------------------- MODULE StickMapping ----------------------------
(***************************************************************************)
(* The sticks of one controller as keys, taps, pad buttons and mouse:      *)
(* _apply_shared_joystick_mapping and what it calls, src/src/controller.py.*)
(* A report that gets as far as the sticks is one action; a report that    *)
(* returns before (profile selection, the countdown and the waiting of the *)
(* calibrations) changes nothing here.                                     *)
(*                                                                         *)
(* Left out: the geometry of the sectors, the stick values that are passed *)
(* on, the speed of the mouse and the scroll wheel.                        *)
(***************************************************************************)
EXTENDS FiniteSets

CONSTANTS
  Stick,          \* "l_joystick", "r_joystick": those that the controller has
  Sector,         \* the sectors of a stick that is not at rest
  Centre,         \* the stick is within its dead zone
  DirsOf,         \* [Sector -> SUBSET Direction]: one direction, or two for a diagonal
  Token,          \* what directions are mapped to
  PadToken,       \* the tokens that are pad buttons, BTN_; the others are keys of the host
  StickSettings   \* [Stick -> [layer -> setting]]: the mappings, see Setting

Direction == UNION {DirsOf[s] : s \in Sector}
Diagonal(s) == Cardinality(DirsOf[s]) = 2
StickLayer == {"base", "shifted"}

\* WASD, the arrow keys and Custom map directions to held and tapped tokens
\* (_joystick_direction_tokens); Mouse and the modes that pass the stick on have none.
KeyModes == {"WASD", "Custom"}
StickModes == KeyModes \cup {"Mouse", "Scroll Wheel", "Default", "R Joystick"}
Setting == [mode : StickModes, hold : [Direction -> SUBSET Token],
            tap : [Direction -> SUBSET Token]]

ASSUME StickAssumption ==
  /\ Centre \notin Sector /\ PadToken \subseteq Token /\ IsFiniteSet(Direction)
  /\ \A s \in Sector : Cardinality(DirsOf[s]) \in {1, 2}
  /\ StickSettings \subseteq [Stick -> [StickLayer -> Setting]]

VARIABLES
  stickSetting,   \* the mappings of the sticks
  stickMode,      \* joystick_mapping_active_modes, "None" before the first report
  tokens,         \* active_joystick_tokens: the tokens held by a stick
  tapArmed,       \* joystick_tap_armed_inputs: the sector whose taps went out, or Centre
  triggered,      \* joystick_tap_armed_triggered_dirs
  releases,       \* joystick_tap_releases: <<stick, sector, direction, token>>, for 80 ms
  vector,         \* joystick_mouse_vectors: "none", "still" or "moves"
  holdDown,       \* the held tokens whose key is down at the keyboard
  tapDown,        \* the taps whose key is down, as in releases
  padOut          \* the pad buttons that the sticks put into the last report

stickVars == <<stickSetting, stickMode, tokens, tapArmed, triggered, releases, vector, holdDown,
               tapDown, padOut>>

Tap == Stick \X Sector \X Direction \X Token

StickTypeOK ==
  /\ stickSetting \in StickSettings /\ stickMode \in [Stick -> StickModes \cup {"None"}]
  /\ tokens \in [Stick -> SUBSET Token] /\ tapArmed \in [Stick -> Sector \cup {Centre}]
  /\ triggered \in [Stick -> SUBSET Direction] /\ releases \subseteq Tap
  /\ vector \in [Stick -> {"none", "still", "moves"}]
  /\ holdDown \in [Stick -> SUBSET (Token \ PadToken)] /\ tapDown \subseteq Tap
  /\ padOut \subseteq PadToken

StickInit ==
  /\ stickSetting \in StickSettings /\ stickMode = [k \in Stick |-> "None"]
  /\ tokens = [k \in Stick |-> {}] /\ tapArmed = [k \in Stick |-> Centre]
  /\ triggered = [k \in Stick |-> {}] /\ releases = {} /\ vector = [k \in Stick |-> "none"]
  /\ holdDown = [k \in Stick |-> {}] /\ tapDown = {} /\ padOut = {}

-----------------------------------------------------------------------------
\* A stick in a report: what it is mapped to and where it stands.
Seen(k, l, at) == [mode |-> stickSetting[k][l].mode,
                   set |-> stickSetting[k][l],
                   at |-> IF stickSetting[k][l].mode \in KeyModes THEN at ELSE Centre]
Dirs(s) == IF s = Centre THEN {} ELSE DirsOf[s]

\* consume_stick, _joystick_direction_tokens: the tokens that the stick holds.
HeldAt(view) == UNION {view.set.hold[d] : d \in Dirs(view.at)}

\* (mutation) only a stick whose new mode maps keys starts afresh
ChangedKeys(k, view) == stickMode[k] # view.mode /\ view.mode \in KeyModes

\* A stick that changes its mode starts afresh (_clear_joystick_input_state).
Changed(k, view) == stickMode[k] # view.mode

\* The directions that a sector newly entered taps.  Coming from a cardinal sector a diagonal
\* taps the other direction only, coming from a diagonal a cardinal one does not tap what the
\* diagonal has tapped; at rest everything is armed again.
Triggers(k, view) ==
  LET from == IF Changed(k, view) THEN Centre ELSE tapArmed[k]
      done == IF from = Centre THEN {}
              ELSE IF Diagonal(view.at) /\ ~Diagonal(from) THEN DirsOf[from]
              ELSE IF ~Diagonal(view.at) /\ Diagonal(from) THEN triggered[k]
              ELSE {}
  IN  IF view.at \in {Centre, from} THEN {} ELSE DirsOf[view.at] \ done

TapsAt(k, view) ==
  {t \in {k} \X {view.at} \X Triggers(k, view) \X Token : t[4] \in view.set.tap[t[3]]}

\* A report that reaches the sticks; expired are the taps whose 80 ms are over.  Either
\* stick's turn ends the taps of both.
SticksReport(l, at, expired) ==
  LET view == [k \in Stick |-> Seen(k, l[k], at[k])]
      kept == {t \in releases : ~Changed(t[1], view[t[1]])}
      new == UNION {TapsAt(k, view[k]) : k \in Stick}
  IN  /\ expired \subseteq kept \ new
      /\ stickMode' = [k \in Stick |-> view[k].mode]
      /\ tokens' = [k \in Stick |-> HeldAt(view[k])]
      /\ tapArmed' = [k \in Stick |-> view[k].at]
      /\ triggered' = [k \in Stick |->
           IF view[k].at = Centre THEN {}
           ELSE IF ~Changed(k, view[k]) /\ view[k].at = tapArmed[k] THEN triggered[k]
           ELSE Triggers(k, view[k])]
      /\ releases' = (kept \ expired) \cup new
      /\ vector' = [k \in Stick |-> IF view[k].mode # "Mouse" THEN "none"
                                    ELSE IF at[k] = Centre THEN "still" ELSE "moves"]
      /\ holdDown' = [k \in Stick |->
           LET held == IF Changed(k, view[k]) THEN {} ELSE tokens[k]
           IN  ((holdDown[k] \cap held) \cap tokens'[k]) \cup ((tokens'[k] \ held) \ PadToken)]
      /\ tapDown' = ((tapDown \cap kept) \ expired) \cup {t \in new : t[4] \notin PadToken}
      /\ padOut' = PadToken \cap (UNION {tokens'[k] : k \in Stick}
                                    \cup {t[4] : t \in releases'})
      /\ UNCHANGED stickSetting

\* Another part lifts every key: suspend, or a change of the keyboard's sink.
SticksLifted ==
  /\ holdDown' = [k \in Stick |-> {}] /\ tapDown' = {}
  /\ UNCHANGED <<stickSetting, stickMode, tokens, tapArmed, triggered, releases, vector, padOut>>

StickNext ==
  \/ \E l \in StickLayer, at \in [Stick -> Sector \cup {Centre}], expired \in SUBSET releases :
       SticksReport([k \in Stick |-> l], at, expired)
  \/ SticksLifted

StickSpec == StickInit /\ [][StickNext]_stickVars

-----------------------------------------------------------------------------
\* A key that a stick holds down is in one of its two books, so that a later report lifts
\* it, and only a mode that maps keys has books: whatever layers and modes the stick goes
\* through, a stick that is moved by hand as a mouse, or is passed on, holds no key.
SticksBooked ==
  /\ tapDown \subseteq releases
  /\ \A k \in Stick :
       /\ holdDown[k] \subseteq tokens[k]
       /\ stickMode[k] \notin KeyModes => tokens[k] = {} /\ \A t \in releases : t[1] # k
       /\ vector[k] # "none" <=> stickMode[k] = "Mouse"

\* Besides, every variable keeps its type.
StickKeysOwed == StickTypeOK /\ SticksBooked
=============================================================================
