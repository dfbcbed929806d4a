-------------------------- MODULE RumbleDispatcher --------------------------
(***************************************************************************)
(* ESP32BridgeRumbleDispatcher, src/src/esp32_rumble_dispatcher.py: the     *)
(* input threads of a merged pair submit the payload of their side, one    *)
(* task of the event loop sends both sides' together until the effect ends *)
(* and then sleeps.  Nothing stops it but the end of the event loop:       *)
(* stop_rumble_dispatcher has no caller.                                   *)
(*                                                                         *)
(* A payload is "buzz" or "zero".  Packet ids, intervals and diagnostics   *)
(* are left out.  External: the controllers, which hold what they are told *)
(* until told otherwise, and the port, which may be away or refuse.        *)
(***************************************************************************)

CONSTANT PadSide   \* "L" and "R"

ASSUME DispatcherAssumption == "L" \in PadSide

VARIABLES
  pairMode,    \* CONFIG.esp32_bridge_pair_mode: "pair" or "mirror"
  padSide,     \* _left and _right
  lastActive,  \* _last_active_t: "never", "recent" or "past" the global timeout
  zeroSent,    \* _global_zero_sent
  dispatcher,  \* the task: "off", "check", "asleep" or "tick"
  dispatchWake,\* _wake
  portUp,      \* the client's is_connected
  hum,         \* what each controller does
  unheard      \* (history) sides whose last payload the port refused

dispatchVars == <<pairMode, padSide, lastActive, zeroSent, dispatcher, dispatchWake, portUp, hum, unheard>>

Payloads == {"buzz", "zero"}

\* _SideState: known stands for channel, uuid and payload; buzzed for last_nonzero.
DispatcherInit ==
  /\ pairMode \in {"pair", "mirror"} /\ portUp = TRUE
  /\ padSide = [s \in PadSide |-> [known |-> FALSE, payload |-> "none", dirty |-> FALSE,
                                   stop |-> FALSE, buzzed |-> FALSE]]
  /\ lastActive = "never" /\ zeroSent = FALSE
  /\ dispatcher = "off" /\ dispatchWake = FALSE
  /\ hum = [s \in PadSide |-> "zero"] /\ unheard = {}

DispatcherTypeOK ==
  /\ hum \in [PadSide -> Payloads] /\ unheard \subseteq PadSide
  /\ lastActive \in {"never", "recent", "past"}
  /\ dispatcher \in {"off", "check", "asleep", "tick"}
  /\ \A s \in PadSide : padSide[s].dirty => padSide[s].known /\ padSide[s].payload \in Payloads

-----------------------------------------------------------------------------

\* start() on the first call, then _submit.
SubmitSide(s, p) ==
  /\ dispatcher' = IF dispatcher = "off" THEN "check" ELSE dispatcher
  /\ padSide' = [padSide EXCEPT ![s] =
       [padSide[s] EXCEPT !.known = TRUE, !.payload = p, !.dirty = TRUE, !.stop = (p = "zero"),
                          !.buzzed = padSide[s].buzzed \/ p = "buzz"]]
  /\ IF p = "buzz" THEN lastActive' = "recent" /\ zeroSent' = FALSE
     ELSE UNCHANGED <<lastActive, zeroSent>>
  /\ dispatchWake' = TRUE
  /\ UNCHANGED <<pairMode, portUp, hum, unheard>>

AnyDirty == \E s \in PadSide : padSide[s].dirty

\* (mutation) nothing new and the timeout gone by: nothing to do
HasFreshWork == AnyDirty \/ lastActive = "recent"

HasWork == AnyDirty \/ lastActive = "recent" \/ (lastActive = "past" /\ ~zeroSent)

LoopChecks ==
  /\ dispatcher = "check"
  /\ dispatcher' = IF HasWork THEN "tick" ELSE "asleep"
  /\ UNCHANGED <<pairMode, padSide, lastActive, zeroSent, dispatchWake, portUp, hum, unheard>>

LoopWakes ==
  /\ dispatcher = "asleep" /\ dispatchWake
  /\ dispatcher' = "tick" /\ dispatchWake' = FALSE
  /\ UNCHANGED <<pairMode, padSide, lastActive, zeroSent, portUp, hum, unheard>>

-----------------------------------------------------------------------------
(* _do_dispatch *)

\* Both sides have been told to stop, and their zeros are out.
BothStopped == \A s \in PadSide : padSide[s].stop /\ ~padSide[s].dirty

GloballyIdle == lastActive = "past"

\* _pick: what was just submitted; the side's zero after a stop; else what it held.
Pick(side) ==
  CASE side.dirty -> side.payload
    [] side.stop -> "zero"
    [] side.buzzed -> "buzz"
    [] OTHER -> "none"

\* Each side's payload: the pick, or after the global timeout a zero for both.
Chosen == [s \in PadSide |-> IF GloballyIdle THEN "zero" ELSE Pick(padSide[s])]

\* In "mirror" both get the left payload.
Delivered(chosen) ==
  IF pairMode = "mirror" THEN [s \in PadSide |-> chosen["L"]] ELSE chosen

\* The port takes the writes for the sides in taken and not those in refused.
Writes(values, taken, refused) ==
  /\ hum' = [s \in PadSide |-> IF s \in taken THEN values[s] ELSE hum[s]]
  /\ unheard' = (unheard \ taken) \cup refused

\* _send: one command for the pair; one side alone, or a pair that was refused, goes out
\* one by one, a final zero excepted.
Transmits(chosen) ==
  LET some == {s \in PadSide : chosen[s] # "none"}
      refuse(R) == Writes(chosen, some \ R, R)
  IN  IF some # PadSide
      THEN \E R \in SUBSET some : refuse(R)
      ELSE IF \E s \in PadSide : ~padSide[s].known
      THEN UNCHANGED <<hum, unheard>>
      ELSE \/ Writes(Delivered(chosen), PadSide, {})
           \/ pairMode = "mirror" /\ Writes(chosen, {}, PadSide)
           \/ pairMode = "pair" /\ \E R \in (SUBSET PadSide) \ {{}} :
                (GloballyIdle => R = PadSide) /\ refuse(R)

TickIdle ==
  /\ dispatcher = "tick"
  /\ ~portUp \/ BothStopped \/ (GloballyIdle /\ zeroSent) \/ \A s \in PadSide : Chosen[s] = "none"
  /\ dispatcher' = "check"
  /\ UNCHANGED <<pairMode, padSide, lastActive, zeroSent, dispatchWake, portUp, hum, unheard>>

TickSends ==
  /\ dispatcher = "tick"
  /\ portUp /\ ~BothStopped /\ ~(GloballyIdle /\ zeroSent) /\ \E s \in PadSide : Chosen[s] # "none"
  /\ padSide' = [s \in PadSide |->
       IF GloballyIdle THEN [padSide[s] EXCEPT !.stop = TRUE]
       ELSE [padSide[s] EXCEPT !.dirty = FALSE]]
  /\ zeroSent' = (zeroSent \/ GloballyIdle)
  /\ Transmits(Chosen)
  /\ dispatcher' = "check"
  /\ UNCHANGED <<pairMode, lastActive, dispatchWake, portUp>>

-----------------------------------------------------------------------------

TimePasses ==
  /\ lastActive = "recent" /\ lastActive' = "past"
  /\ UNCHANGED <<pairMode, padSide, zeroSent, dispatcher, dispatchWake, portUp, hum, unheard>>

\* The bridge goes away and comes back; the controllers keep what they do.
PortToggles ==
  /\ portUp' = ~portUp
  /\ UNCHANGED <<pairMode, padSide, lastActive, zeroSent, dispatcher, dispatchWake, hum, unheard>>

DispatcherNext ==
  \/ \E s \in PadSide, p \in Payloads : SubmitSide(s, p)
  \/ LoopChecks \/ LoopWakes \/ TickIdle \/ TickSends \/ TimePasses \/ PortToggles

DispatcherSpec == DispatcherInit /\ [][DispatcherNext]_dispatchVars

-----------------------------------------------------------------------------

\* While the dispatcher sleeps no controller of the pair hums on: every effect was ended
\* by a zero, the game's own or the safety net's.  (A write the port refused is not
\* repeated once both sides have stopped, and the safety net needs to know both sides.)
NothingHums ==
  dispatcher = "asleep" /\ ~dispatchWake /\ (\A s \in PadSide : padSide[s].known) =>
    \A s \in PadSide : hum[s] = "buzz" => s \in unheard

\* The sleep is silent, and every variable keeps its type: what waits to be sent is a payload
\* of a side that is known.
SilentWhenAsleep == DispatcherTypeOK /\ NothingHums

=============================================================================
