------------------------- MODULE SystemBtPairRumble -------------------------
(***************************************************************************)
(* SystemBluetoothPairRumbleCoordinator, src/src/system_bt_pair_rumble.py:  *)
(* one worker thread sends the rumble of a merged pair of Joy-Cons, at most *)
(* one write at a time; completions run on the event loop and may send the *)
(* next write themselves.  Each side keeps an edge (the first packet of a  *)
(* transition), a budget of zeros (a stop is sent until it succeeded so    *)
(* often) and, while active, a payload that is repeated.                   *)
(*                                                                         *)
(* Time is left out: slots, intervals, cool-downs and degraded cadences    *)
(* only decide when a side is served, so serving none is always possible;  *)
(* the deadlines of edges and stops may have passed at any dispatch.  A    *)
(* side is chosen and dispatched in two sections of the lock, the second   *)
(* looking at everything again: here they are one.                         *)
(***************************************************************************)
EXTENDS Naturals, FiniteSets

CONSTANTS
  RumbleSide,      \* "Left" and "Right"
  StopSuccesses,   \* SYSTEM_BT_STOP_SUCCESS_COUNT, 3 in the code
  MaxTransitions   \* bound: transitions of one session

ASSUME PairRumbleAssumption == StopSuccesses \in Nat \ {0}

VARIABLES
  pairSession,  \* "running", "stopping" (in stop()) or "stopped"
  rumble,       \* _sides
  flight,       \* the write of each side that is in flight
  motor,        \* what the controller plays: a payload, and of which generation
  worker,       \* where the worker thread is: "check", "idle" or "off"
  completed,    \* a completion callback is about to use the slot it freed
  wake          \* _wake

rumbleVars == <<pairSession, rumble, flight, motor, worker, completed, wake>>

NoWrite == [st |-> "none", kind |-> "none", gen |-> 0, payload |-> "none"]

\* _SideState.  gen and edgeGen are the generations; missed is the last generation
\* whose edge or stop ran out of time (edge_expired, and the warning of a stop).
FreshSide ==
  [payload |-> "none", active |-> FALSE, sustain |-> TRUE, zeros |-> 0, edge |-> FALSE,
   gen |-> 0, edgeGen |-> 0, missed |-> 0]

\* A controller may still be humming from a write of the time before the merge.
PairRumbleInit ==
  /\ pairSession = "running" /\ wake = FALSE
  /\ rumble = [s \in RumbleSide |-> FreshSide]
  /\ flight = [s \in RumbleSide |-> NoWrite]
  /\ motor = [s \in RumbleSide |-> [gen |-> 0, payload |-> "buzz"]]
  /\ worker = "check" /\ completed = FALSE

-----------------------------------------------------------------------------
(* submit *)

Transitions(r) == r.gen + 1

\* An active payload cancels a stop.  It is a transition, which must be played once,
\* when the side was silent or the effect is a one-shot.
Activated(r, sustained) ==
  LET next == [r EXCEPT !.payload = "buzz", !.active = TRUE, !.sustain = sustained, !.zeros = 0]
  IN  IF r.active /\ sustained
      THEN next
      ELSE [next EXCEPT !.gen = Transitions(r), !.edge = TRUE, !.edgeGen = Transitions(r)]

\* (mutation) only a side known to be active is stopped
ArmsStopIfActive(r) == r.active

\* A stop is armed when the side was active or its payload differs from the last one:
\* an identical zero does not arm it again.
ArmsStop(r) == r.active \/ r.payload # "zero"

Stopped(r) ==
  LET next == [r EXCEPT !.payload = "zero", !.active = FALSE, !.sustain = TRUE]
  IN  IF ArmsStop(r)
      THEN [next EXCEPT !.gen = Transitions(r), !.zeros = StopSuccesses]
      ELSE next

SubmitsRumble(s) ==
  /\ pairSession = "running"
  /\ \E next \in {Stopped(rumble[s]), Activated(rumble[s], TRUE), Activated(rumble[s], FALSE)} :
       /\ next.gen <= MaxTransitions[s]
       /\ rumble' = [rumble EXCEPT ![s] = next]
  /\ wake' = TRUE
  /\ UNCHANGED <<pairSession, flight, motor, worker, completed>>

-----------------------------------------------------------------------------
(* The worker thread *)

InFlight(s) == flight[s].st # "none"

HasPendingWork ==
  \E s \in RumbleSide : InFlight(s) \/ rumble[s].zeros > 0 \/ rumble[s].edge
                    \/ (rumble[s].active /\ rumble[s].sustain)

\* _choose_side: edges first, then stops, then what is repeated.
KindOf(r) ==
  IF r.edge THEN "edge"
  ELSE IF ~r.active /\ r.zeros > 0 THEN "zero"
  ELSE IF r.active /\ r.sustain THEN "sustain" ELSE "nothing"

Candidates == {s \in RumbleSide : ~InFlight(s) /\ KindOf(rumble[s]) # "nothing"}

Foremost(s) ==
  CASE KindOf(rumble[s]) = "edge" -> TRUE
    [] KindOf(rumble[s]) = "zero" -> \A x \in Candidates : KindOf(rumble[x]) # "edge"
    [] OTHER -> \A x \in Candidates : KindOf(rumble[x]) = "sustain"

\* An edge that is due too late is given up, and so is the rest of a stop: an edge is
\* never younger than the stop behind it.
InTime(r, late) ==
  IF r.edge /\ late # "no" THEN [r EXCEPT !.edge = FALSE, !.missed = r.edgeGen] ELSE r

GivenUp(r, late) == ~r.active /\ r.zeros > 0 /\ late = "stop"

\* The write is reserved under the lock and handed to the event loop after it.
Reserved(r) ==
  LET kind == KindOf(r) IN
  [st |-> "reserved", kind |-> kind, gen |-> IF kind = "edge" THEN r.edgeGen ELSE r.gen,
   payload |-> IF kind = "edge" THEN "buzz" ELSE r.payload]

Sends(s, r) ==
  /\ rumble' = [rumble EXCEPT ![s] = r]
  /\ flight' = IF KindOf(r) = "nothing" THEN flight ELSE [flight EXCEPT ![s] = Reserved(r)]

\* (mutation) only the side's own write is waited for
SideIsFree(s) == ~InFlight(s)

PairIsFree(s) == \A x \in RumbleSide : ~InFlight(x)

\* _dispatch_side
DispatchSide(s) ==
  /\ PairIsFree(s) /\ rumble[s].payload # "none"
  /\ \E late \in {"no", "edge", "stop"} :
       LET r == InTime(rumble[s], late) IN
       IF GivenUp(r, late)
       THEN /\ rumble' = [rumble EXCEPT ![s] = [r EXCEPT !.zeros = 0, !.missed = r.gen]]
            /\ UNCHANGED flight
       ELSE Sends(s, r)

\* A slot: the side that comes first is served, or none because it is too early.
ServesSide ==
  \/ \E s \in Candidates : Foremost(s) /\ DispatchSide(s)
  \/ UNCHANGED <<rumble, flight>>

\* The worker's slot; the timed wait before it clears _wake.
WorkerServes ==
  /\ worker = "check" /\ pairSession = "running" /\ HasPendingWork
  /\ ServesSide /\ wake' = FALSE
  /\ UNCHANGED <<pairSession, motor, worker, completed>>

\* (mutation) the worker clears _wake when it goes to rest, not when it wakes
WorkerRestsClearing ==
  /\ worker = "check" /\ pairSession = "running" /\ wake /\ worker' = "idle" /\ wake' = FALSE
  /\ UNCHANGED <<pairSession, rumble, flight, motor, completed>>

WorkerRests ==
  /\ worker = "check" /\ pairSession = "running" /\ ~HasPendingWork /\ worker' = "idle"
  /\ UNCHANGED <<pairSession, rumble, flight, motor, completed, wake>>

WorkerWakes ==
  /\ worker = "idle" /\ wake /\ worker' = "check" /\ wake' = FALSE
  /\ UNCHANGED <<pairSession, rumble, flight, motor, completed>>

WorkerLeaves ==
  /\ worker = "check" /\ pairSession # "running" /\ worker' = "off"
  /\ UNCHANGED <<pairSession, rumble, flight, motor, completed, wake>>

\* run_coroutine_threadsafe; with the loop closed, or a refusal, the slot is handed back.
Posts(s) ==
  /\ flight[s].st = "reserved"
  /\ \/ flight' = [flight EXCEPT ![s].st = "posted"]
     \/ flight' = [flight EXCEPT ![s] = NoWrite]
  /\ UNCHANGED <<pairSession, rumble, motor, worker, completed, wake>>

-----------------------------------------------------------------------------
(* Completions, on the event loop *)

\* (mutation) a completion is taken for the edge that waits now
SettlesAnyEdge(r, w) ==
  IF w.kind = "edge" /\ r.edge THEN [r EXCEPT !.edge = FALSE, !.active = @ /\ r.sustain] ELSE r

\* What a successful write settles.  One that a later transition has overtaken
\* settles nothing.
Settles(r, w) ==
  CASE w.kind = "zero" /\ w.gen = r.gen /\ ~r.active /\ r.zeros > 0 -> [r EXCEPT !.zeros = @ - 1]
    [] w.kind = "edge" /\ w.gen = r.edgeGen /\ r.edge ->
         [r EXCEPT !.edge = FALSE, !.active = @ /\ r.sustain]
    [] OTHER -> r

\* A write that failed, timed out or was cancelled may have reached the controller.
WriteDone(s) ==
  /\ flight[s].st = "posted" /\ ~completed
  /\ flight' = [flight EXCEPT ![s] = NoWrite]
  /\ \/ rumble' = [rumble EXCEPT ![s] = Settles(@, flight[s])]
        /\ motor' = [motor EXCEPT ![s] = [gen |-> flight[s].gen, payload |-> flight[s].payload]]
     \/ UNCHANGED rumble
        /\ motor' \in {motor, [motor EXCEPT ![s] = [gen |-> flight[s].gen, payload |-> flight[s].payload]]}
  /\ wake' = TRUE /\ completed' = TRUE
  /\ UNCHANGED <<pairSession, worker>>

\* The rest of _write_done: a side that is overdue is served at once.
CompletionServes ==
  /\ completed /\ completed' = FALSE /\ ServesSide
  /\ UNCHANGED <<pairSession, motor, worker, wake>>

\* stop(): the worker is given 250 ms to leave before the sides are cleared; the
\* writes under way are cancelled, which completes them.
StopBegins ==
  /\ pairSession = "running" /\ pairSession' = "stopping" /\ wake' = TRUE
  /\ UNCHANGED <<rumble, flight, motor, worker, completed>>

StopEnds ==
  /\ pairSession = "stopping" /\ pairSession' = "stopped"
  /\ rumble' = [s \in RumbleSide |-> [rumble[s] EXCEPT !.payload = "none", !.active = FALSE,
                                                 !.zeros = 0, !.edge = FALSE]]
  /\ UNCHANGED <<flight, motor, worker, completed, wake>>

PairRumbleNext ==
  \/ \E s \in RumbleSide : SubmitsRumble(s) \/ Posts(s) \/ WriteDone(s)
  \/ WorkerServes \/ WorkerRests \/ WorkerWakes \/ WorkerLeaves
  \/ CompletionServes
  \/ StopBegins \/ StopEnds
  \/ pairSession = "stopped" /\ UNCHANGED rumbleVars

PairRumbleSpec == PairRumbleInit /\ [][PairRumbleNext]_rumbleVars

-----------------------------------------------------------------------------

PairRumbleTypeOK ==
  /\ pairSession \in {"running", "stopping", "stopped"} /\ wake \in BOOLEAN
  /\ \A s \in RumbleSide :
       /\ rumble[s].zeros \in 0 .. StopSuccesses
       /\ rumble[s].edgeGen <= rumble[s].gen /\ rumble[s].missed <= rumble[s].gen
       /\ flight[s].st \in {"none", "reserved", "posted"}
  /\ worker \in {"check", "idle", "off"} /\ completed \in BOOLEAN

Settled(s) == ~InFlight(s) /\ KindOf(rumble[s]) \notin {"edge", "zero"}

\* Every transition is played: a side with nothing left to send for its last
\* transition, and that did not give it up in time, plays that transition, and a
\* stopped side is silent, even if it was set humming before the coordinator existed.
LastTransitionPlays ==
  pairSession = "running" =>
    \A s \in RumbleSide :
      Settled(s) /\ (rumble[s].missed < rumble[s].gen \/ rumble[s].gen = 0) =>
        /\ motor[s].gen = rumble[s].gen
        /\ rumble[s].payload = "zero" => motor[s].payload = "zero"

\* The pair has one write in flight, and the worker never sleeps while there is work.
WorkerSeesWork ==
  /\ Cardinality({s \in RumbleSide : InFlight(s)}) <= 1
  /\ worker = "idle" /\ pairSession = "running" /\ ~wake => ~HasPendingWork

\* The last transition of a side plays, the worker of the pair does not wait while there is
\* work it may do, and every variable keeps its type: no side is ahead of its generation.
PairRumblePlays == PairRumbleTypeOK /\ LastTransitionPlays /\ WorkerSeesWork

=============================================================================
