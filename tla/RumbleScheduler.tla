--------------------------- MODULE RumbleScheduler ---------------------------
(***************************************************************************)
(* The rumble scheduler of one controller (src/src/controller.py): a       *)
(* thread that reads what the game wants, hands a frame to the transport   *)
(* and sleeps after three silent frames, against the game's callbacks of   *)
(* virtual_controller.py, which wake it from threads of their own, and the *)
(* workers that the event loop runs.                                       *)
(*                                                                         *)
(* A frame is silent or buzzes: amplitudes, scaling and encoding are left  *)
(* out.  So are the sources of a USB/IP DualSense with their sender thread *)
(* and the Xbox impulse overlay, which have schedules of their own, the    *)
(* mode Full, in which nothing runs, rumble_delay_ms, and the gate that a  *)
(* pair over System Bluetooth sends through (see SystemBtPairRumble).      *)
(* External: the transport's client, which may lose a write, and the       *)
(* controller, which does what the last write says.                        *)
(***************************************************************************)
EXTENDS Naturals, Sequences

CONSTANTS
  ZeroFrames,    \* silent frames before the scheduler stops, 3
  MaxSends,      \* bound: sends that the event loop has not finished
  MaxLost        \* bound: writes that fail

ASSUME SchedulerAssumption ==
  /\ ZeroFrames \in Nat \ {0} /\ MaxSends \in Nat \ {0} /\ MaxLost \in Nat
  /\ MaxLost < ZeroFrames

VARIABLES
  saving,        \* the power-saving mode, "Off" or "Auto"
  link,          \* the transport: "bt" (one send at a time), "bridge" (its own gate), "usb"
  game,          \* [latest, dirty, pulse, pokes]: latest_vibration, vibration_dirty, whether
                 \* the cycle's buffer holds a buzz, and the callback's next step
  sched,         \* the thread: "top", "sleeps", "dozes" (1.5 ms), "woken", "runs", "read", "ended"
  schedEvent,    \* _rumble_scheduler_event
  schedRunning,  \* _rumble_scheduler_running
  schedFrame,    \* the frame that is read and not acted on yet: TRUE for a buzz, FALSE without one
  rumbleStopped, \* rumble_stopped
  zeroCount,     \* _zero_count, up to ZeroFrames
  early,         \* less than 7 ms since last_rumble_time
  gateShut,      \* less than 7.5 ms since the bridge's _last_rumble_send_rt
  taskRunning,   \* _rumble_task_running
  sends,         \* the workers that the event loop has not begun, oldest first
  writing,       \* the workers whose write is on its way
  motor,         \* the controller buzzes
  lost,          \* writes lost
  outrun         \* history: the scheduler called the rumble stopped over a poke it had not seen

schedulerVars == <<saving, link, game, sched, schedEvent, schedRunning, schedFrame,
                   rumbleStopped, zeroCount, early, gateShut, taskRunning, sends, writing,
                   motor, lost, outrun>>

SchedulerTypeOK ==
  /\ saving \in {"Off", "Auto"} /\ link \in {"bt", "bridge", "usb"}
  /\ game \in [latest : BOOLEAN, dirty : BOOLEAN, pulse : BOOLEAN,
               pokes : {"no", "marks", "sets"}]
  /\ sched \in {"top", "sleeps", "dozes", "woken", "runs", "read", "ended"}
  /\ schedEvent \in BOOLEAN /\ schedRunning \in BOOLEAN /\ schedFrame \in BOOLEAN
  /\ rumbleStopped \in BOOLEAN /\ zeroCount \in 0 .. ZeroFrames
  /\ early \in BOOLEAN /\ gateShut \in BOOLEAN /\ taskRunning \in BOOLEAN
  /\ sends \in Seq(BOOLEAN) /\ Len(sends) <= MaxSends
  /\ writing \in Seq(BOOLEAN) /\ Len(writing) <= MaxSends
  /\ motor \in BOOLEAN /\ lost \in 0 .. MaxLost /\ outrun \in BOOLEAN

\* rumble_stopped has no value yet: the loop takes that for stopped, a run for not stopped,
\* and in Auto no run comes before the first poke.
SchedulerInit ==
  /\ saving \in {"Off", "Auto"} /\ link \in {"bt", "bridge", "usb"}
  /\ game = [latest |-> FALSE, dirty |-> FALSE, pulse |-> FALSE, pokes |-> "no"]
  /\ sched = "top" /\ schedEvent = FALSE /\ schedRunning = TRUE /\ schedFrame = FALSE
  /\ rumbleStopped = (saving = "Auto") /\ zeroCount = 0 /\ early = FALSE /\ gateShut = FALSE
  /\ taskRunning = FALSE /\ sends = <<>> /\ writing = <<>>
  /\ motor = FALSE /\ lost = 0 /\ outrun = FALSE

-----------------------------------------------------------------------------
(* The game's thread: vibration_callback, then _poke_rumble_scheduler(activate=True) *)

GameSays(v) ==
  /\ game.pokes = "no"
  /\ game' = [latest |-> v, dirty |-> TRUE, pulse |-> game.pulse \/ v, pokes |-> "marks"]
  /\ UNCHANGED <<saving, link, sched, schedEvent, schedRunning, schedFrame, rumbleStopped,
                 zeroCount, early, gateShut, taskRunning, sends, writing, motor, lost, outrun>>

\* (mutation) the poke leaves the mark of the stopped rumble to the scheduler
PokeMarksNothing ==
  /\ game.pokes = "marks" /\ game' = [game EXCEPT !.pokes = "sets"]
  /\ UNCHANGED <<saving, link, sched, schedEvent, schedRunning, schedFrame, rumbleStopped,
                 zeroCount, early, gateShut, taskRunning, sends, writing, motor, lost, outrun>>

PokeMarks ==
  /\ game.pokes = "marks" /\ game' = [game EXCEPT !.pokes = "sets"]
  /\ rumbleStopped' = (rumbleStopped /\ saving # "Auto")
  /\ UNCHANGED <<saving, link, sched, schedEvent, schedRunning, schedFrame, zeroCount, early,
                 gateShut, taskRunning, sends, writing, motor, lost, outrun>>

PokeSets ==
  /\ game.pokes = "sets" /\ game' = [game EXCEPT !.pokes = "no"] /\ schedEvent' = TRUE
  /\ UNCHANGED <<saving, link, sched, schedRunning, schedFrame, rumbleStopped, zeroCount,
                 early, gateShut, taskRunning, sends, writing, motor, lost, outrun>>

\* The poke of every input report in Off, and that of _stop_worker_threads.
PlainPoke(on) ==
  /\ schedRunning /\ ~schedEvent /\ (saving = "Off" \/ ~on)
  /\ schedEvent' = TRUE /\ schedRunning' = on
  /\ UNCHANGED <<saving, link, game, sched, schedFrame, rumbleStopped, zeroCount, early,
                 gateShut, taskRunning, sends, writing, motor, lost, outrun>>

-----------------------------------------------------------------------------
(* The scheduler's thread: _rumble_scheduler_loop, _run_rumble_scheduler_once *)

SchedWaits ==
  /\ sched = "top"
  /\ sched' = IF ~schedRunning THEN "ended"
              ELSE IF saving = "Off" \/ ~rumbleStopped THEN "dozes" ELSE "sleeps"
  /\ UNCHANGED <<saving, link, game, schedEvent, schedRunning, schedFrame, rumbleStopped,
                 zeroCount, early, gateShut, taskRunning, sends, writing, motor, lost, outrun>>

SchedWakes ==
  /\ sched = "dozes" \/ (sched = "sleeps" /\ schedEvent)
  /\ sched' = "woken"
  /\ UNCHANGED <<saving, link, game, schedEvent, schedRunning, schedFrame, rumbleStopped,
                 zeroCount, early, gateShut, taskRunning, sends, writing, motor, lost, outrun>>

SchedClears ==
  /\ sched = "woken" /\ sched' = "runs" /\ schedEvent' = FALSE
  /\ UNCHANGED <<saving, link, game, schedRunning, schedFrame, rumbleStopped, zeroCount,
                 early, gateShut, taskRunning, sends, writing, motor, lost, outrun>>

SchedTooEarly ==
  /\ sched = "runs" /\ early /\ sched' = "top"
  /\ UNCHANGED <<saving, link, game, schedEvent, schedRunning, schedFrame, rumbleStopped,
                 zeroCount, early, gateShut, taskRunning, sends, writing, motor, lost, outrun>>

\* get_current_vibration_frames: what the cycle has summed up, or else the latest value;
\* reading empties the buffer.
SchedReads ==
  /\ sched = "runs" /\ ~early /\ sched' = "read" /\ early' = TRUE
  /\ schedFrame' = (game.latest \/ (game.dirty /\ game.pulse))
  /\ game' = [game EXCEPT !.dirty = FALSE, !.pulse = FALSE]
  /\ UNCHANGED <<saving, link, schedEvent, schedRunning, rumbleStopped, zeroCount, gateShut,
                 taskRunning, sends, writing, motor, lost, outrun>>

\* _dispatch_rumble_coro: over System Bluetooth the flag is taken here, elsewhere by the
\* worker when the event loop begins it.
Dispatch(frame) ==
  /\ Len(sends) < MaxSends
  /\ sends' = Append(sends, frame) /\ taskRunning' = (link = "bt")

\* The frame is dropped while a worker is busy; of silent frames three go out, of buzzing
\* ones those that the bridge's gate lets through.
SchedActs ==
  /\ sched = "read" /\ sched' = "top" /\ schedFrame' = FALSE
  /\ \/ /\ taskRunning \/ (~schedFrame /\ rumbleStopped)
        /\ UNCHANGED <<rumbleStopped, zeroCount, gateShut, taskRunning, sends, outrun>>
     \/ /\ ~taskRunning /\ ~schedFrame /\ ~rumbleStopped
        /\ Dispatch(FALSE)
        /\ zeroCount' = IF zeroCount < ZeroFrames THEN zeroCount + 1 ELSE zeroCount
        /\ rumbleStopped' = (zeroCount' = ZeroFrames)
        /\ outrun' = (outrun \/ (rumbleStopped' /\ game.dirty /\ game.pokes # "marks"))
        /\ UNCHANGED gateShut
     \/ /\ ~taskRunning /\ schedFrame
        /\ rumbleStopped' = FALSE /\ zeroCount' = 0
        /\ IF link = "bridge" /\ gateShut THEN UNCHANGED <<sends, taskRunning>>
                                          ELSE Dispatch(TRUE)
        /\ gateShut' = (link = "bridge") /\ UNCHANGED outrun
  /\ UNCHANGED <<saving, link, game, schedEvent, schedRunning, early, writing, motor, lost>>

TimePasses ==
  /\ early \/ gateShut
  /\ early' = FALSE /\ gateShut' \in {FALSE, gateShut}
  /\ UNCHANGED <<saving, link, game, sched, schedEvent, schedRunning, schedFrame,
                 rumbleStopped, zeroCount, taskRunning, sends, writing, motor, lost, outrun>>

-----------------------------------------------------------------------------
(* The event loop: _simple_rumble_send_worker, set_vibration *)

WorkerBegins ==
  /\ sends # <<>> /\ Len(writing) < MaxSends
  /\ sends' = Tail(sends) /\ writing' = Append(writing, Head(sends)) /\ taskRunning' = TRUE
  /\ UNCHANGED <<saving, link, game, sched, schedEvent, schedRunning, schedFrame,
                 rumbleStopped, zeroCount, early, gateShut, motor, lost, outrun>>

\* The write arrives, or fails and is only logged; either way the flag falls, on a direct
\* transport even when a later worker is writing.
WorkerEnds ==
  /\ writing # <<>> /\ writing' = Tail(writing) /\ taskRunning' = FALSE
  /\ \/ motor' = Head(writing) /\ UNCHANGED lost
     \/ lost < MaxLost /\ lost' = lost + 1 /\ UNCHANGED motor
  /\ UNCHANGED <<saving, link, game, sched, schedEvent, schedRunning, schedFrame,
                 rumbleStopped, zeroCount, early, gateShut, sends, outrun>>

SchedulerNext ==
  \/ \E v \in BOOLEAN : GameSays(v)
  \/ PokeMarks \/ PokeSets \/ \E on \in BOOLEAN : PlainPoke(on)
  \/ SchedWaits \/ SchedWakes \/ SchedClears \/ SchedTooEarly \/ SchedReads \/ SchedActs
  \/ TimePasses \/ WorkerBegins \/ WorkerEnds

SchedulerSpec == SchedulerInit /\ [][SchedulerNext]_schedulerVars

-----------------------------------------------------------------------------
\* When the scheduler sleeps with no wake-up on its way, the rumble is over: the game wants
\* none, and once the sends have run out the motor is still, although writes were lost and
\* frames were dropped while a worker was busy.  The one way out is a callback that pokes
\* between the scheduler's read and its third silent frame: its mark is overwritten.
AsleepStill ==
  sched = "sleeps" /\ ~schedEvent /\ game.pokes = "no" /\ ~outrun =>
    /\ ~game.latest
    /\ sends = <<>> /\ writing = <<>> => ~motor

\* Besides, every variable keeps its type.
AsleepMeansStill == SchedulerTypeOK /\ AsleepStill
=============================================================================
