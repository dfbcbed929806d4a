----------------------------- MODULE InputSubmit -----------------------------
(***************************************************************************)
(* Input frames on their way to the virtual pad, src/src/                   *)
(* virtual_controller.py: the thread of the physical pad leaves the newest *)
(* frame in a slot, a submit thread takes it to the driver under           *)
(* state_lock, and whoever replaces, closes or opens the virtual device    *)
(* holds that lock, asks the submit thread to end and waits 0.5 s for it.  *)
(*                                                                         *)
(* Every frame is numbered and carries one tap: a button pressed in that   *)
(* frame only.  The modes' report layouts, the diagnostics and the         *)
(* suppression of repeated frames in the power mode Full are left out.     *)
(***************************************************************************)
EXTENDS Naturals

CONSTANTS
  MaxFrames,    \* bound: the frames the pad sends
  MaxThreads,   \* bound: the submit threads ever started
  MaxLives      \* bound: replacements, closings and openings of the device

ASSUME SubmitAssumption == MaxFrames \in Nat /\ MaxThreads \in Nat

VARIABLES
  frames,       \* frames published so far
  publishing,   \* the pad's thread is between the slot and _start_submit_thread
  submitPending,\* _submit_pending: frame and generation, frame 0 for None
  sticky,       \* _submit_sticky_buttons: the taps of superseded frames
  submitter,    \* the threads: "new", "loop", "holding" a frame, or "ended"
  hand,         \* the frame a thread holds, with its taps and generation
  submitThread, \* _submit_thread, 0 for None
  submitStop,   \* _submit_stop
  generation,   \* _virtual_device_generation
  device,       \* the virtual device, numbered; 0 for None
  devices,      \* devices created so far
  life,         \* who holds state_lock and how far it is: see the actions below
  lives,        \* lifecycle operations so far
  aimedAt,      \* (history) the device a tap was meant for; 0 when there was none to play with
  landed,       \* (history) the devices each tap reached
  crossed,      \* (history) frames published while the submit thread is being stopped
  shown,        \* (history) the last frame the device was given
  muddled       \* (history) "ok"; "doubled": two submit threads at once; "backwards": not in order

submitVars == <<frames, publishing, submitPending, sticky, submitter, hand, submitThread,
                submitStop, generation, device, devices, life, lives, aimedAt, landed, crossed,
                shown, muddled>>

pipeVars == <<submitPending, sticky, submitter, hand, submitThread, submitStop>>
lifeVars == <<generation, device, devices, life, lives>>
tapVars == <<aimedAt, landed, crossed, shown, muddled>>

Frame == 1 .. MaxFrames
Submitter == 1 .. MaxThreads
Empty == [frame |-> 0, gen |-> 0]
Nothing == [frame |-> 0, gen |-> 0, taps |-> {}]
Idle == [step |-> "idle", op |-> "none", thread |-> 0]

SubmitInit ==
  /\ frames = 0 /\ publishing = FALSE
  /\ submitPending = Empty /\ sticky = {}
  /\ submitter = [t \in Submitter |-> "new"] /\ hand = [t \in Submitter |-> Nothing]
  /\ submitThread = 0 /\ submitStop = FALSE
  /\ generation = 1 /\ device = 1 /\ devices = 1 /\ life = Idle /\ lives = 0
  /\ aimedAt = [f \in Frame |-> 0] /\ landed = [f \in Frame |-> {}]
  /\ crossed = {} /\ shown = 0 /\ muddled = "ok"

Alive(t) == t # 0 /\ submitter[t] \in {"loop", "holding"}
Running == {t \in Submitter : Alive(t)}

SubmitTypeOK ==
  /\ frames \in 0 .. MaxFrames /\ publishing \in BOOLEAN /\ submitStop \in BOOLEAN
  /\ submitPending.frame \in 0 .. frames /\ submitPending.gen \in 0 .. generation
  /\ submitter \in [Submitter -> {"new", "loop", "holding", "ended"}]
  /\ submitThread \in 0 .. MaxThreads /\ sticky \subseteq 1 .. frames /\ shown \in 0 .. frames
  /\ \A t \in Submitter : (submitter[t] = "holding") = (hand[t].frame # 0)
  /\ life.step \in {"idle", "bumped", "joining", "joined", "clean"} /\ device \in 0 .. devices

-----------------------------------------------------------------------------
(* The pad's thread: _publish_input_submit, _start_submit_thread *)

\* (mutation) the newest frame replaces the one that waits, presses and all
Forgets == {}

\* The presses of the frame that waits, and of those before it, stay to be delivered.
Superseded == IF submitPending.frame = 0 THEN sticky ELSE sticky \cup {submitPending.frame}

\* (bounds)
MorePlay == frames < MaxFrames /\ \E t \in Submitter : submitter[t] = "new"

Publishes ==
  /\ ~publishing /\ MorePlay
  /\ frames' = frames + 1 /\ publishing' = TRUE
  /\ sticky' = Superseded
  /\ submitPending' = [frame |-> frames', gen |-> generation]
  /\ aimedAt' = [aimedAt EXCEPT ![frames'] = IF life = Idle THEN device ELSE 0]
  /\ crossed' = IF life.step \in {"bumped", "joining", "joined"} THEN crossed \cup {frames'} ELSE crossed
  /\ UNCHANGED <<submitter, hand, submitThread, submitStop, lifeVars, landed, shown, muddled>>

FindsThread ==
  /\ publishing /\ publishing' = FALSE
  /\ Alive(submitThread)
  /\ UNCHANGED <<frames, pipeVars, lifeVars, tapVars>>

StartsThread ==
  /\ publishing /\ publishing' = FALSE
  /\ ~Alive(submitThread)
  /\ \E t \in Submitter :
       /\ submitter[t] = "new" /\ \A s \in 1 .. (t - 1) : submitter[s] # "new"
       /\ submitter' = [submitter EXCEPT ![t] = "loop"] /\ submitThread' = t
  /\ submitStop' = FALSE
  /\ muddled' = IF muddled = "ok" /\ Running # {} THEN "doubled" ELSE muddled
  /\ UNCHANGED <<frames, submitPending, sticky, hand, lifeVars, aimedAt, landed, crossed, shown>>

-----------------------------------------------------------------------------
(* A submit thread: _input_submit_loop, _run_input_submit *)

TakesPending(t) ==
  /\ submitter[t] = "loop" /\ ~submitStop /\ submitPending.frame # 0
  /\ submitter' = [submitter EXCEPT ![t] = "holding"]
  /\ hand' = [hand EXCEPT ![t] = [frame |-> submitPending.frame, gen |-> submitPending.gen,
                                  taps |-> sticky \cup {submitPending.frame}]]
  /\ submitPending' = Empty /\ sticky' = {}
  /\ UNCHANGED <<frames, publishing, submitThread, submitStop, lifeVars, tapVars>>

\* (mutation) whatever device there is gets the frame
AnyDevice(h) == device # 0

\* The frame was captured for the device that is there.
SameDevice(h) == device # 0 /\ h.gen = generation

Submits(t) ==
  /\ submitter[t] = "holding" /\ life = Idle
  /\ IF SameDevice(hand[t])
     THEN /\ landed' = [f \in Frame |->
               IF f \in hand[t].taps THEN landed[f] \cup {<<device, hand[t].frame>>} ELSE landed[f]]
          /\ shown' = hand[t].frame
          /\ muddled' = IF muddled = "ok" /\ hand[t].frame < shown THEN "backwards" ELSE muddled
     ELSE UNCHANGED <<landed, shown, muddled>>
  /\ submitter' = [submitter EXCEPT ![t] = "loop"] /\ hand' = [hand EXCEPT ![t] = Nothing]
  /\ UNCHANGED <<frames, publishing, submitPending, sticky, submitThread, submitStop, lifeVars,
                 aimedAt, crossed>>

Ends(t) ==
  /\ submitter[t] = "loop" /\ submitStop
  /\ submitter' = [submitter EXCEPT ![t] = "ended"]
  /\ UNCHANGED <<frames, publishing, submitPending, sticky, hand, submitThread, submitStop,
                 lifeVars, tapVars>>

-----------------------------------------------------------------------------
(* The device's life, under state_lock *)

\* cleanup_vg_controller, for good ("close": a driver switch, a merge, a disconnect) or
\* from _setup_vg_controller, which has bumped the generation before ("replace": set_mode).
Begins(op) ==
  /\ life = Idle /\ lives < MaxLives /\ device # 0 /\ op \in {"close", "replace"}
  /\ lives' = lives + 1
  /\ life' = [step |-> "bumped", op |-> op, thread |-> 0]
  /\ generation' = generation + (IF op = "replace" THEN 2 ELSE 1)
  /\ UNCHANGED <<frames, publishing, pipeVars, device, devices, tapVars>>

\* _stop_submit_thread
Flags ==
  /\ life.step = "bumped"
  /\ submitStop' = TRUE
  /\ life' = [life EXCEPT !.step = "joining", !.thread = submitThread]
  /\ UNCHANGED <<frames, publishing, submitPending, sticky, submitter, hand, submitThread,
                 generation, device, devices, lives, tapVars>>

\* The thread has ended, or 0.5 s have passed and it waits for state_lock.
Joins ==
  /\ life.step = "joining"
  /\ life.thread # 0 => submitter[life.thread] \in {"ended", "holding"}
  /\ life' = [life EXCEPT !.step = "joined"]
  /\ UNCHANGED <<frames, publishing, pipeVars, generation, device, devices, lives, tapVars>>

\* (mutation) the thread is gone, so what it left is left
LeavesSlot == [pending |-> submitPending, sticky |-> sticky]

ClearsSlot == [pending |-> Empty, sticky |-> {}]

Clears ==
  /\ life.step = "joined"
  /\ life' = [life EXCEPT !.step = "clean"]
  /\ submitThread' = 0
  /\ submitPending' = ClearsSlot.pending /\ sticky' = ClearsSlot.sticky
  /\ UNCHANGED <<frames, publishing, submitter, hand, submitStop, generation, device, devices,
                 lives, tapVars>>

\* The old device goes; a replacement is made at once.
Finishes ==
  /\ life.step = "clean" /\ life' = Idle
  /\ IF life.op = "replace"
     THEN device' = devices + 1 /\ devices' = devices + 1
     ELSE device' = 0 /\ UNCHANGED devices
  /\ UNCHANGED <<frames, publishing, pipeVars, generation, lives, tapVars>>

\* setup_virtual_device, or a driver switch, where no device is.
OpensDevice ==
  /\ life = Idle /\ lives < MaxLives /\ device = 0
  /\ lives' = lives + 1
  /\ generation' = generation + 1 /\ device' = devices + 1 /\ devices' = devices + 1
  /\ UNCHANGED <<frames, publishing, pipeVars, life, tapVars>>

-----------------------------------------------------------------------------

\* Every frame sent, the threads wait.
Rests ==
  /\ ~MorePlay /\ ~publishing /\ life = Idle
  /\ submitPending.frame = 0 /\ \A t \in Submitter : submitter[t] # "holding"
  /\ UNCHANGED submitVars

SubmitNext ==
  \/ Publishes \/ FindsThread \/ StartsThread
  \/ \E t \in Submitter : TakesPending(t) \/ Submits(t) \/ Ends(t)
  \/ \E op \in {"close", "replace"} : Begins(op)
  \/ Flags \/ Joins \/ Clears \/ Finishes \/ OpensDevice \/ Rests

SubmitSpec == SubmitInit /\ [][SubmitNext]_submitVars

-----------------------------------------------------------------------------

OnItsWay(f) ==
  \/ f = submitPending.frame \/ f \in sticky
  \/ \E t \in Submitter : f \in hand[t].taps /\ SameDevice(hand[t])

\* A tap between two submits reaches the game once and only in the device it was meant for,
\* however frames are superseded and threads stopped: unless that device is gone it has
\* arrived or is on its way, with a thread to carry it; and one thread shows frames in
\* order.  (A frame published while the thread is being stopped bears the generation of the
\* new device: taken before the stop flag, or by a thread started after it, it carries older
\* taps there.)  Every variable keeps its type: a thread holds a frame exactly while it is
\* about to submit it, and latched taps are of frames that were sent.
TapsReachGame ==
  /\ SubmitTypeOK
  /\ \A f \in 1 .. frames :
       /\ \A x, y \in landed[f] : x = y
       /\ \A x \in landed[f] : x[1] # aimedAt[f] => aimedAt[f] = 0 \/ x[2] \in crossed
       /\ (life = Idle /\ aimedAt[f] = device /\ device # 0) => landed[f] # {} \/ OnItsWay(f)
  /\ (submitPending.frame # 0 /\ ~publishing /\ life = Idle) => (Running # {} /\ ~submitStop)
  /\ muddled # "backwards"

=============================================================================
