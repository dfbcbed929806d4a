----------------------------- MODULE TimerPolicy -----------------------------
(***************************************************************************)
(* The power-saving mode and the 1 ms timer of Windows: src/src/            *)
(* power_saving.py, timer_resolution.py and the loops that lease the timer *)
(* (rumble scheduler and mouse interpolation of controller.py, update loop *)
(* of virtual_controller.py).  The GUI's thread changes the mode in steps  *)
(* while the loops read it, ask for the timer and go to sleep.             *)
(*                                                                         *)
(* External: Windows, where timeBeginPeriod may fail.  Process priority,   *)
(* the release at exit and what the loops do with their time are left out. *)
(***************************************************************************)
EXTENDS Naturals, FiniteSets

CONSTANTS
  TimerLoop,    \* the loops, "rumble" and others
  OffLease      \* the lease of the mode Off itself, not a loop

ASSUME TimerAssumption == OffLease \notin TimerLoop

VARIABLES
  powerMode,    \* power_saving._mode
  change,       \* the GUI's thread: "idle" or its step in a change of mode
  timerSuspended, \* timer_resolution._suspended
  users,        \* timer_resolution._users
  periods,      \* timeBeginPeriod calls less timeEndPeriod calls, as Windows counts
  beginFailed,  \* (history) a resumption whose timeBeginPeriod failed, since there are users
  leases,       \* who believes it holds a lease: loops' timer_acquired, _off_timer_lease
  loop,         \* each loop: "top", "asking" (allowed, not counted yet), "works", "sleeps", "ended"
  loopEvent,    \* the event it sleeps on
  busy          \* there is rumble, or a moving mouse, to produce

timerVars == <<powerMode, change, timerSuspended, users, periods, beginFailed, leases, loop, loopEvent, busy>>

Powers == {"Off", "Auto", "Full"}

TimerInit ==
  /\ powerMode \in Powers /\ change = "idle"
  /\ timerSuspended = (powerMode = "Full")
  /\ leases = (IF powerMode = "Off" THEN {OffLease} ELSE {})
  /\ users = Cardinality(leases) /\ periods = users /\ beginFailed = FALSE
  /\ loop = [l \in TimerLoop |-> "top"]
  /\ loopEvent = [l \in TimerLoop |-> FALSE] /\ busy = [l \in TimerLoop |-> FALSE]

TimerTypeOK ==
  /\ powerMode \in Powers /\ change \in {"idle", "applies", "leases", "suspends", "pokes"}
  /\ leases \subseteq TimerLoop \cup {OffLease} /\ periods \in 0 .. 1
  /\ loop \in [TimerLoop -> {"top", "asking", "works", "sleeps", "ended"}]
  /\ timerSuspended \in BOOLEAN /\ beginFailed \in BOOLEAN
  /\ loopEvent \in [TimerLoop -> BOOLEAN] /\ busy \in [TimerLoop -> BOOLEAN]

-----------------------------------------------------------------------------
(* timer_resolution *)

\* (mutation) the lock is enough
Unguarded == TRUE

\* acquire refuses while the timer is suspended.
Admits == ~timerSuspended

\* acquire, past its first look at the mode.
AcquireTimer(who) ==
  \/ /\ Admits /\ users' = users + 1 /\ leases' = leases \cup {who}
     /\ periods' = (IF users = 0 THEN periods + 1 ELSE periods)
     /\ UNCHANGED beginFailed
  \/ /\ ~Admits \/ users = 0     \* the second: timeBeginPeriod fails
     /\ UNCHANGED <<users, leases, periods, beginFailed>>

ReleaseTimer(who) ==
  IF who \in leases
  THEN /\ users' = users - 1 /\ leases' = leases \ {who}
       /\ periods' = (IF users = 1 /\ ~timerSuspended THEN 0 ELSE periods)
       /\ beginFailed' = (beginFailed /\ users > 1)
  ELSE UNCHANGED <<users, leases, periods, beginFailed>>

\* set_suspended
Suspend(s) ==
  /\ timerSuspended' = s
  /\ IF s = timerSuspended \/ users = 0 THEN UNCHANGED <<periods, beginFailed>>
     ELSE IF s THEN periods' = 0 /\ beginFailed' = FALSE
     ELSE \/ periods' = 1 /\ UNCHANGED beginFailed
          \/ UNCHANGED periods /\ beginFailed' = TRUE

-----------------------------------------------------------------------------
(* The GUI's thread: cycle_power_saving_mode, notify_mode_changed, _apply_timer_policy *)

Cycle == [p \in Powers |-> CASE p = "Off" -> "Auto" [] p = "Auto" -> "Full" [] p = "Full" -> "Off"]

SetsPower ==
  /\ change = "idle" /\ change' = "applies" /\ powerMode' = Cycle[powerMode]
  /\ UNCHANGED <<timerSuspended, users, periods, beginFailed, leases, loop, loopEvent, busy>>

\* In Off: the timer first, then the mode's own lease.
ResumesForOff ==
  /\ change = "applies" /\ powerMode = "Off" /\ change' = "leases"
  /\ Suspend(FALSE)
  /\ UNCHANGED <<powerMode, users, leases, loop, loopEvent, busy>>

LeasesForOff ==
  /\ change = "leases" /\ change' = "pokes"
  /\ AcquireTimer(OffLease)
  /\ UNCHANGED <<powerMode, timerSuspended, loop, loopEvent, busy>>

\* In Auto and Full: the mode's own lease first, then the timer.
EndsOffLease ==
  /\ change = "applies" /\ powerMode # "Off" /\ change' = "suspends"
  /\ ReleaseTimer(OffLease)
  /\ UNCHANGED <<powerMode, timerSuspended, loop, loopEvent, busy>>

SuspendsForFull ==
  /\ change = "suspends" /\ change' = "pokes"
  /\ Suspend(powerMode = "Full")
  /\ UNCHANGED <<powerMode, users, leases, loop, loopEvent, busy>>

\* _update_wake, _poke_rumble_scheduler, on_power_saving_mode_changed
Pokes ==
  /\ change = "pokes" /\ change' = "idle"
  /\ loopEvent' = [l \in TimerLoop |-> TRUE]
  /\ UNCHANGED <<powerMode, timerSuspended, users, periods, beginFailed, leases, loop, busy>>

-----------------------------------------------------------------------------
(* A loop *)

\* The rumble scheduler ticks all the time in Off.
Wanted(l) == busy[l] \/ (l = "rumble" /\ powerMode = "Off")

\* Nothing to do, or Full: no lease, and sleep until somebody sets the event.
LoopRests(l) ==
  /\ loop[l] = "top"
  /\ powerMode = "Full" \/ ~Wanted(l)
  /\ ReleaseTimer(l)
  /\ loop' = [loop EXCEPT ![l] = "sleeps"]
  /\ UNCHANGED <<powerMode, change, timerSuspended, loopEvent, busy>>

\* acquire's first look at the mode, without the lock
LoopAsks(l) ==
  /\ loop[l] = "top" /\ powerMode # "Full" /\ Wanted(l)
  /\ loop' = [loop EXCEPT ![l] = IF l \in leases THEN "works" ELSE "asking"]
  /\ UNCHANGED <<powerMode, change, timerSuspended, users, periods, beginFailed, leases, loopEvent, busy>>

LoopLeases(l) ==
  /\ loop[l] = "asking"
  /\ AcquireTimer(l)
  /\ loop' = [loop EXCEPT ![l] = "works"]
  /\ UNCHANGED <<powerMode, change, timerSuspended, loopEvent, busy>>

LoopWorks(l) ==
  /\ loop[l] = "works" /\ loop' = [loop EXCEPT ![l] = "top"]
  /\ loopEvent' = [loopEvent EXCEPT ![l] = FALSE]
  /\ UNCHANGED <<powerMode, change, timerSuspended, users, periods, beginFailed, leases, busy>>

\* wait returns, the event is cleared, and the loop looks again.
LoopWakesUp(l) ==
  /\ loop[l] = "sleeps" /\ loopEvent[l]
  /\ loopEvent' = [loopEvent EXCEPT ![l] = FALSE]
  /\ loop' = [loop EXCEPT ![l] = "top"]
  /\ UNCHANGED <<powerMode, change, timerSuspended, users, periods, beginFailed, leases, busy>>

LoopEnds(l) ==
  /\ loop[l] = "top" /\ loop' = [loop EXCEPT ![l] = "ended"]
  /\ ReleaseTimer(l)
  /\ UNCHANGED <<powerMode, change, timerSuspended, loopEvent, busy>>

\* Rumble or motion begins, with a poke, and ends.
Stirs(l) ==
  /\ busy' = [busy EXCEPT ![l] = ~@]
  /\ loopEvent' = [loopEvent EXCEPT ![l] = @ \/ ~busy[l]]
  /\ UNCHANGED <<powerMode, change, timerSuspended, users, periods, beginFailed, leases, loop>>

TimerNext ==
  \/ SetsPower \/ ResumesForOff \/ LeasesForOff \/ EndsOffLease \/ SuspendsForFull \/ Pokes
  \/ \E l \in TimerLoop : \/ LoopRests(l) \/ LoopAsks(l) \/ LoopLeases(l) \/ LoopWorks(l)
                          \/ LoopWakesUp(l) \/ LoopEnds(l) \/ Stirs(l)

TimerSpec == TimerInit /\ [][TimerNext]_timerVars

-----------------------------------------------------------------------------

\* The timer is raised exactly while somebody leases it and the mode allows it, whatever a
\* loop asked for while the mode changed; a mode that is settled has left no lease of Off
\* behind; and no loop sleeps through work that its mode lets it do.  (Windows may refuse to
\* raise the timer again after Full; the code does not notice.)  Every variable keeps its
\* type: Windows' count is never raised twice.
TimerMatchesMode ==
  /\ TimerTypeOK
  /\ users = Cardinality(leases)
  /\ ~beginFailed => periods = (IF users > 0 /\ ~timerSuspended THEN 1 ELSE 0)
  /\ change = "idle" => /\ timerSuspended = (powerMode = "Full")
                        /\ powerMode # "Off" => OffLease \notin leases
                        /\ \A l \in TimerLoop : loop[l] = "sleeps" /\ ~loopEvent[l] =>
                             (powerMode = "Full" \/ ~Wanted(l)) /\ l \notin leases

=============================================================================
