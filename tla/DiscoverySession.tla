--------------------------- MODULE DiscoverySession ---------------------------
(***************************************************************************)
(* The discovery session and those who start and stop it: the thread that  *)
(* runs run_discovery_session (src/src/discoverer.py), the power events,   *)
(* the restart threads that a resume leaves behind and the GUI thread,     *)
(* which stops discovery to flash the bridge (src/src/gui.py).             *)
(*                                                                         *)
(* A session has one controller here: what many of them do to the slots is *)
(* SystemBtRoute's, BridgeRoute's and WiredRoute's.  External: Windows     *)
(* reports a suspend, then one resume or two; the second may come long     *)
(* after the first.  Quitting the program is left out.  A step of a thread *)
(* ends where the thread blocks: a starter does not block between          *)
(* thread.start() and the finally clause of the restart thread.            *)
(***************************************************************************)
EXTENDS Naturals, FiniteSets

CONSTANTS
  Restarter,    \* bound: the restart threads there may be
  Gui,          \* the GUI thread
  MaxSessions,  \* bound: session threads started
  MaxSuspends,  \* bound: suspends
  MaxFlashes    \* bound: firmware flashes

ASSUME SessionAssumption ==
  /\ Gui \notin Restarter /\ MaxSessions \in Nat \ {0}
  /\ MaxSuspends \in Nat /\ MaxFlashes \in Nat

Session == 1 .. MaxSessions
Starter == Restarter \cup {Gui}
NoSession == 0

VARIABLES
  power,        \* where handle_power_event stands, or what it left: "awake", "asleep"
  suspends,     \* suspends so far
  resumed,      \* resume events since the last suspend
  suspending,   \* _IS_SUSPENDING
  quit,         \* quit_event
  restarting,   \* _is_restarting_discovery
  flashes,      \* firmware flashes so far
  starter,      \* where each starter stands in start_discoverer_thread
  thread,       \* discoverer_thread: its session, or NoSession
  session,      \* where the thread of each session stands
  wired,        \* the sessions whose wired watcher runs
  discovering,  \* _CURRENTLY_DISCOVERING
  onItsWay,     \* the sessions with a connection attempt on its way
  books,        \* the sessions that count a controller as connected
  seats,        \* VIRTUAL_CONTROLLERS: the sessions whose controller has a slot
  refused,      \* history: a session was not started because another one had not gone yet
  wiped,        \* history: a restart thread withdrew the restart that waits behind it
  overlap       \* history: a session began while the one before was still closing

powerVars == <<power, suspends, resumed, suspending>>
tableVars == <<onItsWay, books, seats>>
historyVars == <<refused, wiped, overlap>>
sessionVars == <<powerVars, quit, restarting, flashes, starter, thread, session, wired, discovering,
                 tableVars, historyVars>>

SessionTypeOK ==
  /\ power \in {"awake", "suspending", "asleep", "resuming", "swept"}
  /\ suspends \in 0 .. MaxSuspends /\ flashes \in 0 .. MaxFlashes /\ resumed \in 0 .. 2
  /\ suspending \in BOOLEAN /\ quit \in BOOLEAN /\ restarting \in BOOLEAN
  /\ starter \in [Starter -> {"off", "waits", "starts", "joins", "clears", "stops",
                              "flashes"}]
  /\ thread \in Session \cup {NoSession}
  /\ session \in [Session -> {"none", "starting", "cleans", "runs", "leaving", "closing",
                              "drains", "gone"}]
  /\ wired \subseteq Session /\ discovering \in BOOLEAN
  /\ onItsWay \subseteq Session /\ books \subseteq Session /\ seats \subseteq Session
  /\ refused \in BOOLEAN /\ wiped \in BOOLEAN /\ overlap \in BOOLEAN

\* The program is up, and the thread of its first session stands at pc: it
\* starts, or it runs.
FirstSession(pc) ==
  /\ power = "awake" /\ suspends = 0 /\ resumed = 2 /\ suspending = FALSE
  /\ quit = FALSE /\ restarting = FALSE /\ flashes = 0
  /\ starter = [a \in Starter |-> "off"]
  /\ thread = 1 /\ session = [s \in Session |-> IF s = 1 THEN pc ELSE "none"]
  /\ wired = {s \in {1} : pc = "runs"} /\ discovering = (pc = "runs")
  /\ onItsWay = {} /\ books = {} /\ seats = {}
  /\ refused = FALSE /\ wiped = FALSE /\ overlap = FALSE

\* start_detection_and_discovery has started it.
SessionInit == FirstSession("starting")

StarterGoto(a, pc) == starter' = [starter EXCEPT ![a] = pc]
SessionGoto(s, pc) == session' = [session EXCEPT ![s] = pc]
Alive(s) == s # NoSession /\ session[s] \notin {"none", "gone"}
-----------------------------------------------------------------------------
(* handle_power_event, on the thread of the power listener *)

SuspendBegins ==
  /\ power = "awake" /\ suspends < MaxSuspends
  /\ power' = "suspending" /\ suspends' = suspends + 1 /\ resumed' = 0 /\ suspending' = TRUE
  /\ UNCHANGED <<flashes, quit, restarting, starter, thread, session, wired,
                 discovering, tableVars, historyVars>>

SuspendEnds ==
  /\ power = "suspending" /\ power' = "asleep" /\ quit' = TRUE /\ restarting' = FALSE
  /\ UNCHANGED <<flashes, suspends, resumed, suspending, starter, thread, session,
                 wired, discovering, tableVars, historyVars>>

\* A restart thread is at hand for every resume that may want one.
ResumeBegins ==
  /\ power \in {"asleep", "awake"} /\ resumed < 2
  /\ \E r \in Restarter : starter[r] = "off"
  /\ power' = "resuming" /\ resumed' = resumed + 1 /\ suspending' = FALSE /\ quit' = FALSE
  /\ UNCHANGED <<flashes, suspends, restarting, starter, thread, session, wired,
                 discovering, tableVars, historyVars>>

\* emergency_cleanup: no lock is taken and no session told.
ResumeSweeps ==
  /\ power = "resuming" /\ power' = "swept" /\ seats' = {}
  /\ UNCHANGED <<flashes, suspends, resumed, suspending, quit, restarting, starter,
                 thread, session, wired, discovering, onItsWay, books, historyVars>>

FreshThread == CHOOSE r \in Restarter : starter[r] = "off"

ResumeRestarts ==
  /\ power = "swept" /\ power' = "awake" /\ restarting' = TRUE
  /\ IF restarting THEN UNCHANGED starter ELSE StarterGoto(FreshThread, "waits")
  /\ UNCHANGED <<flashes, suspends, resumed, suspending, quit, thread, session, wired,
                 discovering, tableVars, historyVars>>

-----------------------------------------------------------------------------
(* restart(), on a thread of its own, after 7 s *)

\* The finally clause clears the flag, whoever set it last.
Withdraws(r) ==
  /\ restarting' = FALSE
  /\ wiped' = (wiped \/ (restarting /\ \E q \in Restarter \ {r} : starter[q] = "waits"))

RestartGoes(r) ==
  /\ starter[r] = "waits" /\ restarting /\ ~suspending /\ StarterGoto(r, "starts")
  /\ UNCHANGED <<powerVars, flashes, quit, restarting, thread, session, wired,
                 discovering, tableVars, historyVars>>

RestartGivesUp(r) ==
  /\ starter[r] = "waits" /\ (~restarting \/ suspending)
  /\ StarterGoto(r, "off") /\ Withdraws(r)
  /\ UNCHANGED <<powerVars, flashes, quit, thread, session, wired, discovering,
                 tableVars, refused, overlap>>

(* The GUI thread stops discovery, flashes the bridge and starts it again. *)
FlashBegins ==
  /\ starter[Gui] = "off" /\ Alive(thread) /\ power = "awake" /\ flashes < MaxFlashes
  /\ flashes' = flashes + 1 /\ quit' = TRUE /\ StarterGoto(Gui, "stops")
  /\ UNCHANGED <<powerVars, restarting, thread, session, wired, discovering, tableVars,
                 historyVars>>

FlashStops ==
  /\ starter[Gui] = "stops" /\ StarterGoto(Gui, "flashes")
  /\ thread' = NoSession /\ seats' = {}
  /\ UNCHANGED <<powerVars, flashes, quit, restarting, session, wired, discovering,
                 onItsWay, books, historyVars>>

FlashEnds ==
  /\ starter[Gui] = "flashes" /\ StarterGoto(Gui, "starts")
  /\ UNCHANGED <<powerVars, flashes, quit, restarting, thread, session, wired,
                 discovering, tableVars, historyVars>>

-----------------------------------------------------------------------------
(* start_discoverer_thread *)

StartStops(a) ==
  /\ starter[a] = "starts"
  /\ IF Alive(thread) THEN quit' = TRUE /\ StarterGoto(a, "joins")
                      ELSE StarterGoto(a, "clears") /\ UNCHANGED quit
  /\ UNCHANGED <<powerVars, flashes, restarting, thread, session, wired, discovering,
                 tableVars, historyVars>>

\* The join ends with the thread, or after 5 s.
StartJoins(a) ==
  /\ starter[a] = "joins" /\ StarterGoto(a, "clears") /\ thread' = NoSession
  /\ UNCHANGED <<powerVars, flashes, quit, restarting, session, wired, discovering,
                 tableVars, historyVars>>

Unused == {s \in Session : session[s] = "none"}
NextSession == CHOOSE s \in Unused : \A t \in Unused : s <= t

Starts(a) ==
  /\ starter[a] = "clears" /\ Unused # {}
  /\ StarterGoto(a, "off") /\ thread' = NextSession /\ SessionGoto(NextSession, "starting")
  /\ IF a = Gui THEN UNCHANGED <<restarting, wiped>> ELSE Withdraws(a)
  /\ UNCHANGED <<powerVars, flashes, wired, discovering, tableVars, refused, overlap>>

\* (mutation) the event of the last stop is left set
StartsStopped(a) == Starts(a) /\ UNCHANGED quit

StartStarts(a) == Starts(a) /\ quit' = FALSE

-----------------------------------------------------------------------------
(* run_discovery_session *)

SessionEnters(s) ==
  /\ session[s] = "starting" /\ discovering' = TRUE
  /\ SessionGoto(s, IF discovering THEN "gone" ELSE "cleans")
  /\ refused' = (refused \/ discovering)
  /\ overlap' = (overlap \/ \E t \in Session : session[t] \in {"closing", "drains"})
  /\ UNCHANGED <<powerVars, flashes, quit, restarting, starter, thread, wired,
                 tableVars, wiped>>

\* (mutation) a session begins with the table it finds
SessionKeeps(s) ==
  /\ session[s] = "cleans" /\ SessionGoto(s, "runs") /\ wired' = wired \cup {s}
  /\ UNCHANGED <<powerVars, flashes, quit, restarting, starter, thread, discovering,
                 tableVars, historyVars>>

\* The initial cleanup, then the wired watcher's task and the wireless route.
SessionCleans(s) ==
  /\ session[s] = "cleans" /\ SessionGoto(s, "runs")
  /\ seats' = {} /\ wired' = wired \cup {s}
  /\ UNCHANGED <<powerVars, flashes, quit, restarting, starter, thread, discovering,
                 onItsWay, books, historyVars>>

\* The two routes look at quit_event on their own.
WiredNotices(s) ==
  /\ session[s] = "runs" /\ s \in wired /\ quit /\ wired' = wired \ {s}
  /\ UNCHANGED <<powerVars, flashes, quit, restarting, starter, thread, session,
                 discovering, tableVars, historyVars>>

WirelessNotices(s) ==
  /\ session[s] = "runs" /\ quit /\ SessionGoto(s, "leaving")
  /\ UNCHANGED <<powerVars, flashes, quit, restarting, starter, thread, wired,
                 discovering, tableVars, historyVars>>

\* The wired watcher is cancelled and the flag falls; the slots are closed after that.
SessionLeaves(s) ==
  /\ session[s] = "leaving" /\ SessionGoto(s, "closing")
  /\ discovering' = FALSE /\ wired' = wired \ {s}
  /\ UNCHANGED <<powerVars, flashes, quit, restarting, starter, thread, tableVars,
                 historyVars>>

SessionCloses(s) ==
  /\ session[s] = "closing" /\ SessionGoto(s, "drains") /\ seats' = {}
  /\ UNCHANGED <<powerVars, flashes, quit, restarting, starter, thread, wired,
                 discovering, onItsWay, books, historyVars>>

\* The loop closes half a second later, and what is still on its way is cancelled.
SessionEnds(s) ==
  /\ session[s] = "drains" /\ SessionGoto(s, "gone")
  /\ onItsWay' = onItsWay \ {s} /\ books' = books \ {s}
  /\ UNCHANGED <<powerVars, flashes, quit, restarting, starter, thread, wired,
                 discovering, seats, historyVars>>

-----------------------------------------------------------------------------
(* The controller of a session, while its loop runs *)

LoopRuns(s) == session[s] \in {"runs", "leaving", "closing", "drains"}

Appears(s) ==
  /\ session[s] = "runs" /\ s \notin onItsWay \cup books
  /\ onItsWay' = onItsWay \cup {s}
  /\ UNCHANGED <<powerVars, flashes, quit, restarting, starter, thread, session, wired,
                 discovering, books, seats, historyVars>>

Claims(s) ==
  /\ s \in onItsWay /\ LoopRuns(s) /\ onItsWay' = onItsWay \ {s}
  /\ books' = books \cup {s} /\ seats' = seats \cup {s}
  /\ UNCHANGED <<powerVars, flashes, quit, restarting, starter, thread, session, wired,
                 discovering, historyVars>>

\* It fails to connect, or goes.
Goes(s) ==
  /\ s \in onItsWay \cup books /\ LoopRuns(s)
  /\ onItsWay' = onItsWay \ {s} /\ books' = books \ {s} /\ seats' = seats \ {s}
  /\ UNCHANGED <<powerVars, flashes, quit, restarting, starter, thread, session, wired,
                 discovering, historyVars>>

PowerStep == SuspendEnds \/ ResumeSweeps \/ ResumeRestarts \/ (power = "asleep" /\ ResumeBegins)
StarterStep(a) == StartStops(a) \/ StartJoins(a) \/ StartStarts(a)
RestartStep == \E r \in Restarter : RestartGoes(r) \/ RestartGivesUp(r) \/ StarterStep(r)
GuiStep == FlashStops \/ FlashEnds \/ StarterStep(Gui)
SessionStep(s) ==
  \/ SessionEnters(s) \/ SessionCleans(s) \/ WiredNotices(s) \/ WirelessNotices(s)
  \/ SessionLeaves(s) \/ SessionCloses(s) \/ SessionEnds(s)

SessionNext ==
  \/ SuspendBegins \/ ResumeBegins \/ PowerStep \/ RestartStep \/ FlashBegins \/ GuiStep
  \/ \E s \in Session : SessionStep(s) \/ Appears(s) \/ Claims(s) \/ Goes(s)

\* Every thread that can go on does, and who sleeps is woken.
SessionFairness ==
  /\ WF_sessionVars(PowerStep) /\ WF_sessionVars(GuiStep)
  /\ \A r \in Restarter : WF_sessionVars(RestartGoes(r) \/ RestartGivesUp(r) \/ StarterStep(r))
  /\ \A s \in Session : WF_sessionVars(SessionStep(s))

SessionSpec == SessionInit /\ [][SessionNext]_sessionVars /\ SessionFairness

-----------------------------------------------------------------------------
\* A slot belongs to a controller of the session that runs: neither the attempts that
\* outlive the cleanup of their session nor the sweep of a resume leave one behind, as long
\* as no session begins while the one before is still closing (which takes a join that gave
\* up after its 5 s).
SlotsOfSession ==
  \A s \in Session : session[s] = "runs" /\ ~overlap => seats \subseteq {s}

\* However suspends, double resumes, restart threads and the GUI's stops meet, in the end a
\* session runs, with both its routes, and the controller it counts as connected has its
\* slot.  There are two ways out: a start that is refused because the old session takes more
\* than 5 s to leave, and a restart that the thread of an earlier one withdraws.
DiscoveryComesBack ==
  <>[](\/ refused \/ wiped
       \/ \E s \in Session : /\ session[s] = "runs" /\ s \in wired
                             /\ s \in books => s \in seats)
=============================================================================
