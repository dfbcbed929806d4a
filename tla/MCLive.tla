------------------------------- MODULE MCLive -------------------------------
(***************************************************************************)
(* Liveness: a small instance of SystemBtRoute under the event loop's      *)
(* fairness, and the discovery session under the threads'.  The two share  *)
(* no state: a behaviour picks one and leaves the other as it starts.      *)
(***************************************************************************)
EXTENDS SystemBtRoute, DiscoverySession

CONSTANTS l1, r1, aL, aR

VARIABLE part   \* the part of the program that moves

MCKind == [c \in Controller |-> IF c = r1 THEN "right" ELSE "left"]
MCAddrOf == [c \in Controller |-> IF c = r1 THEN aR ELSE aL]

\* Where the route moves, the session runs: no fairness waits for a step of it.
LiveInit ==
  /\ Init
  /\ \/ part = "route" /\ FirstSession("runs")
     \/ part = "session" /\ SessionInit
LiveNext ==
  \/ part = "route" /\ Next /\ UNCHANGED <<part, sessionVars>>
  \/ part = "session" /\ SessionNext /\ UNCHANGED <<part, vars>>

LiveSpec == LiveInit /\ [][LiveNext]_<<part, vars, sessionVars>> /\ Fairness /\ SessionFairness

\* Two interruptions at most; and once a session overlaps the one before, or a restart is
\* refused or withdrawn, the properties of the session say nothing any more.
StillBound == suspends + flashes <= 2 /\ ~overlap /\ ~refused /\ ~wiped

=============================================================================
