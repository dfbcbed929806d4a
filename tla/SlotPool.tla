------------------------------- MODULE SlotPool -------------------------------
(***************************************************************************)
(* What the player slots promise, whoever claims, frees, splits or merges  *)
(* them: the abstract specification of VIRTUAL_CONTROLLERS and of the      *)
(* VirtualController objects.  A VirtualController is made for one         *)
(* controller, may be joined by the opposite Joy-Con, loses its controllers*)
(* one at a time, gives its seat up with the last of them and never comes  *)
(* back; its virtual device exists only while it is open.  Where in the    *)
(* table it sits, who waits for GLOBAL_LOCK and how far each task is do    *)
(* not show here.                                                          *)
(***************************************************************************)
CONSTANTS
  Controller,  \* Controller objects
  Kind,        \* "pro", "gamecube", "left" or "right"
  Vc           \* VirtualController objects

VARIABLES
  used,    \* the objects made so far
  seated,  \* those in the table
  team,    \* the controllers each of them drives
  open,    \* those whose "running" flag is set
  on       \* those with a virtual device

poolVars == <<used, seated, team, open, on>>

PoolInit ==
  /\ used = {} /\ seated = {} /\ open = {} /\ on = {}
  /\ team = [v \in Vc |-> {}]

Opposite(c, d) == {Kind[c], Kind[d]} = {"left", "right"}
Idle(c) == \A v \in Vc : c \notin team[v]

Open(v, c) ==
  /\ v \notin used /\ Idle(c)
  /\ used' = used \cup {v} /\ seated' = seated \cup {v} /\ open' = open \cup {v}
  /\ team' = [team EXCEPT ![v] = {c}]
  /\ UNCHANGED on

Join(v, c) ==
  /\ v \in seated /\ Idle(c)
  /\ \E d \in team[v] : team[v] = {d} /\ Opposite(c, d)
  /\ team' = [team EXCEPT ![v] = @ \cup {c}]
  /\ UNCHANGED <<used, seated, open, on>>

GivesUpSeat(v) == seated' = seated \ {v} /\ open' = open \ {v} /\ on' = on \ {v}

Leave(v, c) ==
  /\ v \in seated /\ c \in team[v]
  /\ team' = [team EXCEPT ![v] = @ \ {c}]
  /\ IF team[v] = {c} THEN GivesUpSeat(v) ELSE UNCHANGED <<seated, open, on>>
  /\ UNCHANGED used

\* A merge: the only controller of w moves to v.
Move(w, v) ==
  /\ v # w /\ v \in seated /\ w \in seated
  /\ \E c \in team[w], d \in team[v] :
       /\ team[w] = {c} /\ team[v] = {d} /\ Opposite(c, d)
       /\ team' = [team EXCEPT ![v] = {c, d}, ![w] = {}]
  /\ GivesUpSeat(w)
  /\ UNCHANGED used

\* VirtualController.disconnect: closed at once and for good, and at its end the
\* controllers that were not reported one by one are let go together.
Close(v) ==
  /\ v \in seated
  /\ open' = open \ {v} /\ on' = on \ {v}
  /\ UNCHANGED <<used, seated, team>>

Dismiss(v) ==
  /\ v \in seated \ open
  /\ team' = [team EXCEPT ![v] = {}]
  /\ UNCHANGED <<used, seated, open, on>>

SwitchOn(v) == v \in open /\ on' = on \cup {v} /\ UNCHANGED <<used, seated, team, open>>
SwitchOff(v) == on' = on \ {v} /\ UNCHANGED <<used, seated, team, open>>

PoolNext ==
  \E v \in Vc :
    \/ Close(v) \/ Dismiss(v) \/ SwitchOn(v) \/ SwitchOff(v)
    \/ \E c \in Controller : Open(v, c) \/ Join(v, c) \/ Leave(v, c)
    \/ \E w \in Vc : Move(w, v)

Spec == PoolInit /\ [][PoolNext]_poolVars

=============================================================================
