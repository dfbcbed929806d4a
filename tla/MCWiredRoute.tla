----------------------------- MODULE MCWiredRoute -----------------------------
(***************************************************************************)
(* A finite instance of WiredRoute: a port whose pad is connected twice    *)
(* (w1, w2), while the slots are empty, or all held by another route's     *)
(* Joy-Cons.                                                               *)
(***************************************************************************)
EXTENDS WiredRoute

CONSTANTS w1, w2, l1, l2, k1, noKey

MCKind == [c \in Controller |-> IF c \in {w1, w2} THEN "pro" ELSE "left"]
MCKeyOf == [c \in Controller |-> IF c \in {w1, w2} THEN k1 ELSE noKey]

\* A Joy-Con on its own in each of the first n slots
Seated(n) ==
  /\ lockq = <<>>
  /\ made = n /\ table = [i \in Slot |-> IF i <= n THEN i ELSE NoVc]
  /\ members = [v \in VcId |-> IF v > n THEN <<>> ELSE IF v = 1 THEN <<l1>> ELSE <<l2>>]
  /\ running = [v \in VcId |-> v <= n] /\ device = [v \in VcId |-> v <= n]
  /\ player = [v \in VcId |-> IF v <= n THEN v ELSE 0]

\* A behaviour ends with the sweep of an add that is alive: the properties say nothing
\* of its pad from there on.
SeatedNext ==
  \/ overdue = {} /\ WiredNext
  \/ overdue # {} /\ UNCHANGED wiredVars

SeatedInit == WiredInit /\ \E n \in {0, Slots} : Seated(n)
SeatedSpec == SeatedInit /\ [][SeatedNext]_wiredVars /\ WiredFairness

=============================================================================
