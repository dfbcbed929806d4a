--------------------------- MODULE MCSystemBtRoute ---------------------------
(***************************************************************************)
(* Finite instances of SystemBtRoute: a left Joy-Con seen twice (l1 and l2 *)
(* are two connection attempts of the device aL) and a right one.          *)
(***************************************************************************)
EXTENDS SystemBtRoute

CONSTANTS l1, l2, r1, aL, aR

MCKind == [c \in Controller |-> IF c = r1 THEN "right" ELSE "left"]
MCAddrOf == [c \in Controller |-> IF c = r1 THEN aR ELSE aL]

\* Bounds: while the host closes slots, or after the session was told to stop, the left
\* Joy-Con does not come back; such a behaviour ends with an attempt that failed or lost its
\* link, and the session stops when no attempt is under way (bt_live has the other case).
InScene ==
  \/ NoClosedSlot /\ ~stopping /\ \A c \in Controller : stage[c] = "ready" => client[c]
  \/ /\ stage[l2] = "unused"
     /\ \A c \in Controller : /\ stage[c] # "failed"
                             /\ (drop[c] # "none" \/ stopping) => stage[c] \in {"unused", "ready"}

=============================================================================
