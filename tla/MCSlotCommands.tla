--------------------------- MODULE MCSlotCommands ---------------------------
\* Finite instances of SlotCommands: a left Joy-Con seen twice (l1 and l2 are two
\* connection attempts of the device aL), a right one and a Pro Controller.
EXTENDS SlotCommands

CONSTANTS g1, g2, l1, l2, r1, p1, aL, aR, aP

MCKind ==
  [c \in Controller |-> IF c \in {l1, l2} THEN "left" ELSE IF c = r1 THEN "right" ELSE "pro"]
MCAddrOf ==
  [c \in Controller |-> IF c \in {l1, l2} THEN aL ELSE IF c = r1 THEN aR ELSE aP]

=============================================================================
