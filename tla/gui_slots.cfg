SPECIFICATION CommandsSpec
CONSTANTS
  l1 = l1
  l2 = l2
  r1 = r1
  p1 = p1
  aL = aL
  aR = aR
  aP = aP
  g1 = g1
  g2 = g2
  Command = {g1, g2}
  Controller = {l1, r1}
  Addr = {aL, aR}
  Kind <- MCKind
  AddrOf <- MCAddrOf
  Slots = 2
  MaxVc = 4
  CombineJoycons = TRUE
  PairingMode = {}
  MayClose = FALSE
  MayStop = FALSE
INVARIANT HomesTyped
PROPERTY ImplementsPool
