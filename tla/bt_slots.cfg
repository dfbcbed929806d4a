SPECIFICATION Spec
CONSTANTS
  l1 = l1
  l2 = l2
  r1 = r1
  aL = aL
  aR = aR
  Controller = {l1, l2, r1}
  Addr = {aL, aR}
  Kind <- MCKind
  AddrOf <- MCAddrOf
  Slots = 2
  MaxVc = 3
  CombineJoycons = TRUE
  PairingMode = {l2}
  MayClose = TRUE
  MayStop = TRUE
CONSTRAINT InScene
INVARIANT TypeOK
INVARIANT NoLeakedReservation
INVARIANT PairsOpposite
INVARIANT PlayersNumbered
 
INVARIANT NoZombieDevice
PROPERTY SlotFreedWhenEmpty
PROPERTY ImplementsPool
