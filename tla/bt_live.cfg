SPECIFICATION LiveSpec
CONSTANTS
  l1 = l1
  r1 = r1
  aL = aL
  aR = aR
  Controller = {l1, r1}
  Addr = {aL, aR}
  Kind <- MCKind
  AddrOf <- MCAddrOf
  Slots = 1
  MaxVc = 2
  CombineJoycons = TRUE
  PairingMode = {l1}
  MayClose = FALSE
  MayStop = TRUE
  Restarter = {"restart1", "restart2"}
  Gui = "gui"
  MaxSessions = 5
  MaxSuspends = 2
  MaxFlashes = 1
CHECK_DEADLOCK FALSE
CONSTRAINT StillBound
INVARIANT SlotsOfSession
PROPERTY AttemptsEnd
PROPERTY CallbacksEnd
 
