SPECIFICATION SceneSpec
CONSTANTS
  l1 = l1
  l2 = l2
  r1 = r1
  aL = aL
  aR = aR
  Controller = {l1, l2, r1}
  Mac = {aL, aR}
  NoMac = noMac
  noMac = noMac
  NoController = nobody
  nobody = nobody
  Kind <- MCKind
  MacOf <- MCMacOf
  Chans = 2
  OutQueue = 1
  Slots = 2
  MaxVc = 3
  CombineJoycons = TRUE
  Groups = 2
  MissLimit = 2
  MaxRetry = 1
  MaxPosted = 1
  MayLose = TRUE
INVARIANT RegisteredIsDriven
 
PROPERTY ImplementsPool
