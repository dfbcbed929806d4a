SPECIFICATION DevicesSpec
CONSTANTS
  w1 = w1
  w2 = w2
  l1 = l1
  l2 = l2
  k1 = k1
  noKey = noKey
  Controller = {w1, w2, l1, l2}
  Key = {k1}
  NoKey = noKey
  KeyOf <- MCKeyOf
  Kind <- MCKind
  Slots = 2
  MaxVc = 4
  MaxRetries = 1
  MaxAsked = 0
  Btn = {"A", "B", "X"}
  Confirm = "A"
  Cancel = "B"
  Profile = {"p1", "p2"}
  NoProfile = "none"
  HostKey = {"K1", "K2"}
  Layouts <- MCLayouts
  MaxChange = 1
  ZeroFrames = 2
  MaxSends = 1
  MaxLost = 1
  Stick = {"l_joystick"}
  Sector = {"up", "left", "up_left"}
  Centre = "centre"
  DirsOf <- MCDirsOf
  Token = {"K1", "K2", "P1"}
  PadToken = {"P1"}
  StickSettings <- MCStickSettings
CONSTRAINT StillRuns
INVARIANT PadsInPlace
INVARIANT KeysOwed
INVARIANT StickKeysOwed
INVARIANT NoConfirmLeak
INVARIANT AsleepMeansStill
PROPERTY HoldEnds
PROPERTY DeadPadLeaves
