SPECIFICATION ServicesSpec
CONSTANTS
  s1 = s1
  s2 = s2
  d1 = d1
  d2 = d2
  Device = {d1, d2}
  Source = {s1, s2}
  Token = {"VK_A", "VK_MINUS", "VK_CONTROL_L", "VK_CONTROL_R", "VK_LCONTROL", "VK_VOLUME_MUTE"}
  Edge <- AllEdges
  DeviceOf <- MCDeviceOf
  Usage <- MCUsage
  Modifier <- MCModifier
  UsageOf <- MCUsageOf
  NoUsage = "NoUsage"
  Vk <- MCVk
  VkOf <- MCVkOf
  NoVk = "NoVk"
  RollOver = "RollOver"
  MaxKeys = 1
  Caller = {"gui", "startup"}
  Gui = "gui"
  RumbleSide = {"Left", "Right"}
  StopSuccesses = 2
  MaxTransitions <- MCTransitions
  Message <- MCMessages
  MaxSent = 3
  Channels = 8
  ReportSize = 64
  Asker = {"gui", "exit"}
  NoAsker = "none"
  Exit = "exit"
  MaxCommands = 3
  RecoverAttempts = 1
  StallWrites = 1
  PadSide = {"L", "R"}
  InitIds <- MCInitIds
  Failures = 3
  InfoAttempts = 2
  PairCommands = 2
  Connections = 2
  Requests <- MCRequests
  MaxProxies = 2
  SetupTries = 2
  AttachTries = 3
  MaxFrames = 3
  MaxThreads = 3
  MaxLives = 2
  TimerLoop = {"rumble", "mouse"}
  OffLease = "off"
INVARIANT OneSink
INVARIANT NoStuckKey
INVARIANT ReportIsOwners
INVARIANT HeldStaysDown
INVARIANT PairRumblePlays
INVARIANT MessagesAsSent
 
INVARIANT MotorFollows
 
INVARIANT SilentWhenAsleep
INVARIANT InitHonest
 
INVARIANT NoOrphanChild
 
INVARIANT TimerMatchesMode
