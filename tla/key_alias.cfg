SPECIFICATION AnySpec
CONSTANTS
  s1 = s1
  s2 = s2
  d1 = d1
  d2 = d2
  Device = {d1, d2}
  Source = {s1, s2}
  Token = {"VK_A", "VK_MINUS", "VK_CONTROL_L", "VK_CONTROL_R", "VK_LCONTROL", "VK_VOLUME_MUTE"}
  Edge <- ControlEdges
  DeviceOf <- MCDeviceOf
  Usage <- MCUsage
  Modifier <- MCModifier
  UsageOf <- MCUsageOf
  NoUsage = "NoUsage"
  Vk <- MCVk
  VkOf <- MCVkOf
  NoVk = "NoVk"
  RollOver = "RollOver"
  MaxKeys = 1
  Caller = {"gui"}
  Gui = "gui"
INVARIANT HeldStaysDown
