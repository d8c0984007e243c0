SPECIFICATION Spec
CONSTANTS
  Settings <- MCSettings
  ShortcutMods = {"lalt"}
  MaxKeys = 2
  MaxPads = 2
  MaxOutputs = 2
  QueueFills = TRUE
  None = None
INVARIANTS NothingStuck DeviceFollows HostInSync TypedOnce LocksCatchUp
CHECK_DEADLOCK FALSE
