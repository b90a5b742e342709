SPECIFICATION FairSpec
CONSTANTS
  CanIds = {1, 2}
  Boards <- ParkedOnly
  Payloads = {"allow_charging"}
  ThorCanId = 1
  BmsCanId = 2
  ControlsEnabled = TRUE
  LedControlsEnabled = TRUE
  RequireSafeState = TRUE
  Cooldown = 1
  StaticRefreshEvery = 2
  QueueSize = 2
  MaxCommands = 2
  MaxRestarts = 0
  None = None
PROPERTIES StatusSettles
