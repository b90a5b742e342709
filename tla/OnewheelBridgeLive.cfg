SPECIFICATION FairSpec
CONSTANTS
  CanIds = {1, 2}
  Boards <- ComeAndGo
  Payloads = {"allow_charging"}
  ThorCanId = 2
  BmsCanId = 2
  ControlsEnabled = TRUE
  LedControlsEnabled = TRUE
  RequireSafeState = TRUE
  Cooldown = 0
  StaticRefreshEvery = 2
  QueueSize = 1
  MaxCommands = 1
  MaxRestarts = 0
  None = None
PROPERTIES CommandsAnswered OfflineWhenDown OnlineWhenUp CacheFollowsBoard TelemetryComplete LedButtonsAppear
