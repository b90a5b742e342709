SPECIFICATION Spec
CONSTANTS
  CanIds = {1, 2}
  Boards <- FlakyRide
  Payloads = {"refloat_leds_on"}
  ThorCanId = 2
  BmsCanId = 2
  ControlsEnabled = TRUE
  LedControlsEnabled = TRUE
  RequireSafeState = TRUE
  Cooldown = 2
  StaticRefreshEvery = 1
  QueueSize = 2
  MaxCommands = 3
  MaxRestarts = 1
  None = None
INVARIANTS TypeOK IdleBeforeWrite LedTargetSupported CommandsAccountedFor CooldownHeld
PROPERTIES LedgerSpec
