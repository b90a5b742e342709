SPECIFICATION Spec
CONSTANTS
  CanIds = {1, 2, 3}
  Boards <- Swapped
  Payloads = {"allow_charging", "refloat_leds_on", "disable_charging", "oversized"}
  ThorCanId = 2
  BmsCanId = 3
  ControlsEnabled = TRUE
  LedControlsEnabled = TRUE
  RequireSafeState = FALSE
  Cooldown = 0
  StaticRefreshEvery = 2
  QueueSize = 1
  MaxCommands = 1
  MaxRestarts = 0
  None = None
INVARIANTS BmsTargetOnBus LedTargetSupported
