SPECIFICATION FairSpec
CONSTANTS
  Nodes = {1, 2}
  Calls <- Mixed
  Retries = 2
  Attempts = 3
  MaxPending = 3
  None = None
INVARIANTS TypeOK FramesBounded FailsOnlyWhenExhausted StaleOnlyIfKept
PROPERTIES CallsReturn CallSpec
