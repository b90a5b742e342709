SPECIFICATION Spec
CONSTANTS
  Nodes = {1, 2}
  Calls <- TwoNodes
  Retries = 3
  Attempts = 3
  MaxPending = 2
  None = None
INVARIANT ReadingsFresh
