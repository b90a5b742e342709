SPECIFICATION Spec
CONSTANTS
  Endpoints = {1, 2, 3, 4, 5}
  Primary = 1
  Scanned = {1, 2, 3, 4, 5}
  Lossy = {3, 4}
  Boards = {P, U, V}
  Anonymous = {V}
  Placements <- Aliased
  ConnectOutcomes = {"up", "refused"}
  RefreshEvery = 1
  ScanEvery = 0
  P = P
  U = U
  V = V
  None = None
INVARIANTS DeviceIdsUnique
PROPERTIES RegistrySpec
