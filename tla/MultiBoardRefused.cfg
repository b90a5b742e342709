SPECIFICATION FairSpec
CONSTANTS
  Endpoints = {1, 2, 3}
  Primary = 1
  Scanned = {1, 2, 3}
  Lossy = {}
  Boards = {P, U, V}
  Anonymous = {}
  Placements <- AllThere
  ConnectOutcomes = {"up", "refused"}
  RefreshEvery = 1
  ScanEvery = 0
  P = P
  U = U
  V = V
  None = None
PROPERTIES BoardsExposed
