SPECIFICATION FairSpec
CONSTANTS
  Endpoints = {1, 2, 3, 4}
  Primary = 1
  Scanned = {1, 2, 3, 4}
  Lossy = {}
  Boards = {P, U, V}
  Anonymous = {}
  Placements <- ComeAndGo
  ConnectOutcomes = {"up", "late"}
  RefreshEvery = 2
  ScanEvery = 1
  P = P
  U = U
  V = V
  None = None
INVARIANTS TypeOK
PROPERTIES BoardsExposed
