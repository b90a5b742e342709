SPECIFICATION FairSpec
CONSTANTS
  Hosts = {1, 2, 3, 4, 5}
  PortNumbers = {0, 7, 8, 10, 65536}
  KeyOrder <- Keys
  Configs <- Sections
  Boards = {U, V, W}
  Anonymous = {V, W}
  Home <- Network
  HardHosts = 4
  HardPorts = 2
  HardProbes = 5
  HardWorkers = 3
  U = U
  V = V
  W = W
  None = None
INVARIANTS TypeOK CapsHeld HostsAsListed AnswersKept
PROPERTIES ScanEnds CallSpec
CHECK_DEADLOCK FALSE
