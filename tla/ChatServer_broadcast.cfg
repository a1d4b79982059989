SPECIFICATION Spec
CONSTANTS
  h1 = h1
  h2 = h2
  h3 = h3
  p1 = p1
  p2 = p2
  p3 = p3
  NoHost = NoHost
  NoClient = NoClient
  Hosts = {h1, h2, h3}
  Clients = {p1, p2, p3}
  HostOf <- MCOwnHost
  Port <- MCSamePort
  MaxFds = 3
  MaxCommands = 2
  MaxStarts = 0
SYMMETRY MCHostSymmetry
PROPERTY BroadcastReachesAll
\* The server may end, and the bounds run out.
CHECK_DEADLOCK FALSE
