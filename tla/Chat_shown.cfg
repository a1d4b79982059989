SPECIFICATION ChatSpec
CONSTANTS
  h1 = h1
  h2 = h2
  p1 = p1
  p2 = p2
  p3 = p3
  NoHost = NoHost
  NoClient = NoClient
  Hosts = {h1, h2}
  Clients = {p1, p2}
  HostOf <- MCHostOf
  Port <- MCPort
  MaxFds = 2
  MaxCommands = 2
  MaxStarts = 0
PROPERTY
  MessagesShown
\* The server may end, and the bounds run out.
CHECK_DEADLOCK FALSE
