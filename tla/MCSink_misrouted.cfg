SPECIFICATION Spec
CONSTANTS
  a = a
  b = b
  c = c
  Ips = {a, b}
  AP_IP = sink
  NoRoute = NoRoute
  NoResource = NoResource
  MainSock = 3
  Fds = {4, 5}
  SOCKETLIST_LENGTH = 2
  ROUTE_TABLE_ENTRY_MAXNUM = 3
  RESOURCE_TABLE_ENTRY_MAXNUM = 3
  TerminalPdus <- TalkingPdus
  MaxConnections = 2
  Departures = {"fin"}
  MaxPdus = 2
SYMMETRY Addresses
CHECK_DEADLOCK FALSE
INVARIANTS ForwardedPdusReachTheirAddress
