SPECIFICATION Spec
CONSTANTS
  a = a
  b = b
  c = c
  Ips = {a, b, c}
  AP_IP = sink
  NoRoute = NoRoute
  NoResource = NoResource
  MainSock = 3
  Fds = {4, 5}
  SOCKETLIST_LENGTH = 2
  ROUTE_TABLE_ENTRY_MAXNUM = 3
  RESOURCE_TABLE_ENTRY_MAXNUM = 4
  TerminalPdus <- RoutingPdus
  MaxConnections = 3
  Departures = {"fin"}
  MaxPdus = 3
CHECK_DEADLOCK FALSE
INVARIANTS SocketListOK RouteFollowsLastHeard ExitHasACause
