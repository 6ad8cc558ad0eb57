SPECIFICATION FairSpec
CONSTANTS
  a = a
  b = b
  c = c
  Ips = {a, b}
  AP_IP = sink
  NoRoute = NoRoute
  NoResource = NoResource
  MainSock = 3
  Fds = {4, 5, 6}
  SOCKETLIST_LENGTH = 2
  ROUTE_TABLE_ENTRY_MAXNUM = 2
  RESOURCE_TABLE_ENTRY_MAXNUM = 3
  TerminalPdus <- ServicePdus
  MaxConnections = 3
  Departures = {"fin", "gone"}
  MaxPdus = 2
CHECK_DEADLOCK FALSE
INVARIANTS AnswersReachTheirSource
PROPERTIES EverySocketIsServed ServedUntilClosed RoutesAreMemory
