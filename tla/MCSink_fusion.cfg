SPECIFICATION Spec
CONSTANTS
  a = a
  b = b
  c = c
  Ips = {a, b}
  AP_IP = sink
  NoRoute = NoRoute
  NoResource = NoResource
  MainSock = 3
  Fds = {4, 5}
  SOCKETLIST_LENGTH = 2
  ROUTE_TABLE_ENTRY_MAXNUM = 4
  RESOURCE_TABLE_ENTRY_MAXNUM = 4
  TerminalPdus <- FusionPdus
  MaxConnections = 2
  Departures = {"fin"}
  MaxPdus = 4
CHECK_DEADLOCK FALSE
INVARIANTS TypeOK TablesOK CommandsAreJustified
PROPERTIES RegistrationIsPermanent
