SPECIFICATION FairSpec
CONSTANTS
  SendQueueLength = 2
  Packet = {p1, p2}
  SendGap = 1
  UpdateGap = 2
  CounterMax = 4
  WaitTime = 2
  MaxPending = 2
  FaultSets = {{"drop"}}
  p1 = p1
  p2 = p2
PROPERTIES DisconnectIsNoticed
