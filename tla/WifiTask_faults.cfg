SPECIFICATION FairSpec
CONSTANTS
  SendQueueLength = 2
  Packet = {p1, p2}
  SendGap = 1
  UpdateGap = 2
  CounterMax = 3
  WaitTime = 3
  MaxPending = 2
  FaultSets = {{"late", "drop", "talk"}, {"drop", "talk"}, {}}
  p1 = p1
  p2 = p2
INVARIANTS TypeOK RingOK AtMostOnePacket
PROPERTIES RemovedIsDelivered AnnouncedIsSent PacketsAreSentOnce SinkIsUpdated
