SPECIFICATION Spec
CONSTANTS
  low = low  mid = mid  high = high  Idle = Idle  None = None
  m1 = m1  m2 = m2  s1 = s1  e1 = e1  q1 = q1  l1 = l1
  Task <- MCTask
  Lowest = 3
  PendList <- MCPendList
  MaxLock = 1
  Application <- MCApplication
  Mutex = {m1, m2}
  MaxNest <- MCNest
  Sem = {s1}
  MaxCount = 1
  Event = {e1}
  Bit = {1, 2}
  Read <- MCRead
  Written = {{1}, {2}}
  Queue = {q1}
  Msg = {a, b}
  usQueueLen = 2
  Blocks = 1
  RWLock = {l1}
  MaxShares = 1
INVARIANTS
  FlagsTellTheLists
  MostUrgentRuns
  HoldersExclude
  PriorityIsGivenBack
  EveryPostIsUsedOnce
  QueuesLoseNothing
  NobodySleepsOnWhatIsThere
PROPERTY
  QueueIsAMessageQueue
SYMMETRY MessagesAlike
CHECK_DEADLOCK FALSE
