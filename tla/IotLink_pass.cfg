SPECIFICATION FairSpec
CONSTANTS
  Caller = {a, b, c}
  a = a
  b = b
  c = c
  Data = {d1, d2, d3}
  d1 = d1
  d2 = d2
  d3 = d3
  msg_buflen = 2
  Client = {a, b}
  Word = {ok, more}
  ok = ok
  more = more
  MaxCommands = 2
  MaxFrames = 1
  QueueLength = 2
  Blocks = 2
  MaxVersion = 2
  FaultSets = {{"late", "lose", "repeat", "restart"},
               {"late", "repeat", "restart", "between", "tear", "write"},
               {"update"}}
  MaxFaults = 3
INVARIANTS CountedIsWritten RestartCostsOneBlock
PROPERTIES QueueIsFirstInFirstOut UpdateCompletes CommandsGetTheirAnswers
CHECK_DEADLOCK FALSE
