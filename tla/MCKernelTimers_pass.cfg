SPECIFICATION Spec
CONSTANTS
  Task = {a, b, c}
  SortLinkLen = 2
  MaxTimeout = 5
  Wrap = 16
  LOSCFG_BASE_CORE_SWTMR_LIMIT = 2
  LOS_COMMON_DIVISOR = 2
  TimerPlan <- MCTimerPlan
  Parks = FALSE
INVARIANT AlignedTimersExpireTogether
PROPERTIES DeadlinesAreExact OnlyRepeatedCallbacksAreDropped
CHECK_DEADLOCK FALSE
