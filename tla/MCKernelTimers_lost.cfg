SPECIFICATION ParkingSpec
CONSTANTS
  Task = {a}
  SortLinkLen = 2
  MaxTimeout = 2
  Wrap = 16
  LOSCFG_BASE_CORE_SWTMR_LIMIT = 2
  LOS_COMMON_DIVISOR = 2
  TimerPlan <- SensitivePlan
  Parks = TRUE
INVARIANT RemainingIsWithinInterval
CHECK_DEADLOCK FALSE
