SPECIFICATION FairSpec
CONSTANTS
  RX_BUF_SIZE = 3
  TIMER_LIMIT = 2
  MaxChars = 6
CHECK_DEADLOCK FALSE
INVARIANTS TypeOK FrameIsWhatWasStored PartialFrameIsTimed
PROPERTIES FrameIsStableWhileRead FramesComplete ImplementsReceiver
