SPECIFICATION Spec
CONSTANTS
  NSEC_PER_SEC = 20
  NSEC_PER_MSEC = 1
  NSEC_PER_USEC = 2
  NUM_ANIM_FRAMES = 4
  TOLERANCE = 3
  refreshIntervalNsec = 12
  Period = 13
  INT_MAX = 9
  Memory <- Zeroed
  Schedules <- PaintsTooLong
  Horizon = 100
PROPERTIES
  LinearAnimation
CHECK_DEADLOCK FALSE
