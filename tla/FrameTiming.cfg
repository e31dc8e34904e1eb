SPECIFICATION FairSpec
CONSTANTS
  NSEC_PER_SEC = 20
  NSEC_PER_MSEC = 1
  NSEC_PER_USEC = 2
  NUM_ANIM_FRAMES = 3
  TOLERANCE = 3
  refreshIntervalNsec = 12
  Period = 13
  INT_MAX = 7
  Memory <- Leftover
  Schedules <- PunctualAndLate
  Horizon = 80
INVARIANTS
  TypeOK
  PredictionTight
  FrameOfPrediction
PROPERTIES
  FramesOnTime
  LinearWhenPunctual
  AdvanceEnds
CHECK_DEADLOCK FALSE
