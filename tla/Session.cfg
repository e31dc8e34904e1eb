SPECIFICATION SessionSpec
CONSTANTS
  VTs = {1, 2, 3}
  f1 = f1
  f2 = f2
  f3 = f3
  f4 = f4
  f5 = f5
  NoFd = NoFd
  NumDisplays = 1
  QueueDepth = 3
  CrtcOf <- OneCrtc
  ExplicitFencing <- FencingOne
  EglFencing = TRUE
  Fds <- FiveFds
  HeapZeroed = TRUE
  ImplicitFencing = TRUE
  DeviceFaults = TRUE
  PaintFaults = FALSE
SYMMETRY FdSymmetry
INVARIANTS
  AssertionsHold
  FencesHeldOnce
  NoFenceLeak
  ReusedFenceSignalled
  TerminalRestored
CHECK_DEADLOCK FALSE
