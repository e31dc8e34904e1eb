SPECIFICATION Spec
CONSTANTS
  f1 = f1
  f2 = f2
  f3 = f3
  f4 = f4
  f5 = f5
  f6 = f6
  NoFd = NoFd
  NumDisplays = 1
  QueueDepth = 3
  CrtcOf <- OneCrtc
  ExplicitFencing <- FencingOne
  EglFencing = FALSE
  Fds <- TwoFds
  HeapZeroed = FALSE
  ImplicitFencing = TRUE
  DeviceFaults = FALSE
  PaintFaults = FALSE
INVARIANTS
  AssertionsHold
CHECK_DEADLOCK FALSE
