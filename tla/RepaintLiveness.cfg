SPECIFICATION FairSpec
CONSTANTS
  f1 = f1
  f2 = f2
  f3 = f3
  f4 = f4
  f5 = f5
  f6 = f6
  NoFd = NoFd
  NumDisplays = 2
  QueueDepth = 3
  CrtcOf <- OwnCrtcs
  ExplicitFencing <- FencingBoth
  EglFencing = FALSE
  Fds <- TwoFds
  HeapZeroed = TRUE
  ImplicitFencing = TRUE
  DeviceFaults = FALSE
  PaintFaults = FALSE
PROPERTIES
  EveryOutputRepaints
