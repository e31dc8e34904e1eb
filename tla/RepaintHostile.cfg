SPECIFICATION Spec
CONSTANTS
  f1 = f1
  f2 = f2
  f3 = f3
  f4 = f4
  f5 = f5
  f6 = f6
  NoFd = NoFd
  NumDisplays = 2
  QueueDepth = 3
  CrtcOf <- OwnCrtcs
  ExplicitFencing <- FencingBoth
  EglFencing = TRUE
  Fds <- SixFds
  HeapZeroed = FALSE
  ImplicitFencing = TRUE
  DeviceFaults = TRUE
  PaintFaults = TRUE
SYMMETRY FdSymmetry
INVARIANTS
  KmsOwnsInUse
CHECK_DEADLOCK FALSE
