SPECIFICATION Spec
CONSTANTS
  f1 = f1
  f2 = f2
  f3 = f3
  f4 = f4
  f5 = f5
  f6 = f6
  NoFd = NoFd
  NumDisplays = 3
  QueueDepth = 3
  CrtcOf <- ThreeCrtcs
  ExplicitFencing <- FencingMixed
  EglFencing = FALSE
  Fds <- TwoFds
  HeapZeroed = TRUE
  ImplicitFencing = TRUE
  DeviceFaults = TRUE
  PaintFaults = FALSE
INVARIANTS
  TypeOK
  AssertionsHold
  KmsOwnsInUse
  ScanoutRendered
  OneCommitInFlight
  PollNeverStuck
  ViewMatchesScreen
  TwoBuffersSuffice
  NoFenceLeak
PROPERTIES
  ImplementsFlipChain
CHECK_DEADLOCK FALSE
