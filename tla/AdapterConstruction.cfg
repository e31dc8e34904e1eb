SPECIFICATION AdapterSpec
CONSTANTS
  NumBuffers = 4
  f1 = f1
  NoFd = NoFd
  Fds <- OneFd
  NumConnectors = 2
  BUFFER_QUEUE_DEPTH = 2
  NumEncoders = 2
  NumCrtcs = 2
  NumPlanes = 3
  NumFbs = 1
  KmsFound <- OwnEncoders
INVARIANTS
  TypeOK
  NothingLeftBehind
  ModifiersAgree
  AcceptedAllUsable
  ExtensionsEnforced
  PlanesApart
  ReadyForLoop
CHECK_DEADLOCK FALSE
