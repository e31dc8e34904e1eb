SPECIFICATION Spec
CONSTANTS
  NumBuffers = 3
  f1 = f1
  f2 = f2
  NoFd = NoFd
  Fds <- DmaBufFds
INVARIANTS
  EveryBufferUsable
CHECK_DEADLOCK FALSE
