\* Another thread may be given the number of a socket that is being dropped.
CONSTANTS
  Sockets = {s1, s2}
  Fds = {f1}
  Turners = {w1}
  BufferSize = 2
  Waits <- Seconds
  Word = 4096
  None = None
SPECIFICATION Spec
PROPERTY OwnEventGone
\* Every socket may be gone and every turner have panicked.
CHECK_DEADLOCK FALSE
