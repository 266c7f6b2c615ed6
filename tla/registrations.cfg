\* Two sockets, whose numbers may be one after the other's, two turners.
CONSTANTS
  Sockets = {s1, s2}
  Fds = {f1, f2}
  Turners = {w1, w2}
  BufferSize = 2
  Waits <- Seconds
  Word = 4096
  None = None
SPECIFICATION FairSpec
INVARIANTS TypeOK UpgradesLive OpenSocketsRegistered PanicsOnlyAfterClose
INVARIANT InterestsAwaited
PROPERTIES EventsHandled TurnsReturn
\* Every socket may be gone and every turner have panicked.
CHECK_DEADLOCK FALSE
