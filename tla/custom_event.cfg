\* Two posts under way, two turning threads, and an eventfd small enough to
\* overflow.
CONSTANTS
  Posters = {p1, p2}
  Turners = {w1, w2}
  Data = {d1, d2, d3}
  EventFdMax = 2
  NoData = NoData
SPECIFICATION FairSpec
INVARIANTS TypeOK HandlerExclusive ReadSucceeds NoStrandedDatum
PROPERTIES EveryPostHandled ImplementsChannel
\* The event may have nothing left to do, or a handler may have panicked.
CHECK_DEADLOCK FALSE
