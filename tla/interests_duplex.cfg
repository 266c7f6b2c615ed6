\* A Connect, then one reader and one writer, on two clones of the stream.
CONSTANTS
  r1 = r1
  r2 = r2
  w1 = w1
  c1 = c1
  Ops = {r1, w1, c1}
  Connects = {c1}
  Mask <- Connecting
  MayDrop = FALSE
  MayMove = FALSE
  Turners = {t1}
SPECIFICATION FairSpec
INVARIANTS WaitersAreListed ConnectFailsForAReason
PROPERTY LoneDirectionServed
\* The peer may have gone and every future be resolved.
CHECK_DEADLOCK FALSE
