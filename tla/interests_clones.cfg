\* Two readers and a writer on clones of a socket, futures moved and
\* dropped at will.
CONSTANTS
  r1 = r1
  r2 = r2
  w1 = w1
  c1 = c1
  Ops = {r1, r2, w1}
  Connects = {}
  Mask <- Clones
  MayDrop = TRUE
  MayMove = TRUE
  Turners = {t1, t2}
SPECIFICATION Spec
INVARIANTS TypeOK InterestCovered PresentTaskRegistered
\* The peer may have gone and every future be resolved.
CHECK_DEADLOCK FALSE
