\* Two accepts of one listener.
CONSTANTS
  r1 = r1
  r2 = r2
  w1 = w1
  c1 = c1
  Ops = {r1, r2}
  Connects = {}
  Mask <- Accepts
  MayDrop = FALSE
  MayMove = FALSE
  Turners = {t1}
SPECIFICATION FairSpec
PROPERTY ReadyIsServed
\* The peer may have gone and every future be resolved.
CHECK_DEADLOCK FALSE
