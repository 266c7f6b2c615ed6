\* One thread inside run, notified by another.
CONSTANTS
  Runners = {r1}
  Others = {n1}
  NoOne = NoOne
SPECIFICATION FairSpec
PROPERTY WakeupSeen
\* The run may have returned.
CHECK_DEADLOCK FALSE
