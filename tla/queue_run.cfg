\* Two threads inside run, which may notify each other, and one that is not.
CONSTANTS
  Runners = {r1, r2}
  Others = {n1}
  NoOne = NoOne
SPECIFICATION FairSpec
INVARIANTS TypeOK FlagRemembers InTimeInterrupts SignalsAreHandled
PROPERTIES BusyQueueWakes ImplementsTasks
\* Every run may have returned.
CHECK_DEADLOCK FALSE
