\* Every interleaving of two workers, two global and one local task, with
\* notifications from outside the pool too.
CONSTANTS
  Workers = {w1, w2}
  GlobalTasks = {t1, t2}
  LocalTasks = {l1}
  ForeignNotifies = TRUE
  MaxSignals = 3
  NoTask = NoTask
SPECIFICATION Spec
SYMMETRY Symmetry
INVARIANTS TypeOK ExclusivePoll OwnedOnce DoneIsFinal
PROPERTY ImplementsTasks
\* The process may have exited, or its workers, or all tasks be done.
CHECK_DEADLOCK FALSE
