\* Wake-ups that come from worker threads, with the scheduler's fairness.
CONSTANTS
  Workers = {w1, w2}
  GlobalTasks = {t1, t2}
  LocalTasks = {l1}
  ForeignNotifies = FALSE
  MaxSignals = 2
  NoTask = NoTask
SPECIFICATION FairSpec
INVARIANTS SuspendedAtZero NoLostWakeup
PROPERTIES WakeupSeen SpawnedIsPolled EventsRouse
\* The process may have exited, or its workers, or all tasks be done.
CHECK_DEADLOCK FALSE
